----------------------------- MODULE ReadingFeed -----------------------------
(***************************************************************************)
(* What the broker application promises, without the protocol: it takes a  *)
(* sonar reading newer than every one before it, the broker receives that  *)
(* reading exactly once, and only then is the next reading taken.  A run   *)
(* of the process may end at any time; the next one starts a log of its    *)
(* own.                                                                    *)
(*                                                                         *)
(* Readings are named by their version number, the counter the kernel      *)
(* module adcsonar increments with every conversion.                       *)
(***************************************************************************)
EXTENDS Naturals, Sequences

VARIABLES
  phase,    (* "idle": none taken; "held": taken; "sent": received        *)
  held,     (* The last reading taken; 0 before the first                 *)
  log       (* Readings the broker received in this run                   *)

feedVars == <<phase, held, log>>

Take ==
  /\ phase = "idle"
  /\ held' \in Nat
  /\ held' > held
  /\ phase' = "held"
  /\ UNCHANGED log

Deliver ==
  /\ phase = "held"
  /\ log' = Append(log, held)
  /\ phase' = "sent"
  /\ UNCHANGED held

Finish ==
  /\ phase = "sent"
  /\ phase' = "idle"
  /\ UNCHANGED <<held, log>>

Restart ==
  /\ phase' = "idle"
  /\ held' = 0
  /\ log' = << >>

FeedInit ==
  /\ phase = "idle"
  /\ held = 0
  /\ log = << >>

FeedNext ==
  \/ Take
  \/ Deliver
  \/ Finish
  \/ Restart

FeedSpec == FeedInit /\ [][FeedNext]_feedVars
=============================================================================
