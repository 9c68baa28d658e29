----------------------------- MODULE SonarDevice -----------------------------
(***************************************************************************)
(* What /dev/adcsonar promises to those who read it, without the XADC, the *)
(* thread and the lock: while the module is loaded it holds one reading,   *)
(* conversion after conversion takes its place, none twice and none passed *)
(* over, and a read returns the reading that was there at one moment of    *)
(* the call.                                                               *)
(*                                                                         *)
(* The k-th conversion's reading is Reading(k), its distance named k too.  *)
(***************************************************************************)
EXTENDS Naturals

CONSTANT Users

VARIABLES
  loaded,   (* Is the module loaded?                                        *)
  version,  (* The reading it holds; 0 before the first conversion          *)
  sampled,  (* What each user's call has taken: nothing or one reading      *)
  answer    (* What each user's last read of this load returned             *)

deviceVars == <<loaded, version, sampled, answer>>

Reading(k) == [distance |-> k, version |-> k]
Nothing    == [u \in Users |-> {}]
Unread     == [u \in Users |-> Reading(0)]

Load ==
  /\ ~loaded
  /\ loaded' = TRUE
  /\ UNCHANGED <<version, sampled, answer>>

Publish ==
  /\ loaded
  /\ version' = version + 1
  /\ UNCHANGED <<loaded, sampled, answer>>

Sample(u) ==
  /\ loaded
  /\ sampled[u] = {}
  /\ sampled' = [sampled EXCEPT ![u] = {Reading(version)}]
  /\ UNCHANGED <<loaded, version, answer>>

(* The call may also fail after all, and leave the user what it had.         *)
Return(u) ==
  /\ sampled[u] # {}
  /\ \E s \in sampled[u] : answer' \in {answer, [answer EXCEPT ![u] = s]}
  /\ sampled' = [sampled EXCEPT ![u] = {}]
  /\ UNCHANGED <<loaded, version>>

(* The next load counts from 0 again.                                        *)
Unload ==
  /\ loaded
  /\ loaded' = FALSE
  /\ version' = 0 /\ sampled' = Nothing /\ answer' = Unread

DeviceInit == loaded = FALSE /\ version = 0 /\ sampled = Nothing /\ answer = Unread

DeviceNext ==
  \/ Load \/ Publish \/ Unload
  \/ \E u \in Users : Sample(u) \/ Return(u)

DeviceSpec == DeviceInit /\ [][DeviceNext]_deviceVars
=============================================================================
