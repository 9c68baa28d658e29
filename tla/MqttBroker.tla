------------------------------ MODULE MqttBroker ------------------------------
(***************************************************************************)
(* The broker application, src/UserSpace/mqttbroker/files/mqttSender.c.    *)
(* Its main loop calls AppScheduler and MqttHandle_App in turn; the two    *)
(* state machines talk through mqttWriteFlag, MqttHandle_DataState and the *)
(* payload.  AppScheduler takes readings from /dev/adcsonar, where the     *)
(* kernel thread publishes them at its own pace.                           *)
(*                                                                         *)
(* A reading is named by its version number; scaling it to centimetres and *)
(* formatting it are left out, so the payload is the name of the reading   *)
(* it was made from.                                                       *)
(*                                                                         *)
(* main opens the session first (TlsSession).  SIGINT may strike anywhere  *)
(* and ends the process through its handler; the process may also just     *)
(* die; systemd starts it again (mqttbroker.service, Restart=always),      *)
(* until it has done so StartLimit times within the interval it looks at:  *)
(* then the unit has failed and stays down.                                *)
(***************************************************************************)
EXTENDS MqttHandle, TlsSession

CONSTANTS
  Signals,      (* May the process be interrupted or killed?                *)
  StartLimit    (* Starts within an interval; systemd's default: 5 in 10 s  *)

ASSUME VersionsAssumption == Readings \subseteq Nat \ {0} /\ NoReading = 0
ASSUME SignalsAssumption == Signals \in BOOLEAN
ASSUME StartLimitAssumption == StartLimit \in Nat \ {0}

VARIABLES
  pc,           (* Where main is: down, init, scheduler, app, sleep         *)
  schedState,   (* scheduler_state                                          *)
  writeFlag,    (* mqttWriteFlag                                            *)
  kData,        (* adcSonar_kData.version                                   *)
  actl,         (* The reading adcSonar_DistanceActl was computed from      *)
  delayEn,      (* scheduler_delayEn                                        *)
  endFlag       (* endFlag # 0                                              *)

VARIABLES
  loaded,       (* Is the kernel module adcsonar loaded?                    *)
  version,      (* Its adcSonar_Data.version                                *)
  starts        (* Starts of the service in the interval systemd looks at   *)

senderVars == <<schedState, writeFlag, kData, actl, delayEn, endFlag>>
systemVars == <<loaded, version, starts>>
brokerVars == <<vars, pc, senderVars, systemVars, tlsVars>>

Running == pc \in {"scheduler", "app", "sleep"}

-----------------------------------------------------------------------------
(* main up to its loop.  The unit sets no StartLimitIntervalSec and no       *)
(* StartLimitBurst of its own, so the defaults hold.                         *)

GivenUp == pc = "down" /\ starts = StartLimit

Start ==
  /\ pc = "down" /\ ~GivenUp
  /\ starts' = starts + 1
  /\ pc' = "init"
  /\ schedState' = "UNBIND_XADC"
  /\ writeFlag' = FALSE /\ delayEn' = FALSE /\ endFlag' = FALSE
  /\ kData' = 0 /\ actl' = NoReading
  /\ TlsNew
  /\ UNCHANGED <<vars, loaded, version>>

(* The interval is over; or the unit has failed and somebody resets it.      *)
StartsForgotten ==
  /\ starts # 0
  /\ starts' = 0
  /\ UNCHANGED <<vars, pc, senderVars, loaded, version, tlsVars>>

(* MqttHandle_Init, call by call, and its result.                            *)
OpenSession(ok) ==
  /\ pc = "init"
  /\ TlsStep(ok)
  /\ UNCHANGED <<vars, pc, senderVars, systemVars>>

MainInit ==
  /\ pc = "init" /\ step = "return" /\ ~failed
  /\ Open
  /\ pc' = "scheduler"
  /\ UNCHANGED <<senderVars, systemVars, tlsVars>>

(* The loop is not entered, and nothing released.                            *)
MainInitFails ==
  /\ pc = "init" /\ step = "return" /\ failed
  /\ endFlag' = TRUE
  /\ pc' = "down"
  /\ UNCHANGED <<vars, schedState, writeFlag, kData, actl, delayEn, systemVars, tlsVars>>

-----------------------------------------------------------------------------
(* AppScheduler, one action per case.                                        *)

UnbindXadc(ok) ==
  /\ schedState = "UNBIND_XADC"
  /\ delayEn' = FALSE
  /\ kData' = 0
  /\ endFlag' = ~ok
  /\ schedState' = "START_XADC_KERNEL"
  /\ UNCHANGED <<vars, writeFlag, actl, systemVars, tlsVars>>

(* modprobe succeeds without effect when the module is loaded already, as it *)
(* is after a run that did not end through the SIGINT handler.               *)
StartXadcKernel(ok) ==
  /\ schedState = "START_XADC_KERNEL"
  /\ endFlag' = ~ok
  /\ schedState' = "READ_DATA"
  /\ loaded' = (loaded \/ ok)
  /\ version' = IF loaded THEN version ELSE 0
  /\ UNCHANGED <<vars, writeFlag, kData, actl, delayEn, starts, tlsVars>>

(* Seeded fault: only the next version counts as new.                        *)
ReadDataNextOnly(ok) ==
  /\ schedState = "READ_DATA"
  /\ ok => loaded
  /\ IF ok /\ version = kData + 1
       THEN kData' = version /\ actl' = version /\ schedState' = "SEND_TO_SERVER"
       ELSE UNCHANGED <<kData, actl, schedState>>
  /\ UNCHANGED <<vars, writeFlag, delayEn, endFlag, systemVars, tlsVars>>

(* AdcSonarHandle_ReadData: without the device the open fails, with it the   *)
(* open or the read may fail, and kData stays; otherwise the version read is *)
(* compared with the one before.                                             *)
ReadData(ok) ==
  /\ schedState = "READ_DATA"
  /\ ok => loaded
  /\ IF ok /\ version # kData
       THEN /\ kData' = version
            /\ actl' = version
            /\ schedState' = "SEND_TO_SERVER"
       ELSE UNCHANGED <<kData, actl, schedState>>
  /\ UNCHANGED <<vars, writeFlag, delayEn, endFlag, systemVars, tlsVars>>

SendToServer ==
  /\ schedState = "SEND_TO_SERVER"
  /\ IF dataState = "IDLE"
       THEN /\ SetPayload(actl)
            /\ writeFlag' = TRUE
            /\ schedState' = "PREPARE_READ"
       ELSE UNCHANGED <<vars, writeFlag, schedState>>
  /\ UNCHANGED <<kData, actl, delayEn, endFlag, systemVars, tlsVars>>

(* Seeded faults: the flag stays up; the payload is refreshed while the      *)
(* client has not said SENDING.                                              *)
PrepareReadFlagStays ==
  /\ schedState = "PREPARE_READ"
  /\ schedState' = IF dataState = "SENDING" THEN "FINISH_SEND" ELSE schedState
  /\ UNCHANGED <<vars, writeFlag, kData, actl, delayEn, endFlag, systemVars, tlsVars>>

PrepareReadRefreshes ==
  /\ schedState = "PREPARE_READ"
  /\ IF dataState = "SENDING"
       THEN writeFlag' = FALSE /\ schedState' = "FINISH_SEND" /\ UNCHANGED vars
       ELSE /\ payload' = version
            /\ UNCHANGED <<writeFlag, schedState, clientVars, wireVars, delivered, acked>>
  /\ UNCHANGED <<kData, actl, delayEn, endFlag, systemVars, tlsVars>>

PrepareRead ==
  /\ schedState = "PREPARE_READ"
  /\ IF dataState = "SENDING"
       THEN writeFlag' = FALSE /\ schedState' = "FINISH_SEND"
       ELSE UNCHANGED <<writeFlag, schedState>>
  /\ UNCHANGED <<vars, kData, actl, delayEn, endFlag, systemVars, tlsVars>>

(* Seeded fault: the send counts as finished once the client is past INIT.   *)
FinishSendEarly ==
  /\ schedState = "FINISH_SEND"
  /\ IF dataState # "INIT"
       THEN delayEn' = TRUE /\ schedState' = "READ_DATA"
       ELSE UNCHANGED <<delayEn, schedState>>
  /\ UNCHANGED <<vars, writeFlag, kData, actl, endFlag, systemVars, tlsVars>>

FinishSend ==
  /\ schedState = "FINISH_SEND"
  /\ IF dataState = "IDLE"
       THEN delayEn' = TRUE /\ schedState' = "READ_DATA"
       ELSE UNCHANGED <<delayEn, schedState>>
  /\ UNCHANGED <<vars, writeFlag, kData, actl, endFlag, systemVars, tlsVars>>

AppScheduler ==
  /\ pc = "scheduler"
  /\ pc' = "app"
  /\ \/ \E ok \in BOOLEAN : UnbindXadc(ok)
     \/ \E ok \in BOOLEAN : StartXadcKernel(ok)
     \/ \E ok \in BOOLEAN : ReadData(ok)
     \/ SendToServer
     \/ PrepareRead
     \/ FinishSend

-----------------------------------------------------------------------------
(* The rest of the loop body.                                                *)

CallApp ==
  /\ pc = "app"
  /\ pc' = "sleep"
  /\ App(writeFlag)
  /\ UNCHANGED <<senderVars, systemVars, tlsVars>>

(* usleep, two seconds after a finished send; then the loop condition.  When *)
(* it fails main returns, and the link goes down with the process.           *)
Sleep ==
  /\ pc = "sleep"
  /\ delayEn' = FALSE
  /\ UNCHANGED <<schedState, writeFlag, kData, actl, endFlag, systemVars, tlsVars>>
  /\ IF endFlag
       THEN pc' = "down" /\ Close
       ELSE pc' = "scheduler" /\ UNCHANGED vars

-----------------------------------------------------------------------------
(* The end of the process.                                                   *)

LinkGone == IF link = "none" THEN UNCHANGED vars ELSE Close

(* AdcSonarHandle_DeInit: modprobe -r, which may fail.                       *)
UnloadKernel == \E ok \in BOOLEAN : loaded' = (loaded /\ ~ok)

(* handle_sigint: reset the payload, unload, close the session, exit.        *)
HandleSigint ==
  /\ Signals
  /\ pc # "down"
  /\ pc' = "down"
  /\ UnloadKernel
  /\ LinkGone
  /\ DeInit
  /\ UNCHANGED <<senderVars, version, starts>>

(* The first SSL_write over a link the peer has closed still takes the bytes *)
(* or reports the reset; one after it raises SIGPIPE, and nothing in the     *)
(* application ignores or handles that signal.                               *)
PipeBroken == pc = "app" /\ state = "WRITE" /\ link = "closed"

(* Any other end of the process: no handler runs.                            *)
Killed ==
  /\ pc # "down"
  /\ Signals \/ (pc = "init" /\ Undefined) \/ PipeBroken
  /\ pc' = "down"
  /\ LinkGone
  /\ UNCHANGED <<senderVars, systemVars, tlsVars>>

(* The kernel thread of adcsonar publishes a conversion (module AdcSonar).   *)
Convert ==
  /\ loaded
  /\ version + 1 \in Readings
  /\ version' = version + 1
  /\ UNCHANGED <<vars, pc, senderVars, loaded, starts, tlsVars>>

Environment ==
  /\ BrokerAnswers \/ PeerCloses
  /\ UNCHANGED <<pc, senderVars, systemVars, tlsVars>>

BrokerInit ==
  /\ Init
  /\ pc = "down"
  /\ schedState = "UNBIND_XADC"
  /\ writeFlag = FALSE /\ delayEn = FALSE /\ endFlag = FALSE
  /\ kData = 0 /\ actl = NoReading
  /\ starts = 0
  /\ loaded = FALSE /\ version = 0
  /\ TlsInit

BrokerNext ==
  \/ Start \/ StartsForgotten \/ MainInit \/ MainInitFails
  \/ \E ok \in BOOLEAN : OpenSession(ok)
  \/ AppScheduler \/ CallApp \/ Sleep
  \/ HandleSigint \/ Killed
  \/ Convert \/ Environment

BrokerSpec == BrokerInit /\ [][BrokerNext]_brokerVars

-----------------------------------------------------------------------------
(* Fairness.  systemd restarts the process until it has given up, and the    *)
(* loop keeps turning; the link, the kernel and the broker do what they can  *)
(* do infinitely often: a name lookup, a modprobe, a read of the device or a *)
(* transfer may fail any number of times, but not for ever.  Over a closed   *)
(* link that includes the SIGPIPE.  A compliant broker answers, or, where    *)
(* the identifier is 0, may close.  The sonar converts without being asked.  *)
TransferProgress == CallApp /\ clientVars' # clientVars
Fairness ==
  /\ WF_brokerVars(Start)
  /\ WF_brokerVars(MainInit \/ MainInitFails \/ \E ok \in BOOLEAN : OpenSession(ok))
  /\ \A s \in {"SSL_CTX_new", "BIO_new_mem_buf", "socket", "connect", "SSL_new", "SSL_connect"} :
       SF_brokerVars(step = s /\ ~failed /\ OpenSession(TRUE))
  /\ WF_brokerVars(AppScheduler)
  /\ SF_brokerVars(pc = "scheduler" /\ pc' = "app" /\ UnbindXadc(TRUE))
  /\ SF_brokerVars(pc = "scheduler" /\ pc' = "app" /\ StartXadcKernel(TRUE))
  /\ SF_brokerVars(pc = "scheduler" /\ pc' = "app" /\ ReadData(TRUE))
  /\ WF_brokerVars(CallApp)
  /\ SF_brokerVars(TransferProgress \/ (PipeBroken /\ Killed))
  /\ WF_brokerVars(Sleep)
  /\ WF_brokerVars(Environment /\ (BrokerAnswers \/ ZeroIdPending))

FairSpec == BrokerSpec /\ Fairness

-----------------------------------------------------------------------------
(* The loop runs only on a session that is whole: MqttHandle_Init goes on    *)
(* after a failure, also with a context already freed, and still must not    *)
(* return 0 unless context, socket and verified handshake are all there.     *)
(* And while no call has failed, MqttHandle_DeInit, which SIGINT can run     *)
(* between any two of them, releases each thing once.                        *)
SessionWhole ==
  /\ Running => ctx = "live" /\ sock = "live" /\ handle = "connected"
  /\ ~failed => "dangling" \notin {ctx, sock}

(* The two state machines never disagree about a hand-off.  While the flag   *)
(* is up the payload is the reading in hand and has not been published; once *)
(* it is down and a send is under way, that reading is the one on the wire   *)
(* (AppScheduler SEND_TO_SERVER to FINISH_SEND; MqttHandle_App PUBLISH).     *)
HandOff ==
  Running =>
    /\ writeFlag <=> schedState = "PREPARE_READ"
    /\ schedState \in {"PREPARE_READ", "FINISH_SEND"} => payload = kData
    /\ dataState = "SENDING" => schedState \in {"PREPARE_READ", "FINISH_SEND"}
    /\ state = "PUBLISH" => schedState = "PREPARE_READ"
    /\ schedState = "PREPARE_READ" /\ dataState # "SENDING" =>
         \A i \in 1 .. Len(delivered) : delivered[i].reading < kData

(* The text being published is not rewritten under the client's hands: from  *)
(* the moment the flag is seen until the answer is in, the payload is stable *)
(* (the only writers are SEND_TO_SERVER and the SIGINT handler, which ends   *)
(* the process).                                                             *)
PayloadStable ==
  [][ (link' # "none" /\ (state = "PUBLISH" \/ dataState = "SENDING"))
        => payload' = payload ]_brokerVars

(* AppScheduler's FINISH_SEND says "Data is sent to adafruit io"             *)
(* (mqttSender.c:109): a reading the scheduler has finished with was         *)
(* acknowledged by the broker.                                               *)
FinishedIsAcked ==
  Running /\ schedState = "READ_DATA" /\ kData # 0 => kData \in acked

(* The application implements ReadingFeed: readings reach the broker in the  *)
(* order taken, each once, none skipped once taken, even when the broker     *)
(* answers anything and processes come and go.                               *)
FeedLog ==
  IF Running THEN [i \in 1 .. Len(delivered) |-> delivered[i].reading] ELSE << >>
FeedPhase ==
  IF ~Running \/ schedState \in {"UNBIND_XADC", "START_XADC_KERNEL", "READ_DATA"} THEN "idle"
  ELSE IF \E i \in 1 .. Len(delivered) : delivered[i].reading = kData THEN "sent"
  ELSE "held"

Feed == INSTANCE ReadingFeed WITH
          phase <- FeedPhase,
          held  <- IF Running THEN kData ELSE 0,
          log   <- FeedLog
ImplementsFeed == Feed!FeedSpec

(* With a broker that answers properly, a conversion is never the last word: *)
(* the broker acknowledges that reading or a newer one, however writes,      *)
(* reads, lookups and loads fail before they succeed.  Two things end this   *)
(* for good, and they are named: the peer closes the link (as it may of its  *)
(* own accord, and at a PUBLISH with identifier 0), or the process fails so  *)
(* often within systemd's interval that the unit is given up.                *)
FreshReadingReachesBroker ==
  \A v \in Readings :
    (loaded /\ version = v) ~>
      (link = "closed" \/ GivenUp \/ \E u \in acked : u >= v)

(* A link the peer has closed is noticed in WRITE only, and there by dying:  *)
(* SIGPIPE ends the process and systemd starts another.  In READ nothing     *)
(* leads anywhere, neither the 0 nor the errors of SSL_read: a client that   *)
(* keeps a closed link waits in READ for ever, with endFlag clear, and no    *)
(* new CONNECT and no restart follow.                                        *)
ClosedLinkIsForever ==
  <>[](link = "closed") => <>[](state = "READ")
=============================================================================
