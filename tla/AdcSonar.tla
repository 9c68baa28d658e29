------------------------------ MODULE AdcSonar ------------------------------
(***************************************************************************)
(* The kernel module adcsonar (src/KernelModules/adcsonar/files): a thread *)
(* that polls the XADC, publishes each finished conversion as a pair of a  *)
(* distance and a version under a spinlock, and starts the next sequence;  *)
(* /dev/adcsonar, whose read copies the pair under the same lock; an       *)
(* interrupt handler that only reads the XADC's status register; and the   *)
(* loading and unloading of all that.  The file operations have no owner,  *)
(* so that the module can be unloaded while files are open, and while a    *)
(* read or the handler is under way.                                       *)
(*                                                                         *)
(* The XADC is the environment: in single pass mode it converts once per   *)
(* start of the sequence, then sets the end-of-sequence bits in STATUS     *)
(* (cleared by reading it) and INTR_STATUS (cleared by writing it) and     *)
(* waits.  The k-th conversion's result is named k.                        *)
(***************************************************************************)
EXTENDS Naturals

CONSTANTS
  Readers,      (* Processes that read /dev/adcsonar.                       *)
  Faults,       (* The steps of adcsonar_init that may fail.                *)
  MaxConv       (* Bound: conversions per load of the module.               *)

ASSUME MaxConvAssumption == MaxConv \in Nat
ASSUME ReadersAssumption == Readers \cap {"free", "thread"} = {}

VARIABLES
  adcState,     (* adcSonar_State                                           *)
  tpc,          (* Where adcSonar_thread is                                 *)
  rawData,      (* adcSonar_RawData                                         *)
  data,         (* adcSonar_Data                                            *)
  lock          (* data_lock: who holds it                                  *)

VARIABLES
  rpc,          (* Where each reader is in adcSonar_read; "closed" without  *)
                (* the file, "lost" in a module that is gone                *)
  tmp,          (* tmp_data of each reader                                  *)
  user          (* What its last read returned, in this load                *)

VARIABLES
  mpc,          (* Where adcsonar_init or adcsonar_exit is; "oops" when the *)
                (* kernel has stopped it                                    *)
  hpc,          (* Where Xadc_Irq is                                        *)
  held          (* What the module has acquired and not released            *)

VARIABLES
  running,      (* XADC: a sequence is being converted                      *)
  conv,         (* XADC: the last result; also how many there were          *)
  status,       (* XADC: EOC and EOS in STATUS                              *)
  intr,         (* XADC: EOC and EOS in INTR_STATUS                         *)
  intrEn        (* XADC: interrupts enabled                                 *)

threadVars == <<adcState, tpc, rawData, data, lock>>
readerVars == <<rpc, tmp, user>>
moduleVars == <<mpc, hpc, held>>
xadcVars   == <<running, conv, status, intr, intrEn>>
vars       == <<threadVars, readerVars, moduleVars, xadcVars>>

Free   == "free"
Thread == "thread"
Zero   == [distance |-> 0, version |-> 0]

(* "irqId" is Xadc_InterruptId > 0, "irq" the installed handler, "errptr" an *)
(* error left in xadc_ktask.                                                 *)
Resources == {"chrdev", "class", "device", "mapping", "irqId", "irq", "thread", "errptr"}

-----------------------------------------------------------------------------
(* The XADC.                                                                 *)

SequenceDone ==
  /\ running
  /\ conv < MaxConv
  /\ running' = FALSE
  /\ conv' = conv + 1
  /\ status' = TRUE
  /\ intr' = TRUE
  /\ UNCHANGED <<threadVars, readerVars, moduleVars, intrEn>>

(* Xadc_Irq is called.                                                       *)
XadcIrqEnter ==
  /\ "irq" \in held /\ intrEn /\ intr
  /\ hpc = "none"
  /\ hpc' = "read"
  /\ UNCHANGED <<threadVars, readerVars, mpc, held, xadcVars>>

(* Seeded fault: the handler also clears the interrupt, as its author tried. *)
XadcIrqClears ==
  /\ hpc = "read"
  /\ hpc' = "none"
  /\ status' = FALSE
  /\ intr' = FALSE
  /\ UNCHANGED <<threadVars, readerVars, mpc, held, running, conv, intrEn>>

(* It reads STATUS, which clears it, and leaves INTR_STATUS alone; there is  *)
(* no callback.  Nothing keeps Xadc_DeInit from taking Xadc_Base away first. *)
XadcIrq ==
  /\ hpc = "read"
  /\ IF "mapping" \in held
       THEN hpc' = "none" /\ status' = FALSE /\ UNCHANGED mpc
       ELSE mpc' = "oops" /\ UNCHANGED <<hpc, status>>
  /\ UNCHANGED <<threadVars, readerVars, held, running, conv, intr, intrEn>>

-----------------------------------------------------------------------------
(* adcSonar_thread, one action per access to the XADC, the lock or the data. *)
(* "top" is the loop condition, before and after msleep.                     *)

ThreadStop ==
  /\ tpc = "top" /\ mpc = "stop"
  /\ tpc' = "stopped"
  /\ UNCHANGED <<adcState, rawData, data, lock, readerVars, moduleVars, xadcVars>>

AtTop == tpc = "top" /\ mpc # "stop"

StartConv ==
  /\ AtTop /\ adcState = "START_CONV"
  /\ adcState' = "CHECK_STATUS"
  /\ UNCHANGED <<tpc, rawData, data, lock, readerVars, moduleVars, xadcVars>>

(* Xadc_GetSeqStatusAndClear reads STATUS.                                   *)
GetSeqStatus ==
  /\ AtTop /\ adcState = "CHECK_STATUS"
  /\ tpc' = IF status THEN "clear" ELSE "flag"
  /\ status' = FALSE
  /\ UNCHANGED <<adcState, rawData, data, lock, readerVars, moduleVars, running, conv, intr, intrEn>>

(* Xadc_GetSeqFlagAndClear reads INTR_STATUS: the second attempt of          *)
(* CHECK_STATUS and the only one of CONV_END.                                *)
GetSeqFlag ==
  /\ \/ tpc = "flag"
     \/ AtTop /\ adcState = "CONV_END"
  /\ tpc' = IF intr THEN "clear" ELSE "top"
  /\ adcState' = "CONV_END"
  /\ UNCHANGED <<rawData, data, lock, readerVars, moduleVars, xadcVars>>

(* Seeded fault: the flag that was seen is not cleared.                      *)
ClearSeqFlagNot ==
  /\ tpc = "clear"
  /\ tpc' = "sample"
  /\ UNCHANGED <<adcState, rawData, data, lock, readerVars, moduleVars, xadcVars>>

ClearSeqFlag ==
  /\ tpc = "clear"
  /\ intr' = FALSE
  /\ tpc' = "sample"
  /\ UNCHANGED <<adcState, rawData, data, lock, readerVars, moduleVars, running, conv, status, intrEn>>

ReadSample ==
  /\ tpc = "sample"
  /\ rawData' = conv
  /\ tpc' = "lock"
  /\ UNCHANGED <<adcState, data, lock, readerVars, moduleVars, xadcVars>>

LockData ==
  /\ tpc = "lock"
  /\ lock = Free
  /\ lock' = Thread
  /\ tpc' = "distance"
  /\ UNCHANGED <<adcState, rawData, data, readerVars, moduleVars, xadcVars>>

SetDistance ==
  /\ tpc = "distance"
  /\ data' = [distance |-> rawData, version |-> data.version]
  /\ tpc' = "version"
  /\ UNCHANGED <<adcState, rawData, lock, readerVars, moduleVars, xadcVars>>

(* Seeded fault: the version is kept in one bit.                             *)
IncVersionNarrow ==
  /\ tpc = "version"
  /\ data' = [distance |-> data.distance, version |-> (data.version + 1) % 2]
  /\ tpc' = "unlock"
  /\ UNCHANGED <<adcState, rawData, lock, readerVars, moduleVars, xadcVars>>

IncVersion ==
  /\ tpc = "version"
  /\ data' = [distance |-> data.distance, version |-> data.version + 1]
  /\ tpc' = "unlock"
  /\ UNCHANGED <<adcState, rawData, lock, readerVars, moduleVars, xadcVars>>

UnlockData ==
  /\ tpc = "unlock"
  /\ lock' = Free
  /\ tpc' = "restart"
  /\ UNCHANGED <<adcState, rawData, data, readerVars, moduleVars, xadcVars>>

(* Seeded fault: only the first attempt restarts the sequence.               *)
RestartSequenceOnce ==
  /\ tpc = "restart"
  /\ running' = (adcState = "CHECK_STATUS")
  /\ adcState' = "CONV_END"
  /\ tpc' = "top"
  /\ UNCHANGED <<rawData, data, lock, readerVars, moduleVars, conv, status, intr, intrEn>>

(* Xadc_RestartSequence: default mode, then single pass mode again; and the  *)
(* state the thread goes on in.                                              *)
RestartSequence ==
  /\ tpc = "restart"
  /\ running' = TRUE
  /\ adcState' = "CONV_END"
  /\ tpc' = "top"
  /\ UNCHANGED <<rawData, data, lock, readerVars, moduleVars, conv, status, intr, intrEn>>

ThreadStep ==
  \/ StartConv \/ GetSeqStatus \/ GetSeqFlag \/ ClearSeqFlag \/ ReadSample
  \/ LockData \/ SetDistance \/ IncVersion \/ UnlockData \/ RestartSequence
  \/ ThreadStop

-----------------------------------------------------------------------------
(* adcSonar_read, through a file that can be opened as long as the node is   *)
(* there.                                                                    *)

Open(r) ==
  /\ rpc[r] = "closed" /\ "device" \in held
  /\ rpc' = [rpc EXCEPT ![r] = "idle"]
  /\ UNCHANGED <<threadVars, tmp, user, moduleVars, xadcVars>>

Close(r) ==
  /\ rpc[r] = "idle"
  /\ rpc' = [rpc EXCEPT ![r] = "closed"]
  /\ UNCHANGED <<threadVars, tmp, user, moduleVars, xadcVars>>

ReadLock(r) ==
  /\ rpc[r] = "idle"
  /\ lock = Free
  /\ lock' = r
  /\ rpc' = [rpc EXCEPT ![r] = "distance"]
  /\ UNCHANGED <<adcState, tpc, rawData, data, tmp, user, moduleVars, xadcVars>>

CopyDistance(r) ==
  /\ rpc[r] = "distance"
  /\ tmp' = [tmp EXCEPT ![r] = [distance |-> data.distance, version |-> tmp[r].version]]
  /\ rpc' = [rpc EXCEPT ![r] = "version"]
  /\ UNCHANGED <<threadVars, user, moduleVars, xadcVars>>

(* Seeded fault: the lock is let go before the version is copied.            *)
CopyVersionLate(r) ==
  /\ rpc[r] = "version"
  /\ IF lock = r
       THEN lock' = Free /\ UNCHANGED <<tmp, rpc>>
       ELSE /\ tmp' = [tmp EXCEPT ![r] = [distance |-> tmp[r].distance, version |-> data.version]]
            /\ rpc' = [rpc EXCEPT ![r] = "copy"]
            /\ UNCHANGED lock
  /\ UNCHANGED <<adcState, tpc, rawData, data, user, moduleVars, xadcVars>>

CopyVersion(r) ==
  /\ rpc[r] = "version"
  /\ tmp' = [tmp EXCEPT ![r] = [distance |-> tmp[r].distance, version |-> data.version]]
  /\ rpc' = [rpc EXCEPT ![r] = "unlock"]
  /\ UNCHANGED <<threadVars, user, moduleVars, xadcVars>>

(* Seeded fault: the lock is kept.                                           *)
ReadUnlockForgets(r) ==
  /\ rpc[r] = "unlock"
  /\ rpc' = [rpc EXCEPT ![r] = "copy"]
  /\ UNCHANGED <<threadVars, tmp, user, moduleVars, xadcVars>>

ReadUnlock(r) ==
  /\ rpc[r] = "unlock"
  /\ lock' = Free
  /\ rpc' = [rpc EXCEPT ![r] = "copy"]
  /\ UNCHANGED <<adcState, tpc, rawData, data, tmp, user, moduleVars, xadcVars>>

CopyToUser(r) ==
  /\ rpc[r] = "copy"
  /\ \/ user' = [user EXCEPT ![r] = tmp[r]]
     \/ UNCHANGED user                                  (* -EFAULT          *)
  /\ rpc' = [rpc EXCEPT ![r] = "idle"]
  /\ UNCHANGED <<threadVars, tmp, moduleVars, xadcVars>>

ReadStep(r) ==
  CopyDistance(r) \/ CopyVersion(r) \/ ReadUnlock(r) \/ CopyToUser(r)

-----------------------------------------------------------------------------
(* adcsonar_init.  mpc names the call it is about to make; the module is     *)
(* loaded with fresh static variables.                                       *)

RegisterChrdev ==
  /\ mpc = "unloaded"
  /\ mpc' = "class"
  /\ held' = {"chrdev"}
  /\ adcState' = "START_CONV" /\ tpc' = "none" /\ rawData' = 0 /\ data' = Zero /\ lock' = Free
  /\ user' = [r \in Readers |-> Zero]
  /\ conv' = 0
  /\ UNCHANGED <<rpc, tmp, hpc, running, status, intr, intrEn>>

(* class_create and device_create: on failure adcsonar_init returns at once  *)
(* and gives nothing back; what becomes of that is not followed.             *)
CreateNode(res, next) ==
  /\ mpc = res
  /\ \/ held' = held \cup {res} /\ mpc' = next
     \/ res \in Faults /\ mpc' = "failed" /\ UNCHANGED held
  /\ UNCHANGED <<threadVars, readerVars, hpc, xadcVars>>

ParamsInit ==
  /\ mpc = "params"
  /\ data' = Zero
  /\ mpc' = "mapping"
  /\ UNCHANGED <<adcState, tpc, rawData, lock, readerVars, hpc, held, xadcVars>>

(* Xadc_Init, part 1: without the mapping it returns and no thread is made.  *)
(* With it the XADC is reset; it raises no flag until it is configured.      *)
Ioremap ==
  /\ mpc = "mapping"
  /\ \/ /\ held' = held \cup {"mapping"} /\ mpc' = "irqId"
        /\ status' = FALSE /\ intr' = FALSE /\ running' = FALSE
     \/ /\ "mapping" \in Faults /\ mpc' = "live"
        /\ UNCHANGED <<held, status, intr, running>>
  /\ UNCHANGED <<threadVars, readerVars, hpc, conv, intrEn>>

(* Part 2: Xadc_InterruptCheck, then request_irq.  When one fails, Xadc_Init *)
(* returns, and its caller sees a mapping and goes on to start the thread.   *)
GetIrq(res, next) ==
  /\ mpc = res
  /\ \/ held' = held \cup {res} /\ mpc' = next
     \/ res \in Faults /\ mpc' = "thread" /\ UNCHANGED held
  /\ UNCHANGED <<threadVars, readerVars, hpc, xadcVars>>

(* Part 3: clear both flag registers, enable the interrupt, start the first  *)
(* sequence by writing the configuration.                                    *)
Configure ==
  /\ mpc = "configure"
  /\ status' = FALSE /\ intr' = FALSE /\ intrEn' = TRUE
  /\ running' = TRUE
  /\ mpc' = "thread"
  /\ UNCHANGED <<threadVars, readerVars, hpc, held, conv>>

StartThread ==
  /\ mpc = "thread"
  /\ mpc' = "live"
  /\ \/ tpc' = "top" /\ held' = held \cup {"thread"}
     \/ "thread" \in Faults /\ held' = held \cup {"errptr"} /\ UNCHANGED tpc
  /\ UNCHANGED <<adcState, rawData, data, lock, readerVars, hpc, xadcVars>>

-----------------------------------------------------------------------------
(* adcsonar_exit.                                                            *)

BeginExit ==
  /\ mpc = "live"
  /\ mpc' = "stop"
  /\ UNCHANGED <<threadVars, readerVars, hpc, held, xadcVars>>

(* Seeded fault: nobody waits for the thread.                                *)
StopThreadNoWait ==
  /\ mpc = "stop"
  /\ mpc' = "disable"
  /\ held' = held \ {"thread"}
  /\ UNCHANGED <<threadVars, readerVars, hpc, xadcVars>>

(* kthread_stop returns when the thread has; on an error pointer it oopses.  *)
StopThread ==
  /\ mpc = "stop"
  /\ tpc \in {"none", "stopped"}
  /\ mpc' = IF "errptr" \in held THEN "oops" ELSE "disable"
  /\ held' = held \ {"thread"}
  /\ UNCHANGED <<threadVars, readerVars, hpc, xadcVars>>

(* Xadc_DeInit writes the registers before it asks whether they are mapped.  *)
DisableXadc ==
  /\ mpc = "disable"
  /\ IF "mapping" \in held
       THEN /\ running' = FALSE /\ status' = FALSE /\ intr' = FALSE /\ intrEn' = FALSE
            /\ mpc' = "unmap"
       ELSE /\ mpc' = "oops"
            /\ UNCHANGED <<running, status, intr, intrEn>>
  /\ UNCHANGED <<threadVars, readerVars, hpc, held, conv>>

(* Before free_irq, and whatever the handler is doing.                       *)
Unmap ==
  /\ mpc = "unmap"
  /\ held' = held \ {"mapping"}
  /\ mpc' = "free"
  /\ UNCHANGED <<threadVars, readerVars, hpc, xadcVars>>

(* free_irq waits for a handler that runs.                                   *)
FreeIrq ==
  /\ mpc = "free"
  /\ hpc = "none"
  /\ held' = IF "irqId" \in held THEN held \ {"irqId", "irq"} ELSE held
  /\ mpc' = "destroy"
  /\ UNCHANGED <<threadVars, readerVars, hpc, xadcVars>>

(* The module's text and data go next.  Who then has its file open is in     *)
(* freed memory with the next step of its call, or with its next call.       *)
DestroyNode ==
  /\ mpc = "destroy"
  /\ held' = held \ {"device", "class", "chrdev"}
  /\ mpc' = "unloaded"
  /\ rpc' = [r \in Readers |-> IF rpc[r] = "closed" THEN "closed" ELSE "lost"]
  /\ lock' = Free
  /\ UNCHANGED <<adcState, tpc, rawData, data, tmp, user, hpc, xadcVars>>

ModuleInit ==
  \/ CreateNode("class", "device") \/ CreateNode("device", "params")
  \/ ParamsInit \/ Ioremap
  \/ GetIrq("irqId", "irq") \/ GetIrq("irq", "configure")
  \/ Configure \/ StartThread

ModuleExit ==
  StopThread \/ DisableXadc \/ Unmap \/ FreeIrq \/ DestroyNode

-----------------------------------------------------------------------------
Init ==
  /\ adcState = "START_CONV" /\ tpc = "none" /\ rawData = 0 /\ data = Zero /\ lock = Free
  /\ rpc = [r \in Readers |-> "closed"]
  /\ tmp = [r \in Readers |-> Zero] /\ user = [r \in Readers |-> Zero]
  /\ mpc = "unloaded" /\ hpc = "none" /\ held = {}
  /\ running = FALSE /\ conv = 0 /\ status = FALSE /\ intr = FALSE /\ intrEn = FALSE

Next ==
  \/ SequenceDone \/ XadcIrqEnter \/ XadcIrq
  \/ ThreadStep
  \/ \E r \in Readers : Open(r) \/ Close(r) \/ ReadLock(r) \/ ReadStep(r)
  \/ RegisterChrdev \/ ModuleInit \/ BeginExit \/ ModuleExit

Spec == Init /\ [][Next]_vars

(* The kernel schedules the thread, the handler and the processes in a       *)
(* system call; its spinlocks are fair to those who wait; a sequence that    *)
(* was started ends.                                                         *)
(* Nobody has to read, to load or to unload.                                 *)
Fairness ==
  /\ WF_vars(SequenceDone) /\ WF_vars(XadcIrq)
  /\ WF_vars(ThreadStep) /\ SF_vars(LockData)
  /\ \A r \in Readers : WF_vars(ReadStep(r))
  /\ WF_vars(ModuleInit) /\ WF_vars(ModuleExit)

FairSpec == Spec /\ Fairness

-----------------------------------------------------------------------------
Publishing == {"clear", "sample", "lock", "distance", "version", "unlock", "restart"}
Pair == [distance : 0 .. MaxConv, version : 0 .. MaxConv]

AdcTypeOK ==
  /\ adcState \in {"START_CONV", "CHECK_STATUS", "CONV_END"}
  /\ tpc \in {"none", "top", "flag", "stopped"} \cup Publishing
  /\ rawData \in 0 .. MaxConv /\ data \in Pair
  /\ lock \in Readers \cup {Thread, Free}
  /\ rpc \in [Readers -> {"closed", "idle", "distance", "version", "unlock", "copy", "lost"}]
  /\ tmp \in [Readers -> Pair] /\ user \in [Readers -> Pair]
  /\ mpc \in {"unloaded", "class", "device", "params", "mapping", "irqId", "irq", "configure", "thread",
              "live", "stop", "disable", "unmap", "free", "destroy", "failed", "oops"}
  /\ hpc \in {"none", "read"} /\ held \subseteq Resources
  /\ running \in BOOLEAN /\ conv \in 0 .. MaxConv
  /\ status \in BOOLEAN /\ intr \in BOOLEAN /\ intrEn \in BOOLEAN

(* A process never sees the distance of one conversion with the version of   *)
(* another, and no conversion is published twice or passed over: the k-th    *)
(* version is the k-th conversion (adcSonar_read, adcSonar_thread, the       *)
(* "Spinlock to avoid race conditions").                                     *)
ReadIsOneConversion ==
  \A r \in Readers : user[r].distance = user[r].version

(* The XADC works in single passes, so a trigger that gets lost is the end   *)
(* of all readings.  Whenever the thread polls a configured XADC, a sequence *)
(* is running, or its end is flagged where the thread will look, or the      *)
(* thread is on its way from the flag to the next start; never two of them.  *)
(* The interrupt handler, which clears STATUS, must not take the flag away.  *)
OneTrigger ==
  {"irq", "thread"} \subseteq held /\ mpc = "live" =>
    \/ running /\ ~intr /\ tpc \notin Publishing
    \/ ~running /\ intr /\ tpc \notin Publishing \ {"clear"}
    \/ ~running /\ ~intr /\ tpc \in Publishing \ {"clear"}

(* What adcsonar_exit leaves behind, after every adcsonar_init that          *)
(* completed, whichever of its steps failed.  The thread ends before the     *)
(* mapping it polls through; the handler before the module does, but not     *)
(* before the mapping: it may be caught by iounmap, and only by it.  An      *)
(* unload that ends has released everything.  One that does not (an oops)    *)
(* has been stopped by that handler, or met the trace of a failed init: the  *)
(* error pointer of kthread_run, or a mapping that never was.                *)
ExitUndoesInit ==
  /\ tpc \notin {"none", "stopped"} => {"mapping", "thread"} \subseteq held
  /\ hpc = "read" => "irq" \in held /\ ("mapping" \in held \/ mpc \in {"free", "oops"})
  /\ mpc = "unloaded" => held = {} /\ lock = Free /\ ~intrEn
  /\ mpc = "oops" => \/ hpc = "read" /\ "mapping" \notin held
                     \/ "errptr" \in held
                     \/ held = {"chrdev", "class", "device"}

(* Readings do not go back: what a process reads in one load of the module   *)
(* is never older than what it read before.                                  *)
VersionsGrow ==
  [][mpc # "unloaded" => \A r \in Readers : user'[r].version >= user[r].version]_vars

(* The driver implements SonarDevice: for those who read it, it is one       *)
(* reading that is replaced as a whole, from the moment its node is made to  *)
(* that it goes, when reads under way get no answer.  A read takes effect    *)
(* where the version is copied, a conversion where it is incremented.        *)
Up       == "device" \in held
Current  == IF Up THEN data.version ELSE 0
Taken    == [r \in Readers |-> IF rpc[r] \in {"unlock", "copy"} THEN {tmp[r]} ELSE {}]
Returned == IF Up THEN user ELSE [r \in Readers |-> Zero]

Device == INSTANCE SonarDevice WITH
            Users <- Readers, loaded <- Up, version <- Current, sampled <- Taken, answer <- Returned
ImplementsDevice == Device!DeviceSpec

(* Once the module is up, every conversion the bound allows is published,    *)
(* whatever the readers do to the lock, unless the module is unloaded first. *)
KeepsPublishing ==
  (mpc = "live" /\ {"irq", "thread"} \subseteq held) ~> (data.version = MaxConv \/ mpc = "stop")

(* The exit of a module whose thread was started comes to its end: neither   *)
(* kthread_stop hangs on the thread, which may wait for a lock that a reader *)
(* holds and others want, nor free_irq on the handler.  Only a handler whose *)
(* mapping goes under it keeps it from that.                                 *)
UnloadCompletes ==
  mpc = "stop" /\ "thread" \in held ~> (mpc = "unloaded" \/ (mpc = "oops" /\ hpc = "read"))

(* "Avoid starting a thread if the initialization is failed"                 *)
(* (adcsonar_main.c:240): the thread exists only when Xadc_Init got as far   *)
(* as configuring the XADC.                                                  *)
ThreadOnlyIfInitialised ==
  mpc = "live" /\ "thread" \in held => intrEn
=============================================================================
