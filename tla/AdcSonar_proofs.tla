--------------------------- MODULE AdcSonar_proofs ---------------------------
(***************************************************************************)
(* Theorems about the kernel module adcsonar, for any set of readers, any  *)
(* faults of its initialisation and any number of conversions.             *)
(*                                                                         *)
(* None of the properties is inductive.  AdcInv adds who holds the lock at *)
(* which point (Locks), where the module can be while the thread, the      *)
(* readers or the XADC are active (Phases), what the XADC's flag says of   *)
(* the thread (Triggers), how many conversions the published version is    *)
(* behind (Counts), what a reader has copied so far (Copies), what the     *)
(* module holds at each point of its life (Holdings), and when the handler *)
(* has its mapping (Accesses).                                             *)
(***************************************************************************)
EXTENDS AdcSonar, TLAPS

Critical == {"distance", "version", "unlock"}

Locks ==
  /\ lock = Thread <=> tpc \in Critical
  /\ \A r \in Readers : lock = r <=> rpc[r] \in Critical

Early   == {"class", "device", "params", "mapping"}
Middle  == {"irqId", "irq", "configure"}
Loading == mpc \in Early \cup Middle \cup {"thread"}
Gone    == {"unloaded", "unmap", "free", "destroy"}

Phases ==
  /\ "device" \notin held => \A r \in Readers : rpc[r] \in {"closed", "lost"}
  /\ mpc \notin {"live", "stop"} => tpc \in {"none", "stopped"}
  /\ mpc = "live" => tpc # "stopped"
  /\ Loading => tpc = "none" /\ data = Zero
  /\ mpc \in Early \cup Middle \cup Gone => ~running /\ ~status /\ ~intr
  /\ mpc \in Early \cup Middle => conv = 0
  /\ mpc \in Early \cup {"irqId", "irq"} => "irq" \notin held
  /\ Loading => "thread" \notin held
  /\ "thread" \in held => tpc # "none"

(* In CHECK_STATUS the STATUS register is consulted before INTR_STATUS, and  *)
(* tells of nothing INTR_STATUS does not; later it may be stale, and is not  *)
(* consulted.                                                                *)
Triggers ==
  /\ running => ~intr
  /\ tpc = "clear" => intr /\ ~running /\ (adcState # "CONV_END" => ~status)
  /\ tpc \in Publishing \ {"clear"} => ~intr /\ ~running
  /\ adcState # "CONV_END" /\ status => intr
  /\ tpc = "none" /\ mpc # "unloaded" => adcState # "CONV_END"
  /\ tpc \notin {"none", "stopped"} /\ "irq" \in held => running \/ intr \/ tpc \in Publishing
  /\ mpc = "thread" /\ "irq" \in held => running \/ intr

Polling == tpc \in {"top", "flag", "clear"} \/ (tpc = "none" /\ Loading)

Counts ==
  /\ Polling /\ intr => conv = data.version + 1
  /\ Polling /\ ~intr => conv = data.version
  /\ tpc \in {"sample", "lock", "distance", "version"} => conv = data.version + 1
  /\ tpc \in {"unlock", "restart"} => conv = data.version
  /\ tpc \in {"lock", "distance", "version"} => rawData = conv
  /\ tpc = "version" => data.distance = conv
  /\ tpc # "version" => data.distance = data.version

Copies ==
  \A r \in Readers :
    /\ rpc[r] = "version" => tmp[r].distance = data.distance
    /\ rpc[r] \in {"unlock", "copy"} => /\ tmp[r].distance = tmp[r].version
                                        /\ user[r].version <= tmp[r].version
                                        /\ tmp[r].version <= data.version
    /\ user[r].distance = user[r].version
    /\ mpc # "unloaded" => user[r].version <= data.version

Nodes == {"chrdev", "class", "device"}

Holdings ==
  /\ mpc = "unloaded" => held = {}
  /\ mpc = "class" => held = {"chrdev"}
  /\ mpc = "device" => held = {"chrdev", "class"}
  /\ mpc \in {"params", "mapping"} => held = Nodes
  /\ mpc \in Middle \cup {"thread", "live", "stop", "disable", "unmap", "free", "destroy"} => Nodes \subseteq held
  /\ mpc \in {"live", "stop", "disable"} /\ "mapping" \notin held => held = Nodes
  /\ mpc = "destroy" => held \subseteq Nodes
  /\ mpc = "free" => held \subseteq Nodes \cup {"irqId", "irq"}
  /\ mpc \in {"disable", "unmap"} => held \subseteq Nodes \cup {"irqId", "irq", "mapping"}
  /\ "irq" \in held => "irqId" \in held
  /\ mpc = "irq" => "irqId" \in held
  /\ Loading => "errptr" \notin held
  /\ mpc \in Middle \cup {"thread"} => "mapping" \in held
  /\ tpc \notin {"none", "stopped"} => "mapping" \in held /\ "thread" \in held
  /\ mpc \in Early \cup Middle \cup Gone => ~intrEn
  /\ intrEn => "mapping" \in held

(* A handler under way has its mapping until iounmap, and what can have      *)
(* stopped the exit.                                                         *)
Accesses ==
  /\ hpc = "read" => "irq" \in held /\ ("mapping" \in held \/ mpc \in {"free", "oops"})
  /\ mpc = "oops" => \/ hpc = "read" /\ "mapping" \notin held
                     \/ "errptr" \in held
                     \/ held = Nodes

AdcInv == AdcTypeOK /\ Locks /\ Phases /\ Triggers /\ Counts /\ Copies /\ Holdings /\ Accesses

-----------------------------------------------------------------------------
(* An end of sequence and an interrupt preserve the invariant.             *)
LEMMA XadcSteps ==
  ASSUME AdcInv, 
         SequenceDone \/ XadcIrqEnter \/ XadcIrq
  PROVE  AdcInv'
<1> USE DEF AdcInv, xadcVars, threadVars, readerVars, moduleVars
<1>1. CASE SequenceDone
  <2>1. AdcTypeOK'
    <3>1. conv' \in 0 .. MaxConv
      BY <1>1, MaxConvAssumption DEF SequenceDone, AdcTypeOK
    <3> QED
      BY <1>1, <3>1 DEF SequenceDone, AdcTypeOK
  <2>2. Locks'
    BY <1>1, ReadersAssumption DEF SequenceDone, Locks, Critical, AdcTypeOK, Pair,
       Publishing, Free, Thread
  <2>3. Phases'
    BY <1>1 DEF SequenceDone, Phases, AdcTypeOK, Early, Middle, Loading, Gone, Locks,
       Critical, Triggers, Zero, Free, Thread
  <2>4. Triggers'
    BY <1>1 DEF SequenceDone, Triggers, Phases, AdcTypeOK, Early, Middle, Loading, Gone,
       Publishing, Zero, Free, Thread
  <2>5. Counts'
    BY <1>1, MaxConvAssumption DEF SequenceDone, Counts, Polling, Triggers, Phases,
       AdcTypeOK, Pair, Early, Middle, Loading, Gone, Publishing, Zero, Free, Thread
  <2>6. Copies'
    BY <1>1 DEF SequenceDone, Copies, Counts, Locks, Critical, Phases, AdcTypeOK, Pair,
       Early, Middle, Loading, Gone, Zero, Free, Thread
  <2>7. Holdings'
    BY <1>1 DEF SequenceDone, Holdings, Nodes, Phases, AdcTypeOK, Early, Middle,
       Loading, Gone, Resources, Zero, Free, Thread
  <2>8. Accesses'
    BY <1>1 DEF SequenceDone, Accesses, Holdings, Nodes, Early, Middle, Loading, Gone
  <2> QED BY <2>1, <2>2, <2>3, <2>4, <2>5, <2>6, <2>7, <2>8
<1>2. CASE XadcIrq
  <2>1. /\ mpc' = mpc \/ (mpc' = "oops" /\ mpc \in {"free", "oops"})
        /\ status' \in {FALSE, status} /\ hpc' \in {hpc, "none"}
        /\ UNCHANGED <<threadVars, readerVars, held, running, conv, intr, intrEn>>
    BY <1>2 DEF XadcIrq, Accesses
  <2>2. AdcTypeOK'
    <3>1. status' \in BOOLEAN /\ hpc' \in {"none", "read"}
      BY <2>1 DEF AdcTypeOK
    <3>2. mpc' \in {mpc, "oops"}
      BY <2>1
    <3> QED BY <2>1, <3>1, <3>2 DEF AdcTypeOK, Pair
  <2>3. Locks'
    BY <2>1 DEF Locks, Critical
  <2>4. Phases'
    <3>1. status' => status
      BY <2>1
    <3> QED BY <2>1, <3>1 DEF Phases, Early, Middle, Loading, Gone
  <2>5. Triggers'
    <3>1. status' => status
      BY <2>1
    <3>2. mpc' # "unloaded" => mpc # "unloaded"
      BY <2>1
    <3>3. mpc' = "thread" => mpc = "thread"
      BY <2>1
    <3> QED BY <2>1, <3>1, <3>2, <3>3 DEF Triggers
  <2>6. Counts'
    BY <2>1 DEF Counts, Polling, Loading, Early, Middle, Phases
  <2>7. Copies'
    <3>1. mpc' # "unloaded" => mpc # "unloaded"
      BY <2>1
    <3> QED BY <2>1, <3>1 DEF Copies
  <2>8. Holdings'
    BY <2>1 DEF Holdings, Nodes, Phases, Early, Middle, Loading, Gone
  <2>9. Accesses'
    BY <1>2 DEF XadcIrq, Accesses, Holdings, Nodes, Early, Middle, Loading, Gone
  <2> QED BY <2>2, <2>3, <2>4, <2>5, <2>6, <2>7, <2>8, <2>9
<1>3. CASE XadcIrqEnter
  <2>1. AdcTypeOK'
    <3>1. conv' \in 0 .. MaxConv
      BY <1>3, MaxConvAssumption DEF XadcIrqEnter, AdcTypeOK
    <3> QED
      BY <1>3, <3>1 DEF XadcIrqEnter, AdcTypeOK
  <2>2. Locks'
    BY <1>3, ReadersAssumption DEF XadcIrqEnter, Locks, Critical, AdcTypeOK, Pair,
       Publishing, Free, Thread
  <2>3. Phases'
    BY <1>3 DEF XadcIrqEnter, Phases, AdcTypeOK, Early, Middle, Loading, Gone, Locks,
       Critical, Triggers, Zero, Free, Thread
  <2>4. Triggers'
    BY <1>3 DEF XadcIrqEnter, Triggers, Phases, AdcTypeOK, Early, Middle, Loading, Gone,
       Publishing, Zero, Free, Thread
  <2>5. Counts'
    BY <1>3, MaxConvAssumption DEF XadcIrqEnter, Counts, Polling, Triggers, Phases,
       AdcTypeOK, Pair, Early, Middle, Loading, Gone, Publishing, Zero, Free, Thread
  <2>6. Copies'
    BY <1>3 DEF XadcIrqEnter, Copies, Counts, Locks, Critical, Phases, AdcTypeOK, Pair,
       Early, Middle, Loading, Gone, Zero, Free, Thread
  <2>7. Holdings'
    BY <1>3 DEF XadcIrqEnter, Holdings, Nodes, Phases, AdcTypeOK, Early, Middle,
       Loading, Gone, Resources, Zero, Free, Thread
  <2>8. Accesses'
    BY <1>3 DEF XadcIrqEnter, Accesses, Holdings, Nodes, Early, Middle, Loading, Gone
  <2> QED BY <2>1, <2>2, <2>3, <2>4, <2>5, <2>6, <2>7, <2>8
<1> QED BY <1>1, <1>2, <1>3

(* Every step of adcSonar_thread preserves the invariant.                  *)
LEMMA ThreadSteps ==
  ASSUME AdcInv, 
         StartConv \/ GetSeqStatus \/ GetSeqFlag \/ ClearSeqFlag \/ ReadSample \/ LockData \/ SetDistance \/ IncVersion \/ UnlockData \/ RestartSequence \/ ThreadStop
  PROVE  AdcInv'
<1> USE DEF AdcInv, xadcVars, threadVars, readerVars, moduleVars
<1>1. CASE StartConv
  <2>1. AdcTypeOK'
    BY <1>1, MaxConvAssumption DEF StartConv, AdcTypeOK, Pair, Publishing, Resources,
       AtTop, Free, Thread
  <2>2. Locks'
    BY <1>1, ReadersAssumption DEF StartConv, Locks, Critical, AdcTypeOK, Pair,
       Publishing, AtTop, Free, Thread
  <2>3. Phases'
    BY <1>1 DEF StartConv, Phases, AdcTypeOK, Early, Middle, Loading, Gone, Locks,
       Critical, Triggers, AtTop, Zero, Free, Thread
  <2>4. Triggers'
    BY <1>1 DEF StartConv, Triggers, Phases, AdcTypeOK, Early, Middle, Loading, Gone,
       Publishing, AtTop, Zero, Free, Thread
  <2>5. Counts'
    BY <1>1, MaxConvAssumption DEF StartConv, Counts, Polling, Triggers, Phases,
       AdcTypeOK, Pair, Early, Middle, Loading, Gone, Publishing, AtTop, Zero, Free,
       Thread
  <2>6. Copies'
    BY <1>1 DEF StartConv, Copies, Counts, Locks, Critical, Phases, AdcTypeOK, Pair,
       Early, Middle, Loading, Gone, AtTop, Zero, Free, Thread
  <2>7. Holdings'
    BY <1>1 DEF StartConv, Holdings, Nodes, Phases, AdcTypeOK, Early, Middle, Loading,
       Gone, Resources, AtTop, Zero, Free, Thread
  <2>8. Accesses'
    BY <1>1 DEF StartConv, Accesses, Holdings, Nodes, Early, Middle, Loading, Gone
  <2> QED BY <2>1, <2>2, <2>3, <2>4, <2>5, <2>6, <2>7, <2>8
<1>2. CASE GetSeqStatus
  <2>1. AdcTypeOK'
    BY <1>2, MaxConvAssumption DEF GetSeqStatus, AdcTypeOK, Pair, Publishing, Resources,
       AtTop, Free, Thread
  <2>2. Locks'
    BY <1>2, ReadersAssumption DEF GetSeqStatus, Locks, Critical, AdcTypeOK, Pair,
       Publishing, AtTop, Free, Thread
  <2>3. Phases'
    BY <1>2 DEF GetSeqStatus, Phases, AdcTypeOK, Early, Middle, Loading, Gone, Locks,
       Critical, Triggers, AtTop, Zero, Free, Thread
  <2>4. Triggers'
    BY <1>2 DEF GetSeqStatus, Triggers, Phases, AdcTypeOK, Early, Middle, Loading, Gone,
       Publishing, AtTop, Zero, Free, Thread
  <2>5. Counts'
    BY <1>2, MaxConvAssumption DEF GetSeqStatus, Counts, Polling, Triggers, Phases,
       AdcTypeOK, Pair, Early, Middle, Loading, Gone, Publishing, AtTop, Zero, Free,
       Thread
  <2>6. Copies'
    BY <1>2 DEF GetSeqStatus, Copies, Counts, Locks, Critical, Phases, AdcTypeOK, Pair,
       Early, Middle, Loading, Gone, AtTop, Zero, Free, Thread
  <2>7. Holdings'
    BY <1>2 DEF GetSeqStatus, Holdings, Nodes, Phases, AdcTypeOK, Early, Middle,
       Loading, Gone, Resources, AtTop, Zero, Free, Thread
  <2>8. Accesses'
    BY <1>2 DEF GetSeqStatus, Accesses, Holdings, Nodes, Early, Middle, Loading, Gone
  <2> QED BY <2>1, <2>2, <2>3, <2>4, <2>5, <2>6, <2>7, <2>8
<1>3. CASE GetSeqFlag
  <2>1. AdcTypeOK'
    BY <1>3, MaxConvAssumption DEF GetSeqFlag, AdcTypeOK, Pair, Publishing, Resources,
       AtTop, Free, Thread
  <2>2. Locks'
    BY <1>3, ReadersAssumption DEF GetSeqFlag, Locks, Critical, AdcTypeOK, Pair,
       Publishing, AtTop, Free, Thread
  <2>3. Phases'
    BY <1>3 DEF GetSeqFlag, Phases, AdcTypeOK, Early, Middle, Loading, Gone, Locks,
       Critical, Triggers, AtTop, Zero, Free, Thread
  <2>4. Triggers'
    BY <1>3 DEF GetSeqFlag, Triggers, Phases, AdcTypeOK, Early, Middle, Loading, Gone,
       Publishing, AtTop, Zero, Free, Thread
  <2>5. Counts'
    BY <1>3, MaxConvAssumption DEF GetSeqFlag, Counts, Polling, Triggers, Phases,
       AdcTypeOK, Pair, Early, Middle, Loading, Gone, Publishing, AtTop, Zero, Free,
       Thread
  <2>6. Copies'
    BY <1>3 DEF GetSeqFlag, Copies, Counts, Locks, Critical, Phases, AdcTypeOK, Pair,
       Early, Middle, Loading, Gone, AtTop, Zero, Free, Thread
  <2>7. Holdings'
    BY <1>3 DEF GetSeqFlag, Holdings, Nodes, Phases, AdcTypeOK, Early, Middle, Loading,
       Gone, Resources, AtTop, Zero, Free, Thread
  <2>8. Accesses'
    BY <1>3 DEF GetSeqFlag, Accesses, Holdings, Nodes, Early, Middle, Loading, Gone
  <2> QED BY <2>1, <2>2, <2>3, <2>4, <2>5, <2>6, <2>7, <2>8
<1>4. CASE ClearSeqFlag
  <2>1. AdcTypeOK'
    <3>1. /\ tpc' = "sample" /\ intr' = FALSE
          /\ UNCHANGED <<adcState, rawData, data, lock, rpc, tmp, user, mpc, hpc, held, running,
                        conv, status, intrEn>>
      BY <1>4 DEF ClearSeqFlag
    <3> QED BY <3>1 DEF AdcTypeOK, Publishing
  <2>2. Locks'
    BY <1>4, ReadersAssumption DEF ClearSeqFlag, Locks, Critical, AdcTypeOK, Pair,
       Publishing, Free, Thread
  <2>3. Phases'
    BY <1>4 DEF ClearSeqFlag, Phases, AdcTypeOK, Early, Middle, Loading, Gone, Locks,
       Critical, Triggers, Zero, Free, Thread
  <2>4. Triggers'
    BY <1>4 DEF ClearSeqFlag, Triggers, Phases, AdcTypeOK, Early, Middle, Loading, Gone,
       Publishing, Zero, Free, Thread
  <2>5. Counts'
    BY <1>4, MaxConvAssumption DEF ClearSeqFlag, Counts, Polling, Triggers, Phases,
       AdcTypeOK, Pair, Early, Middle, Loading, Gone, Publishing, Zero, Free, Thread
  <2>6. Copies'
    BY <1>4 DEF ClearSeqFlag, Copies, Counts, Locks, Critical, Phases, AdcTypeOK, Pair,
       Early, Middle, Loading, Gone, Zero, Free, Thread
  <2>7. Holdings'
    BY <1>4 DEF ClearSeqFlag, Holdings, Nodes, Phases, AdcTypeOK, Early, Middle,
       Loading, Gone, Resources, Zero, Free, Thread
  <2>8. Accesses'
    BY <1>4 DEF ClearSeqFlag, Accesses, Holdings, Nodes, Early, Middle, Loading, Gone
  <2> QED BY <2>1, <2>2, <2>3, <2>4, <2>5, <2>6, <2>7, <2>8
<1>5. CASE ReadSample
  <2>1. AdcTypeOK'
    BY <1>5, MaxConvAssumption DEF ReadSample, AdcTypeOK, Pair, Publishing, Resources,
       Free, Thread
  <2>2. Locks'
    BY <1>5, ReadersAssumption DEF ReadSample, Locks, Critical, AdcTypeOK, Pair,
       Publishing, Free, Thread
  <2>3. Phases'
    BY <1>5 DEF ReadSample, Phases, AdcTypeOK, Early, Middle, Loading, Gone, Locks,
       Critical, Triggers, Zero, Free, Thread
  <2>4. Triggers'
    BY <1>5 DEF ReadSample, Triggers, Phases, AdcTypeOK, Early, Middle, Loading, Gone,
       Publishing, Zero, Free, Thread
  <2>5. Counts'
    BY <1>5, MaxConvAssumption DEF ReadSample, Counts, Polling, Triggers, Phases,
       AdcTypeOK, Pair, Early, Middle, Loading, Gone, Publishing, Zero, Free, Thread
  <2>6. Copies'
    BY <1>5 DEF ReadSample, Copies, Counts, Locks, Critical, Phases, AdcTypeOK, Pair,
       Early, Middle, Loading, Gone, Zero, Free, Thread
  <2>7. Holdings'
    BY <1>5 DEF ReadSample, Holdings, Nodes, Phases, AdcTypeOK, Early, Middle, Loading,
       Gone, Resources, Zero, Free, Thread
  <2>8. Accesses'
    BY <1>5 DEF ReadSample, Accesses, Holdings, Nodes, Early, Middle, Loading, Gone
  <2> QED BY <2>1, <2>2, <2>3, <2>4, <2>5, <2>6, <2>7, <2>8
<1>6. CASE LockData
  <2>1. AdcTypeOK'
    BY <1>6, MaxConvAssumption DEF LockData, AdcTypeOK, Pair, Publishing, Resources,
       Free, Thread
  <2>2. Locks'
    BY <1>6, ReadersAssumption DEF LockData, Locks, Critical, AdcTypeOK, Pair,
       Publishing, Free, Thread
  <2>3. Phases'
    BY <1>6 DEF LockData, Phases, AdcTypeOK, Early, Middle, Loading, Gone, Locks,
       Critical, Triggers, Zero, Free, Thread
  <2>4. Triggers'
    BY <1>6 DEF LockData, Triggers, Phases, AdcTypeOK, Early, Middle, Loading, Gone,
       Publishing, Zero, Free, Thread
  <2>5. Counts'
    BY <1>6, MaxConvAssumption DEF LockData, Counts, Polling, Triggers, Phases,
       AdcTypeOK, Pair, Early, Middle, Loading, Gone, Publishing, Zero, Free, Thread
  <2>6. Copies'
    BY <1>6 DEF LockData, Copies, Counts, Locks, Critical, Phases, AdcTypeOK, Pair,
       Early, Middle, Loading, Gone, Zero, Free, Thread
  <2>7. Holdings'
    BY <1>6 DEF LockData, Holdings, Nodes, Phases, AdcTypeOK, Early, Middle, Loading,
       Gone, Resources, Zero, Free, Thread
  <2>8. Accesses'
    BY <1>6 DEF LockData, Accesses, Holdings, Nodes, Early, Middle, Loading, Gone
  <2> QED BY <2>1, <2>2, <2>3, <2>4, <2>5, <2>6, <2>7, <2>8
<1>7. CASE SetDistance
  <2>1. AdcTypeOK'
    BY <1>7, MaxConvAssumption DEF SetDistance, AdcTypeOK, Pair, Publishing, Resources,
       Free, Thread
  <2>2. Locks'
    BY <1>7, ReadersAssumption DEF SetDistance, Locks, Critical, AdcTypeOK, Pair,
       Publishing, Free, Thread
  <2>3. Phases'
    BY <1>7 DEF SetDistance, Phases, AdcTypeOK, Early, Middle, Loading, Gone, Locks,
       Critical, Triggers, Zero, Free, Thread
  <2>4. Triggers'
    BY <1>7 DEF SetDistance, Triggers, Phases, AdcTypeOK, Early, Middle, Loading, Gone,
       Publishing, Zero, Free, Thread
  <2>5. Counts'
    BY <1>7, MaxConvAssumption DEF SetDistance, Counts, Polling, Triggers, Phases,
       AdcTypeOK, Pair, Early, Middle, Loading, Gone, Publishing, Zero, Free, Thread
  <2>6. Copies'
    <3>1. \A q \in Readers : rpc[q] \notin Critical
      BY <1>7, ReadersAssumption DEF SetDistance, Locks, Critical, Thread, AdcTypeOK
    <3>2. data'.version = data.version
      BY <1>7 DEF SetDistance
    <3> QED
      BY <1>7, <3>1, <3>2 DEF SetDistance, Copies, Critical
  <2>7. Holdings'
    BY <1>7 DEF SetDistance, Holdings, Nodes, Phases, AdcTypeOK, Early, Middle, Loading,
       Gone, Resources, Zero, Free, Thread
  <2>8. Accesses'
    BY <1>7 DEF SetDistance, Accesses, Holdings, Nodes, Early, Middle, Loading, Gone
  <2> QED BY <2>1, <2>2, <2>3, <2>4, <2>5, <2>6, <2>7, <2>8
<1>8. CASE IncVersion
  <2>1. AdcTypeOK'
    BY <1>8, MaxConvAssumption DEF IncVersion, AdcTypeOK, Counts, Pair, Publishing,
       Free, Thread
  <2>2. Locks'
    BY <1>8, ReadersAssumption DEF IncVersion, Locks, Critical, AdcTypeOK, Pair,
       Publishing, Free, Thread
  <2>3. Phases'
    BY <1>8 DEF IncVersion, Phases, AdcTypeOK, Early, Middle, Loading, Gone, Locks,
       Critical, Triggers, Zero, Free, Thread
  <2>4. Triggers'
    BY <1>8 DEF IncVersion, Triggers, Phases, AdcTypeOK, Early, Middle, Loading, Gone,
       Publishing, Zero, Free, Thread
  <2>5. Counts'
    BY <1>8, MaxConvAssumption DEF IncVersion, Counts, Polling, Triggers, Phases,
       AdcTypeOK, Pair, Early, Middle, Loading, Gone, Publishing, Zero, Free, Thread
  <2>6. Copies'
    BY <1>8 DEF IncVersion, Copies, Counts, Locks, Critical, Phases, AdcTypeOK, Pair,
       Early, Middle, Loading, Gone, Zero, Free, Thread
  <2>7. Holdings'
    BY <1>8 DEF IncVersion, Holdings, Nodes, Phases, AdcTypeOK, Early, Middle, Loading,
       Gone, Resources, Zero, Free, Thread
  <2>8. Accesses'
    BY <1>8 DEF IncVersion, Accesses, Holdings, Nodes, Early, Middle, Loading, Gone
  <2> QED BY <2>1, <2>2, <2>3, <2>4, <2>5, <2>6, <2>7, <2>8
<1>9. CASE UnlockData
  <2>1. AdcTypeOK'
    BY <1>9, MaxConvAssumption DEF UnlockData, AdcTypeOK, Pair, Publishing, Resources,
       Free, Thread
  <2>2. Locks'
    BY <1>9, ReadersAssumption DEF UnlockData, Locks, Critical, AdcTypeOK, Pair,
       Publishing, Free, Thread
  <2>3. Phases'
    BY <1>9 DEF UnlockData, Phases, AdcTypeOK, Early, Middle, Loading, Gone, Locks,
       Critical, Triggers, Zero, Free, Thread
  <2>4. Triggers'
    BY <1>9 DEF UnlockData, Triggers, Phases, AdcTypeOK, Early, Middle, Loading, Gone,
       Publishing, Zero, Free, Thread
  <2>5. Counts'
    BY <1>9, MaxConvAssumption DEF UnlockData, Counts, Polling, Triggers, Phases,
       AdcTypeOK, Pair, Early, Middle, Loading, Gone, Publishing, Zero, Free, Thread
  <2>6. Copies'
    BY <1>9 DEF UnlockData, Copies, Counts, Locks, Critical, Phases, AdcTypeOK, Pair,
       Early, Middle, Loading, Gone, Zero, Free, Thread
  <2>7. Holdings'
    BY <1>9 DEF UnlockData, Holdings, Nodes, Phases, AdcTypeOK, Early, Middle, Loading,
       Gone, Resources, Zero, Free, Thread
  <2>8. Accesses'
    BY <1>9 DEF UnlockData, Accesses, Holdings, Nodes, Early, Middle, Loading, Gone
  <2> QED BY <2>1, <2>2, <2>3, <2>4, <2>5, <2>6, <2>7, <2>8
<1>10. CASE RestartSequence
  <2>1. AdcTypeOK'
    BY <1>10, MaxConvAssumption DEF RestartSequence, AdcTypeOK, Pair, Publishing,
       Resources, Free, Thread
  <2>2. Locks'
    BY <1>10, ReadersAssumption DEF RestartSequence, Locks, Critical, AdcTypeOK, Pair,
       Publishing, Free, Thread
  <2>3. Phases'
    BY <1>10 DEF RestartSequence, Phases, AdcTypeOK, Early, Middle, Loading, Gone,
       Locks, Critical, Triggers, Zero, Free, Thread
  <2>4. Triggers'
    BY <1>10 DEF RestartSequence, Triggers, Phases, AdcTypeOK, Early, Middle, Loading,
       Gone, Publishing, Zero, Free, Thread
  <2>5. Counts'
    BY <1>10, MaxConvAssumption DEF RestartSequence, Counts, Polling, Triggers, Phases,
       AdcTypeOK, Pair, Early, Middle, Loading, Gone, Publishing, Zero, Free, Thread
  <2>6. Copies'
    BY <1>10 DEF RestartSequence, Copies, Counts, Locks, Critical, Phases, AdcTypeOK,
       Pair, Early, Middle, Loading, Gone, Zero, Free, Thread
  <2>7. Holdings'
    BY <1>10 DEF RestartSequence, Holdings, Nodes, Phases, AdcTypeOK, Early, Middle,
       Loading, Gone, Resources, Zero, Free, Thread
  <2>8. Accesses'
    BY <1>10 DEF RestartSequence, Accesses, Holdings, Nodes, Early, Middle, Loading, Gone
  <2> QED BY <2>1, <2>2, <2>3, <2>4, <2>5, <2>6, <2>7, <2>8
<1>11. CASE ThreadStop
  <2>1. AdcTypeOK'
    BY <1>11, MaxConvAssumption DEF ThreadStop, AdcTypeOK, Pair, Publishing, Resources,
       Free, Thread
  <2>2. Locks'
    BY <1>11, ReadersAssumption DEF ThreadStop, Locks, Critical, AdcTypeOK, Pair,
       Publishing, Free, Thread
  <2>3. Phases'
    BY <1>11 DEF ThreadStop, Phases, AdcTypeOK, Early, Middle, Loading, Gone, Locks,
       Critical, Triggers, Zero, Free, Thread
  <2>4. Triggers'
    BY <1>11 DEF ThreadStop, Triggers, Phases, AdcTypeOK, Early, Middle, Loading, Gone,
       Publishing, Zero, Free, Thread
  <2>5. Counts'
    BY <1>11, MaxConvAssumption DEF ThreadStop, Counts, Polling, Triggers, Phases,
       AdcTypeOK, Pair, Early, Middle, Loading, Gone, Publishing, Zero, Free, Thread
  <2>6. Copies'
    BY <1>11 DEF ThreadStop, Copies, Counts, Locks, Critical, Phases, AdcTypeOK, Pair,
       Early, Middle, Loading, Gone, Zero, Free, Thread
  <2>7. Holdings'
    BY <1>11 DEF ThreadStop, Holdings, Nodes, Phases, AdcTypeOK, Early, Middle, Loading,
       Gone, Resources, Zero, Free, Thread
  <2>8. Accesses'
    BY <1>11 DEF ThreadStop, Accesses, Holdings, Nodes, Early, Middle, Loading, Gone
  <2> QED BY <2>1, <2>2, <2>3, <2>4, <2>5, <2>6, <2>7, <2>8
<1> QED BY <1>1, <1>2, <1>3, <1>4, <1>5, <1>6, <1>7, <1>8, <1>9, <1>10, <1>11

(* Every step of adcSonar_read preserves the invariant.                    *)
LEMMA ReadSteps ==
  ASSUME AdcInv, NEW r \in Readers,
         Open(r) \/ Close(r) \/ ReadLock(r) \/ CopyDistance(r) \/ CopyVersion(r) \/ ReadUnlock(r) \/ CopyToUser(r)
  PROVE  AdcInv'
<1> USE DEF AdcInv, xadcVars, threadVars, readerVars, moduleVars
<1>1. CASE ReadLock(r)
  <2>1. AdcTypeOK'
    BY <1>1, MaxConvAssumption DEF ReadLock, AdcTypeOK, Pair, Publishing, Resources,
       Free, Thread
  <2>2. Locks'
    BY <1>1, ReadersAssumption DEF ReadLock, Locks, Critical, AdcTypeOK, Pair,
       Publishing, Free, Thread
  <2>3. Phases'
    BY <1>1 DEF ReadLock, Phases, AdcTypeOK, Early, Middle, Loading, Gone, Locks,
       Critical, Triggers, Zero, Free, Thread
  <2>4. Triggers'
    BY <1>1 DEF ReadLock, Triggers, Phases, AdcTypeOK, Early, Middle, Loading, Gone,
       Publishing, Zero, Free, Thread
  <2>5. Counts'
    BY <1>1, MaxConvAssumption DEF ReadLock, Counts, Polling, Triggers, Phases,
       AdcTypeOK, Pair, Early, Middle, Loading, Gone, Publishing, Zero, Free, Thread
  <2>6. Copies'
    BY <1>1 DEF ReadLock, Copies, Counts, Locks, Critical, Phases, AdcTypeOK, Pair,
       Early, Middle, Loading, Gone, Zero, Free, Thread
  <2>7. Holdings'
    BY <1>1 DEF ReadLock, Holdings, Nodes, Phases, AdcTypeOK, Early, Middle, Loading,
       Gone, Resources, Zero, Free, Thread
  <2>8. Accesses'
    BY <1>1 DEF ReadLock, Accesses, Holdings, Nodes, Early, Middle, Loading, Gone
  <2> QED BY <2>1, <2>2, <2>3, <2>4, <2>5, <2>6, <2>7, <2>8
<1>2. CASE CopyDistance(r)
  <2>1. AdcTypeOK'
    BY <1>2, MaxConvAssumption DEF CopyDistance, AdcTypeOK, Pair, Publishing, Resources,
       Free, Thread
  <2>2. Locks'
    BY <1>2, ReadersAssumption DEF CopyDistance, Locks, Critical, AdcTypeOK, Pair,
       Publishing, Free, Thread
  <2>3. Phases'
    BY <1>2 DEF CopyDistance, Phases, AdcTypeOK, Early, Middle, Loading, Gone, Locks,
       Critical, Triggers, Zero, Free, Thread
  <2>4. Triggers'
    BY <1>2 DEF CopyDistance, Triggers, Phases, AdcTypeOK, Early, Middle, Loading, Gone,
       Publishing, Zero, Free, Thread
  <2>5. Counts'
    BY <1>2, MaxConvAssumption DEF CopyDistance, Counts, Polling, Triggers, Phases,
       AdcTypeOK, Pair, Early, Middle, Loading, Gone, Publishing, Zero, Free, Thread
  <2>6. Copies'
    BY <1>2 DEF CopyDistance, Copies, Counts, Locks, Critical, Phases, AdcTypeOK, Pair,
       Early, Middle, Loading, Gone, Zero, Free, Thread
  <2>7. Holdings'
    BY <1>2 DEF CopyDistance, Holdings, Nodes, Phases, AdcTypeOK, Early, Middle,
       Loading, Gone, Resources, Zero, Free, Thread
  <2>8. Accesses'
    BY <1>2 DEF CopyDistance, Accesses, Holdings, Nodes, Early, Middle, Loading, Gone
  <2> QED BY <2>1, <2>2, <2>3, <2>4, <2>5, <2>6, <2>7, <2>8
<1>3. CASE CopyVersion(r)
  <2>1. AdcTypeOK'
    BY <1>3, MaxConvAssumption DEF CopyVersion, AdcTypeOK, Pair, Publishing, Resources,
       Free, Thread
  <2>2. Locks'
    BY <1>3, ReadersAssumption DEF CopyVersion, Locks, Critical, AdcTypeOK, Pair,
       Publishing, Free, Thread
  <2>3. Phases'
    BY <1>3 DEF CopyVersion, Phases, AdcTypeOK, Early, Middle, Loading, Gone, Locks,
       Critical, Triggers, Zero, Free, Thread
  <2>4. Triggers'
    BY <1>3 DEF CopyVersion, Triggers, Phases, AdcTypeOK, Early, Middle, Loading, Gone,
       Publishing, Zero, Free, Thread
  <2>5. Counts'
    BY <1>3, MaxConvAssumption DEF CopyVersion, Counts, Polling, Triggers, Phases,
       AdcTypeOK, Pair, Early, Middle, Loading, Gone, Publishing, Zero, Free, Thread
  <2>6. Copies'
    <3>1. lock = r /\ tpc # "version"
      BY <1>3, ReadersAssumption DEF CopyVersion, Locks, Critical, Thread, AdcTypeOK
    <3>2. tmp' = [tmp EXCEPT ![r] = [distance |-> data.distance, version |-> data.version]]
      BY <1>3 DEF CopyVersion, Copies
    <3>3. data.distance = data.version /\ data.version \in Nat
      BY <3>1 DEF Counts, AdcTypeOK, Pair
    <3>4. ASSUME NEW q \in Readers, q # r
          PROVE  tmp'[q] = tmp[q] /\ rpc'[q] = rpc[q] /\ user'[q] = user[q]
      BY <1>3, <3>4 DEF CopyVersion, AdcTypeOK
    <3>5. tmp'[r].distance = data.version /\ tmp'[r].version = data.version /\ rpc'[r] = "unlock"
      BY <1>3, <3>2, <3>3 DEF CopyVersion, AdcTypeOK
    <3>6. data' = data /\ user' = user /\ mpc' = mpc
      BY <1>3 DEF CopyVersion
    <3>7. mpc # "unloaded"
      BY <1>3 DEF CopyVersion, Phases, Holdings
    <3> QED
      BY <3>3, <3>4, <3>5, <3>6, <3>7 DEF Copies
  <2>7. Holdings'
    BY <1>3 DEF CopyVersion, Holdings, Nodes, Phases, AdcTypeOK, Early, Middle, Loading,
       Gone, Resources, Zero, Free, Thread
  <2>8. Accesses'
    BY <1>3 DEF CopyVersion, Accesses, Holdings, Nodes, Early, Middle, Loading, Gone
  <2> QED BY <2>1, <2>2, <2>3, <2>4, <2>5, <2>6, <2>7, <2>8
<1>4. CASE ReadUnlock(r)
  <2>1. AdcTypeOK'
    BY <1>4, MaxConvAssumption DEF ReadUnlock, AdcTypeOK, Pair, Publishing, Resources,
       Free, Thread
  <2>2. Locks'
    BY <1>4, ReadersAssumption DEF ReadUnlock, Locks, Critical, AdcTypeOK, Pair,
       Publishing, Free, Thread
  <2>3. Phases'
    BY <1>4 DEF ReadUnlock, Phases, AdcTypeOK, Early, Middle, Loading, Gone, Locks,
       Critical, Triggers, Zero, Free, Thread
  <2>4. Triggers'
    BY <1>4 DEF ReadUnlock, Triggers, Phases, AdcTypeOK, Early, Middle, Loading, Gone,
       Publishing, Zero, Free, Thread
  <2>5. Counts'
    BY <1>4, MaxConvAssumption DEF ReadUnlock, Counts, Polling, Triggers, Phases,
       AdcTypeOK, Pair, Early, Middle, Loading, Gone, Publishing, Zero, Free, Thread
  <2>6. Copies'
    BY <1>4 DEF ReadUnlock, Copies, Counts, Locks, Critical, Phases, AdcTypeOK, Pair,
       Early, Middle, Loading, Gone, Zero, Free, Thread
  <2>7. Holdings'
    BY <1>4 DEF ReadUnlock, Holdings, Nodes, Phases, AdcTypeOK, Early, Middle, Loading,
       Gone, Resources, Zero, Free, Thread
  <2>8. Accesses'
    BY <1>4 DEF ReadUnlock, Accesses, Holdings, Nodes, Early, Middle, Loading, Gone
  <2> QED BY <2>1, <2>2, <2>3, <2>4, <2>5, <2>6, <2>7, <2>8
<1>5. CASE CopyToUser(r)
  <2>1. AdcTypeOK'
    BY <1>5 DEF CopyToUser, AdcTypeOK, Free, Thread
  <2>2. Locks'
    BY <1>5, ReadersAssumption DEF CopyToUser, Locks, Critical, AdcTypeOK, Pair,
       Publishing, Free, Thread
  <2>3. Phases'
    BY <1>5 DEF CopyToUser, Phases, AdcTypeOK, Early, Middle, Loading, Gone, Locks,
       Critical, Triggers, Zero, Free, Thread
  <2>4. Triggers'
    BY <1>5 DEF CopyToUser, Triggers, Phases, AdcTypeOK, Early, Middle, Loading, Gone,
       Publishing, Zero, Free, Thread
  <2>5. Counts'
    BY <1>5, MaxConvAssumption DEF CopyToUser, Counts, Polling, Triggers, Phases,
       AdcTypeOK, Pair, Early, Middle, Loading, Gone, Publishing, Zero, Free, Thread
  <2>6. Copies'
    BY <1>5 DEF CopyToUser, Copies, Counts, Locks, Critical, Phases, AdcTypeOK, Pair,
       Early, Middle, Loading, Gone, Zero, Free, Thread
  <2>7. Holdings'
    BY <1>5 DEF CopyToUser, Holdings, Nodes, Phases, AdcTypeOK, Early, Middle, Loading,
       Gone, Resources, Zero, Free, Thread
  <2>8. Accesses'
    BY <1>5 DEF CopyToUser, Accesses, Holdings, Nodes, Early, Middle, Loading, Gone
  <2> QED BY <2>1, <2>2, <2>3, <2>4, <2>5, <2>6, <2>7, <2>8
<1>6. CASE Open(r)
  <2>1. AdcTypeOK'
    BY <1>6, MaxConvAssumption DEF Open, AdcTypeOK, Pair, Publishing, Resources,
       Free, Thread
  <2>2. Locks'
    BY <1>6, ReadersAssumption DEF Open, Locks, Critical, AdcTypeOK, Pair,
       Publishing, Free, Thread
  <2>3. Phases'
    BY <1>6 DEF Open, Phases, AdcTypeOK, Early, Middle, Loading, Gone, Locks,
       Critical, Triggers, Zero, Free, Thread
  <2>4. Triggers'
    BY <1>6 DEF Open, Triggers, Phases, AdcTypeOK, Early, Middle, Loading, Gone,
       Publishing, Zero, Free, Thread
  <2>5. Counts'
    BY <1>6, MaxConvAssumption DEF Open, Counts, Polling, Triggers, Phases,
       AdcTypeOK, Pair, Early, Middle, Loading, Gone, Publishing, Zero, Free, Thread
  <2>6. Copies'
    BY <1>6 DEF Open, Copies, Counts, Locks, Critical, Phases, AdcTypeOK, Pair,
       Early, Middle, Loading, Gone, Zero, Free, Thread
  <2>7. Holdings'
    BY <1>6 DEF Open, Holdings, Nodes, Phases, AdcTypeOK, Early, Middle, Loading,
       Gone, Resources, Zero, Free, Thread
  <2>8. Accesses'
    BY <1>6 DEF Open, Accesses, Holdings, Nodes, Early, Middle, Loading, Gone
  <2> QED BY <2>1, <2>2, <2>3, <2>4, <2>5, <2>6, <2>7, <2>8
<1>7. CASE Close(r)
  <2>1. AdcTypeOK'
    BY <1>7, MaxConvAssumption DEF Close, AdcTypeOK, Pair, Publishing, Resources,
       Free, Thread
  <2>2. Locks'
    BY <1>7, ReadersAssumption DEF Close, Locks, Critical, AdcTypeOK, Pair,
       Publishing, Free, Thread
  <2>3. Phases'
    BY <1>7 DEF Close, Phases, AdcTypeOK, Early, Middle, Loading, Gone, Locks,
       Critical, Triggers, Zero, Free, Thread
  <2>4. Triggers'
    BY <1>7 DEF Close, Triggers, Phases, AdcTypeOK, Early, Middle, Loading, Gone,
       Publishing, Zero, Free, Thread
  <2>5. Counts'
    BY <1>7, MaxConvAssumption DEF Close, Counts, Polling, Triggers, Phases,
       AdcTypeOK, Pair, Early, Middle, Loading, Gone, Publishing, Zero, Free, Thread
  <2>6. Copies'
    BY <1>7 DEF Close, Copies, Counts, Locks, Critical, Phases, AdcTypeOK, Pair,
       Early, Middle, Loading, Gone, Zero, Free, Thread
  <2>7. Holdings'
    BY <1>7 DEF Close, Holdings, Nodes, Phases, AdcTypeOK, Early, Middle, Loading,
       Gone, Resources, Zero, Free, Thread
  <2>8. Accesses'
    BY <1>7 DEF Close, Accesses, Holdings, Nodes, Early, Middle, Loading, Gone
  <2> QED BY <2>1, <2>2, <2>3, <2>4, <2>5, <2>6, <2>7, <2>8
<1> QED BY <1>1, <1>2, <1>3, <1>4, <1>5, <1>6, <1>7

(* Every step of adcsonar_init preserves the invariant.                    *)
LEMMA InitSteps ==
  ASSUME AdcInv, 
         RegisterChrdev \/ CreateNode("class", "device") \/ CreateNode("device", "params") \/ ParamsInit \/ Ioremap \/ GetIrq("irqId", "irq") \/ GetIrq("irq", "configure") \/ Configure \/ StartThread
  PROVE  AdcInv'
<1> USE DEF AdcInv, xadcVars, threadVars, readerVars, moduleVars
<1>1. CASE RegisterChrdev
  <2>1. AdcTypeOK'
    BY <1>1, MaxConvAssumption DEF RegisterChrdev, AdcTypeOK, Pair, Publishing,
       Resources, Zero, Free, Thread
  <2>2. \A r \in Readers : rpc'[r] \in {"closed", "lost"}
    BY <1>1 DEF RegisterChrdev, Holdings, Phases
  <2>3. /\ tpc' = "none" /\ lock' = Free /\ mpc' = "class" /\ held' = {"chrdev"} /\ data' = Zero
        /\ user' = [r \in Readers |-> Zero] /\ conv' = 0 /\ tmp' = tmp /\ intrEn' = intrEn
        /\ UNCHANGED <<running, status, intr>>
    BY <1>1 DEF RegisterChrdev
  <2>4. Locks'
    BY <2>2, <2>3, ReadersAssumption DEF Locks, Critical, Free, Thread
  <2>5. Phases'
    <3>1. ~running /\ ~status /\ ~intr
      BY <1>1 DEF RegisterChrdev, Phases, Gone
    <3> QED BY <2>2, <2>3, <3>1 DEF Phases, Early, Middle, Loading, Gone
  <2>6. Triggers'
    BY <1>1 DEF RegisterChrdev, Triggers, Phases, AdcTypeOK, Early, Middle, Loading,
       Gone, Publishing, Zero, Free, Thread
  <2>7. Counts'
    BY <1>1, MaxConvAssumption DEF RegisterChrdev, Counts, Polling, Triggers, Phases,
       AdcTypeOK, Pair, Early, Middle, Loading, Gone, Publishing, Zero, Free, Thread
  <2>8. Copies'
    BY <2>2, <2>3 DEF Copies, Zero
  <2>9. Holdings'
    BY <1>1 DEF RegisterChrdev, Holdings, Nodes, Phases, AdcTypeOK, Early, Middle,
       Loading, Gone, Resources, Zero, Free, Thread
  <2>10. Accesses'
    BY <1>1 DEF RegisterChrdev, Accesses, Holdings, Nodes, Early, Middle, Loading, Gone
  <2> QED BY <2>1, <2>4, <2>5, <2>6, <2>7, <2>8, <2>9, <2>10
<1>2. CASE CreateNode("class", "device")
  <2>1. AdcTypeOK'
    <3>1. /\ mpc' \in {"device", "failed"} /\ held' \in {held, held \cup {"class"}}
          /\ UNCHANGED <<adcState, tpc, rawData, data, lock, rpc, tmp, user, hpc, running, conv,
                        status, intr, intrEn>>
      BY <1>2 DEF CreateNode
    <3>2. held' \subseteq Resources
      BY <3>1 DEF AdcTypeOK, Resources
    <3> QED BY <3>1, <3>2 DEF AdcTypeOK
  <2>2. Locks'
    BY <1>2, ReadersAssumption DEF CreateNode, Locks, Critical, AdcTypeOK, Pair,
       Publishing, Free, Thread
  <2>3. Phases'
    BY <1>2 DEF CreateNode, Phases, AdcTypeOK, Early, Middle, Loading, Gone, Locks,
       Critical, Triggers, Zero, Free, Thread
  <2>4. Triggers'
    BY <1>2 DEF CreateNode, Triggers, Phases, AdcTypeOK, Early, Middle, Loading, Gone,
       Publishing, Zero, Free, Thread
  <2>5. Counts'
    BY <1>2, MaxConvAssumption DEF CreateNode, Counts, Polling, Triggers, Phases,
       AdcTypeOK, Pair, Early, Middle, Loading, Gone, Publishing, Zero, Free, Thread
  <2>6. Copies'
    BY <1>2 DEF CreateNode, Copies, Counts, Locks, Critical, Phases, AdcTypeOK, Pair,
       Early, Middle, Loading, Gone, Zero, Free, Thread
  <2>7. Holdings'
    BY <1>2 DEF CreateNode, Holdings, Nodes, Phases, AdcTypeOK, Early, Middle, Loading,
       Gone, Resources, Zero, Free, Thread
  <2>8. Accesses'
    BY <1>2 DEF CreateNode, Accesses, Holdings, Nodes, Early, Middle, Loading, Gone
  <2> QED BY <2>1, <2>2, <2>3, <2>4, <2>5, <2>6, <2>7, <2>8
<1>3. CASE CreateNode("device", "params")
  <2>1. AdcTypeOK'
    <3>1. /\ mpc' \in {"params", "failed"} /\ held' \in {held, held \cup {"device"}}
          /\ UNCHANGED <<adcState, tpc, rawData, data, lock, rpc, tmp, user, hpc, running, conv,
                        status, intr, intrEn>>
      BY <1>3 DEF CreateNode
    <3>2. held' \subseteq Resources
      BY <3>1 DEF AdcTypeOK, Resources
    <3> QED BY <3>1, <3>2 DEF AdcTypeOK
  <2>2. Locks'
    BY <1>3, ReadersAssumption DEF CreateNode, Locks, Critical, AdcTypeOK, Pair,
       Publishing, Free, Thread
  <2>3. Phases'
    BY <1>3 DEF CreateNode, Phases, AdcTypeOK, Early, Middle, Loading, Gone, Locks,
       Critical, Triggers, Zero, Free, Thread
  <2>4. Triggers'
    BY <1>3 DEF CreateNode, Triggers, Phases, AdcTypeOK, Early, Middle, Loading, Gone,
       Publishing, Zero, Free, Thread
  <2>5. Counts'
    BY <1>3, MaxConvAssumption DEF CreateNode, Counts, Polling, Triggers, Phases,
       AdcTypeOK, Pair, Early, Middle, Loading, Gone, Publishing, Zero, Free, Thread
  <2>6. Copies'
    BY <1>3 DEF CreateNode, Copies, Counts, Locks, Critical, Phases, AdcTypeOK, Pair,
       Early, Middle, Loading, Gone, Zero, Free, Thread
  <2>7. Holdings'
    BY <1>3 DEF CreateNode, Holdings, Nodes, Phases, AdcTypeOK, Early, Middle, Loading,
       Gone, Resources, Zero, Free, Thread
  <2>8. Accesses'
    BY <1>3 DEF CreateNode, Accesses, Holdings, Nodes, Early, Middle, Loading, Gone
  <2> QED BY <2>1, <2>2, <2>3, <2>4, <2>5, <2>6, <2>7, <2>8
<1>4. CASE ParamsInit
  <2>1. AdcTypeOK'
    BY <1>4, MaxConvAssumption DEF ParamsInit, AdcTypeOK, Pair, Publishing, Resources,
       Zero, Free, Thread
  <2>2. Locks'
    BY <1>4, ReadersAssumption DEF ParamsInit, Locks, Critical, AdcTypeOK, Pair,
       Publishing, Zero, Free, Thread
  <2>3. Phases'
    BY <1>4 DEF ParamsInit, Phases, AdcTypeOK, Early, Middle, Loading, Gone, Locks,
       Critical, Triggers, Zero, Free, Thread
  <2>4. Triggers'
    BY <1>4 DEF ParamsInit, Triggers, Phases, AdcTypeOK, Early, Middle, Loading, Gone,
       Publishing, Zero, Free, Thread
  <2>5. Counts'
    BY <1>4, MaxConvAssumption DEF ParamsInit, Counts, Polling, Triggers, Phases,
       AdcTypeOK, Pair, Early, Middle, Loading, Gone, Publishing, Zero, Free, Thread
  <2>6. Copies'
    BY <1>4 DEF ParamsInit, Copies, Counts, Locks, Critical, Phases, AdcTypeOK, Pair,
       Early, Middle, Loading, Gone, Zero, Free, Thread
  <2>7. Holdings'
    BY <1>4 DEF ParamsInit, Holdings, Nodes, Phases, AdcTypeOK, Early, Middle, Loading,
       Gone, Resources, Zero, Free, Thread
  <2>8. Accesses'
    BY <1>4 DEF ParamsInit, Accesses, Holdings, Nodes, Early, Middle, Loading, Gone
  <2> QED BY <2>1, <2>2, <2>3, <2>4, <2>5, <2>6, <2>7, <2>8
<1>5. CASE Ioremap
  <2>1. AdcTypeOK'
    <3>1. /\ mpc' \in {"irqId", "live"} /\ held' \in {held, held \cup {"mapping"}}
          /\ UNCHANGED <<adcState, tpc, rawData, data, lock, rpc, tmp, user, hpc, conv, intrEn>>
      BY <1>5 DEF Ioremap
    <3>2. held' \subseteq Resources
      BY <3>1 DEF AdcTypeOK, Resources
    <3>3. running' \in BOOLEAN /\ status' \in BOOLEAN /\ intr' \in BOOLEAN
      BY <1>5 DEF Ioremap, AdcTypeOK
    <3> QED BY <3>1, <3>2, <3>3 DEF AdcTypeOK
  <2>2. Locks'
    BY <1>5, ReadersAssumption DEF Ioremap, Locks, Critical, AdcTypeOK, Pair,
       Publishing, Free, Thread
  <2>3. Phases'
    BY <1>5 DEF Ioremap, Phases, AdcTypeOK, Early, Middle, Loading, Gone, Locks,
       Critical, Triggers, Zero, Free, Thread
  <2>4. Triggers'
    BY <1>5 DEF Ioremap, Triggers, Phases, AdcTypeOK, Early, Middle, Loading, Gone,
       Publishing, Zero, Free, Thread
  <2>5. Counts'
    BY <1>5, MaxConvAssumption DEF Ioremap, Counts, Polling, Triggers, Phases,
       AdcTypeOK, Pair, Early, Middle, Loading, Gone, Publishing, Zero, Free, Thread
  <2>6. Copies'
    BY <1>5 DEF Ioremap, Copies, Counts, Locks, Critical, Phases, AdcTypeOK, Pair,
       Early, Middle, Loading, Gone, Zero, Free, Thread
  <2>7. Holdings'
    BY <1>5 DEF Ioremap, Holdings, Nodes, Phases, AdcTypeOK, Early, Middle, Loading,
       Gone, Resources, Zero, Free, Thread
  <2>8. Accesses'
    BY <1>5 DEF Ioremap, Accesses, Holdings, Nodes, Early, Middle, Loading, Gone
  <2> QED BY <2>1, <2>2, <2>3, <2>4, <2>5, <2>6, <2>7, <2>8
<1>6. CASE GetIrq("irqId", "irq")
  <2>1. AdcTypeOK'
    <3>1. /\ mpc' \in {"irq", "thread"} /\ held' \in {held, held \cup {"irqId"}}
          /\ UNCHANGED <<adcState, tpc, rawData, data, lock, rpc, tmp, user, hpc, running, conv,
                        status, intr, intrEn>>
      BY <1>6 DEF GetIrq
    <3>2. held' \subseteq Resources
      BY <3>1 DEF AdcTypeOK, Resources
    <3> QED BY <3>1, <3>2 DEF AdcTypeOK
  <2>2. Locks'
    BY <1>6, ReadersAssumption DEF GetIrq, Locks, Critical, AdcTypeOK, Pair, Publishing,
       Free, Thread
  <2>3. Phases'
    BY <1>6 DEF GetIrq, Phases, AdcTypeOK, Early, Middle, Loading, Gone, Locks,
       Critical, Triggers, Zero, Free, Thread
  <2>4. Triggers'
    BY <1>6 DEF GetIrq, Triggers, Phases, AdcTypeOK, Early, Middle, Loading, Gone,
       Publishing, Zero, Free, Thread
  <2>5. Counts'
    BY <1>6, MaxConvAssumption DEF GetIrq, Counts, Polling, Triggers, Phases, AdcTypeOK,
       Pair, Early, Middle, Loading, Gone, Publishing, Zero, Free, Thread
  <2>6. Copies'
    BY <1>6 DEF GetIrq, Copies, Counts, Locks, Critical, Phases, AdcTypeOK, Pair, Early,
       Middle, Loading, Gone, Zero, Free, Thread
  <2>7. Holdings'
    BY <1>6 DEF GetIrq, Holdings, Nodes, Phases, AdcTypeOK, Early, Middle, Loading,
       Gone, Resources, Zero, Free, Thread
  <2>8. Accesses'
    BY <1>6 DEF GetIrq, Accesses, Holdings, Nodes, Early, Middle, Loading, Gone
  <2> QED BY <2>1, <2>2, <2>3, <2>4, <2>5, <2>6, <2>7, <2>8
<1>7. CASE GetIrq("irq", "configure")
  <2>1. AdcTypeOK'
    <3>1. /\ mpc' \in {"configure", "thread"} /\ held' \in {held, held \cup {"irq"}}
          /\ UNCHANGED <<adcState, tpc, rawData, data, lock, rpc, tmp, user, hpc, running, conv,
                        status, intr, intrEn>>
      BY <1>7 DEF GetIrq
    <3>2. held' \subseteq Resources
      BY <3>1 DEF AdcTypeOK, Resources
    <3> QED BY <3>1, <3>2 DEF AdcTypeOK
  <2>2. Locks'
    BY <1>7, ReadersAssumption DEF GetIrq, Locks, Critical, AdcTypeOK, Pair, Publishing,
       Free, Thread
  <2>3. Phases'
    BY <1>7 DEF GetIrq, Phases, AdcTypeOK, Early, Middle, Loading, Gone, Locks,
       Critical, Triggers, Zero, Free, Thread
  <2>4. Triggers'
    BY <1>7 DEF GetIrq, Triggers, Phases, AdcTypeOK, Early, Middle, Loading, Gone,
       Publishing, Zero, Free, Thread
  <2>5. Counts'
    BY <1>7, MaxConvAssumption DEF GetIrq, Counts, Polling, Triggers, Phases, AdcTypeOK,
       Pair, Early, Middle, Loading, Gone, Publishing, Zero, Free, Thread
  <2>6. Copies'
    BY <1>7 DEF GetIrq, Copies, Counts, Locks, Critical, Phases, AdcTypeOK, Pair, Early,
       Middle, Loading, Gone, Zero, Free, Thread
  <2>7. Holdings'
    BY <1>7 DEF GetIrq, Holdings, Nodes, Phases, AdcTypeOK, Early, Middle, Loading,
       Gone, Resources, Zero, Free, Thread
  <2>8. Accesses'
    BY <1>7 DEF GetIrq, Accesses, Holdings, Nodes, Early, Middle, Loading, Gone
  <2> QED BY <2>1, <2>2, <2>3, <2>4, <2>5, <2>6, <2>7, <2>8
<1>8. CASE Configure
  <2>1. AdcTypeOK'
    BY <1>8, MaxConvAssumption DEF Configure, AdcTypeOK, Pair, Publishing, Resources,
       Free, Thread
  <2>2. Locks'
    BY <1>8, ReadersAssumption DEF Configure, Locks, Critical, AdcTypeOK, Pair,
       Publishing, Free, Thread
  <2>3. Phases'
    BY <1>8 DEF Configure, Phases, AdcTypeOK, Early, Middle, Loading, Gone, Locks,
       Critical, Triggers, Zero, Free, Thread
  <2>4. Triggers'
    BY <1>8 DEF Configure, Triggers, Phases, AdcTypeOK, Early, Middle, Loading, Gone,
       Publishing, Zero, Free, Thread
  <2>5. Counts'
    BY <1>8, MaxConvAssumption DEF Configure, Counts, Polling, Triggers, Phases,
       AdcTypeOK, Pair, Early, Middle, Loading, Gone, Publishing, Zero, Free, Thread
  <2>6. Copies'
    BY <1>8 DEF Configure, Copies, Counts, Locks, Critical, Phases, AdcTypeOK, Pair,
       Early, Middle, Loading, Gone, Zero, Free, Thread
  <2>7. Holdings'
    BY <1>8 DEF Configure, Holdings, Nodes, Phases, AdcTypeOK, Early, Middle, Loading,
       Gone, Resources, Zero, Free, Thread
  <2>8. Accesses'
    BY <1>8 DEF Configure, Accesses, Holdings, Nodes, Early, Middle, Loading, Gone
  <2> QED BY <2>1, <2>2, <2>3, <2>4, <2>5, <2>6, <2>7, <2>8
<1>9. CASE StartThread
  <2>1. AdcTypeOK'
    <3>1. /\ mpc' = "live" /\ tpc' \in {"top", tpc}
          /\ held' \in {held \cup {"thread"}, held \cup {"errptr"}}
          /\ UNCHANGED <<adcState, rawData, data, lock, rpc, tmp, user, hpc, running, conv,
                        status, intr, intrEn>>
      BY <1>9 DEF StartThread
    <3>2. held' \subseteq Resources
      BY <3>1 DEF AdcTypeOK, Resources
    <3> QED BY <3>1, <3>2 DEF AdcTypeOK
  <2>2. Locks'
    BY <1>9, ReadersAssumption DEF StartThread, Locks, Critical, Phases, Loading,
       AdcTypeOK, Zero, Free, Thread
  <2>3. Phases'
    BY <1>9 DEF StartThread, Phases, AdcTypeOK, Early, Middle, Loading, Gone, Locks,
       Critical, Triggers, Zero, Free, Thread
  <2>4. Triggers'
    BY <1>9 DEF StartThread, Triggers, Phases, AdcTypeOK, Early, Middle, Loading, Gone,
       Publishing, Zero, Free, Thread
  <2>5. Counts'
    BY <1>9, MaxConvAssumption DEF StartThread, Counts, Polling, Triggers, Phases,
       AdcTypeOK, Pair, Early, Middle, Loading, Gone, Publishing, Zero, Free, Thread
  <2>6. Copies'
    BY <1>9 DEF StartThread, Copies, Counts, Locks, Critical, Phases, AdcTypeOK, Pair,
       Early, Middle, Loading, Gone, Zero, Free, Thread
  <2>7. Holdings'
    BY <1>9 DEF StartThread, Holdings, Nodes, Phases, AdcTypeOK, Early, Middle, Loading,
       Gone, Resources, Zero, Free, Thread
  <2>8. Accesses'
    BY <1>9 DEF StartThread, Accesses, Holdings, Nodes, Early, Middle, Loading, Gone
  <2> QED BY <2>1, <2>2, <2>3, <2>4, <2>5, <2>6, <2>7, <2>8
<1> QED BY <1>1, <1>2, <1>3, <1>4, <1>5, <1>6, <1>7, <1>8, <1>9

(* Every step of adcsonar_exit preserves the invariant.                    *)
LEMMA ExitSteps ==
  ASSUME AdcInv, 
         BeginExit \/ StopThread \/ DisableXadc \/ Unmap \/ FreeIrq \/ DestroyNode
  PROVE  AdcInv'
<1> USE DEF AdcInv, xadcVars, threadVars, readerVars, moduleVars
<1>1. CASE BeginExit
  <2>1. AdcTypeOK'
    BY <1>1, MaxConvAssumption DEF BeginExit, AdcTypeOK, Pair, Publishing, Resources,
       Free, Thread
  <2>2. Locks'
    BY <1>1, ReadersAssumption DEF BeginExit, Locks, Critical, AdcTypeOK, Pair,
       Publishing, Free, Thread
  <2>3. Phases'
    BY <1>1 DEF BeginExit, Phases, AdcTypeOK, Early, Middle, Loading, Gone, Locks,
       Critical, Triggers, Zero, Free, Thread
  <2>4. Triggers'
    BY <1>1 DEF BeginExit, Triggers, Phases, AdcTypeOK, Early, Middle, Loading, Gone,
       Publishing, Zero, Free, Thread
  <2>5. Counts'
    BY <1>1, MaxConvAssumption DEF BeginExit, Counts, Polling, Triggers, Phases,
       AdcTypeOK, Pair, Early, Middle, Loading, Gone, Publishing, Zero, Free, Thread
  <2>6. Copies'
    BY <1>1 DEF BeginExit, Copies, Counts, Locks, Critical, Phases, AdcTypeOK, Pair,
       Early, Middle, Loading, Gone, Zero, Free, Thread
  <2>7. Holdings'
    BY <1>1 DEF BeginExit, Holdings, Nodes, Phases, AdcTypeOK, Early, Middle, Loading,
       Gone, Resources, Zero, Free, Thread
  <2>8. Accesses'
    BY <1>1 DEF BeginExit, Accesses, Holdings, Nodes, Early, Middle, Loading, Gone
  <2> QED BY <2>1, <2>2, <2>3, <2>4, <2>5, <2>6, <2>7, <2>8
<1>2. CASE StopThread
  <2>1. AdcTypeOK'
    BY <1>2, MaxConvAssumption DEF StopThread, AdcTypeOK, Pair, Publishing, Resources,
       Free, Thread
  <2>2. Locks'
    BY <1>2, ReadersAssumption DEF StopThread, Locks, Critical, AdcTypeOK, Pair,
       Publishing, Free, Thread
  <2>3. Phases'
    BY <1>2 DEF StopThread, Phases, AdcTypeOK, Early, Middle, Loading, Gone, Locks,
       Critical, Triggers, Zero, Free, Thread
  <2>4. Triggers'
    BY <1>2 DEF StopThread, Triggers, Phases, AdcTypeOK, Early, Middle, Loading, Gone,
       Publishing, Zero, Free, Thread
  <2>5. Counts'
    BY <1>2, MaxConvAssumption DEF StopThread, Counts, Polling, Triggers, Phases,
       AdcTypeOK, Pair, Early, Middle, Loading, Gone, Publishing, Zero, Free, Thread
  <2>6. Copies'
    BY <1>2 DEF StopThread, Copies, Counts, Locks, Critical, Phases, AdcTypeOK, Pair,
       Early, Middle, Loading, Gone, Zero, Free, Thread
  <2>7. Holdings'
    BY <1>2 DEF StopThread, Holdings, Nodes, Phases, AdcTypeOK, Early, Middle, Loading,
       Gone, Resources, Zero, Free, Thread
  <2>8. Accesses'
    BY <1>2 DEF StopThread, Accesses, Holdings, Nodes, Early, Middle, Loading, Gone
  <2> QED BY <2>1, <2>2, <2>3, <2>4, <2>5, <2>6, <2>7, <2>8
<1>3. CASE DisableXadc
  <2>1. AdcTypeOK'
    <3>1. /\ mpc' \in {"unmap", "oops"} /\ held' = held
          /\ running' \in {FALSE, running} /\ status' \in {FALSE, status}
          /\ intr' \in {FALSE, intr} /\ intrEn' \in {FALSE, intrEn}
          /\ UNCHANGED <<adcState, tpc, rawData, data, lock, rpc, tmp, user, hpc, conv>>
      BY <1>3 DEF DisableXadc
    <3>2. held' \subseteq Resources
      BY <3>1 DEF AdcTypeOK, Resources
    <3>3. running' \in BOOLEAN /\ status' \in BOOLEAN /\ intr' \in BOOLEAN /\ intrEn' \in BOOLEAN
      BY <3>1 DEF AdcTypeOK
    <3> QED BY <3>1, <3>2, <3>3 DEF AdcTypeOK
  <2>2. Locks'
    BY <1>3, ReadersAssumption DEF DisableXadc, Locks, Critical, AdcTypeOK, Pair,
       Publishing, Free, Thread
  <2>3. Phases'
    BY <1>3 DEF DisableXadc, Phases, AdcTypeOK, Early, Middle, Loading, Gone, Locks,
       Critical, Triggers, Zero, Free, Thread
  <2>4. Triggers'
    BY <1>3 DEF DisableXadc, Triggers, Phases, AdcTypeOK, Early, Middle, Loading, Gone,
       Publishing, Zero, Free, Thread
  <2>5. Counts'
    BY <1>3, MaxConvAssumption DEF DisableXadc, Counts, Polling, Triggers, Phases,
       AdcTypeOK, Pair, Early, Middle, Loading, Gone, Publishing, Zero, Free, Thread
  <2>6. Copies'
    BY <1>3 DEF DisableXadc, Copies, Counts, Locks, Critical, Phases, AdcTypeOK, Pair,
       Early, Middle, Loading, Gone, Zero, Free, Thread
  <2>7. Holdings'
    BY <1>3 DEF DisableXadc, Holdings, Nodes, Phases, AdcTypeOK, Early, Middle, Loading,
       Gone, Resources, Zero, Free, Thread
  <2>8. Accesses'
    BY <1>3 DEF DisableXadc, Accesses, Holdings, Nodes, Early, Middle, Loading, Gone
  <2> QED BY <2>1, <2>2, <2>3, <2>4, <2>5, <2>6, <2>7, <2>8
<1>4. CASE Unmap
  <2>1. AdcTypeOK'
    BY <1>4, MaxConvAssumption DEF Unmap, AdcTypeOK, Pair, Publishing, Resources, Free,
       Thread
  <2>2. Locks'
    BY <1>4, ReadersAssumption DEF Unmap, Locks, Critical, AdcTypeOK, Pair, Publishing,
       Free, Thread
  <2>3. Phases'
    BY <1>4 DEF Unmap, Phases, AdcTypeOK, Early, Middle, Loading, Gone, Locks, Critical,
       Triggers, Zero, Free, Thread
  <2>4. Triggers'
    BY <1>4 DEF Unmap, Triggers, Phases, AdcTypeOK, Early, Middle, Loading, Gone,
       Publishing, Zero, Free, Thread
  <2>5. Counts'
    BY <1>4, MaxConvAssumption DEF Unmap, Counts, Polling, Triggers, Phases, AdcTypeOK,
       Pair, Early, Middle, Loading, Gone, Publishing, Zero, Free, Thread
  <2>6. Copies'
    BY <1>4 DEF Unmap, Copies, Counts, Locks, Critical, Phases, AdcTypeOK, Pair, Early,
       Middle, Loading, Gone, Zero, Free, Thread
  <2>7. Holdings'
    BY <1>4 DEF Unmap, Holdings, Nodes, Phases, AdcTypeOK, Early, Middle, Loading, Gone,
       Resources, Zero, Free, Thread
  <2>8. Accesses'
    BY <1>4 DEF Unmap, Accesses, Holdings, Nodes, Early, Middle, Loading, Gone
  <2> QED BY <2>1, <2>2, <2>3, <2>4, <2>5, <2>6, <2>7, <2>8
<1>5. CASE FreeIrq
  <2>1. AdcTypeOK'
    BY <1>5, MaxConvAssumption DEF FreeIrq, AdcTypeOK, Pair, Publishing, Resources,
       Free, Thread
  <2>2. Locks'
    BY <1>5, ReadersAssumption DEF FreeIrq, Locks, Critical, AdcTypeOK, Pair,
       Publishing, Free, Thread
  <2>3. Phases'
    BY <1>5 DEF FreeIrq, Phases, AdcTypeOK, Early, Middle, Loading, Gone, Locks,
       Critical, Triggers, Zero, Free, Thread
  <2>4. Triggers'
    BY <1>5 DEF FreeIrq, Triggers, Phases, AdcTypeOK, Early, Middle, Loading, Gone,
       Publishing, Zero, Free, Thread
  <2>5. Counts'
    BY <1>5, MaxConvAssumption DEF FreeIrq, Counts, Polling, Triggers, Phases,
       AdcTypeOK, Pair, Early, Middle, Loading, Gone, Publishing, Zero, Free, Thread
  <2>6. Copies'
    BY <1>5 DEF FreeIrq, Copies, Counts, Locks, Critical, Phases, AdcTypeOK, Pair,
       Early, Middle, Loading, Gone, Zero, Free, Thread
  <2>7. Holdings'
    BY <1>5 DEF FreeIrq, Holdings, Nodes, Phases, AdcTypeOK, Early, Middle, Loading,
       Gone, Resources, Zero, Free, Thread
  <2>8. Accesses'
    BY <1>5 DEF FreeIrq, Accesses, Holdings, Nodes, Early, Middle, Loading, Gone
  <2> QED BY <2>1, <2>2, <2>3, <2>4, <2>5, <2>6, <2>7, <2>8
<1>6. CASE DestroyNode
  <2>1. AdcTypeOK'
    BY <1>6, MaxConvAssumption DEF DestroyNode, AdcTypeOK, Pair, Publishing, Resources,
       Free, Thread
  <2>2. Locks'
    <3>1. \A r \in Readers : rpc'[r] \in {"closed", "lost"}
      BY <1>6 DEF DestroyNode
    <3>2. tpc' \in {"none", "stopped"} /\ lock' = Free
      BY <1>6 DEF DestroyNode, Phases
    <3> QED BY <3>1, <3>2, ReadersAssumption DEF Locks, Critical, Free, Thread
  <2>3. Phases'
    BY <1>6 DEF DestroyNode, Phases, AdcTypeOK, Early, Middle, Loading, Gone, Locks,
       Critical, Triggers, Zero, Free, Thread
  <2>4. Triggers'
    BY <1>6 DEF DestroyNode, Triggers, Phases, AdcTypeOK, Early, Middle, Loading, Gone,
       Publishing, Zero, Free, Thread
  <2>5. Counts'
    BY <1>6, MaxConvAssumption DEF DestroyNode, Counts, Polling, Triggers, Phases,
       AdcTypeOK, Pair, Early, Middle, Loading, Gone, Publishing, Zero, Free, Thread
  <2>6. Copies'
    BY <1>6 DEF DestroyNode, Copies, Counts, Locks, Critical, Phases, AdcTypeOK, Pair,
       Early, Middle, Loading, Gone, Zero, Free, Thread
  <2>7. Holdings'
    BY <1>6 DEF DestroyNode, Holdings, Nodes, Phases, AdcTypeOK, Early, Middle, Loading,
       Gone, Resources, Zero, Free, Thread
  <2>8. Accesses'
    BY <1>6 DEF DestroyNode, Accesses, Holdings, Nodes, Early, Middle, Loading, Gone
  <2> QED BY <2>1, <2>2, <2>3, <2>4, <2>5, <2>6, <2>7, <2>8
<1> QED BY <1>1, <1>2, <1>3, <1>4, <1>5, <1>6

-----------------------------------------------------------------------------
(* A module that has not been loaded satisfies the invariant.                *)
LEMMA AdcInvInit == Init => AdcInv
<1> SUFFICES ASSUME Init PROVE AdcInv
  OBVIOUS
<1> USE DEF Init
<1>1. AdcTypeOK
  <2>1. Zero \in Pair /\ 0 \in 0 .. MaxConv
    BY MaxConvAssumption DEF Pair, Zero
  <2> QED
    BY <2>1 DEF AdcTypeOK, Free
<1>2. Locks
  BY ReadersAssumption DEF Locks, Critical, Thread, Free
<1>3. Phases /\ Triggers
  BY DEF Phases, Triggers, Early, Middle, Loading, Gone, Publishing
<1>4. Counts /\ Copies
  BY DEF Counts, Copies, Polling, Early, Middle, Loading, Zero
<1>5. Holdings /\ Accesses
  BY DEF Holdings, Accesses, Nodes, Early, Middle, Loading, Gone
<1> QED
  BY <1>1, <1>2, <1>3, <1>4, <1>5 DEF AdcInv

(* Every step of the module, its readers and the XADC keeps the invariant.   *)
LEMMA AdcInvNext == AdcInv /\ [Next]_vars => AdcInv'
<1> SUFFICES ASSUME AdcInv, [Next]_vars PROVE AdcInv'
  OBVIOUS
<1>1. CASE SequenceDone \/ XadcIrqEnter \/ XadcIrq
  BY <1>1, XadcSteps
<1>2. CASE ThreadStep
  BY <1>2, ThreadSteps DEF ThreadStep
<1>3. ASSUME NEW r \in Readers, Open(r) \/ Close(r) \/ ReadLock(r) \/ ReadStep(r) PROVE AdcInv'
  BY <1>3, ReadSteps DEF ReadStep
<1>4. CASE RegisterChrdev \/ ModuleInit
  BY <1>4, InitSteps DEF ModuleInit
<1>5. CASE BeginExit \/ ModuleExit
  BY <1>5, ExitSteps DEF ModuleExit
<1>6. CASE UNCHANGED vars
  <2> USE <1>6 DEF vars, threadVars, readerVars, moduleVars, xadcVars
  <2>1. AdcTypeOK' /\ Locks'
    BY DEF AdcInv, AdcTypeOK, Locks
  <2>2. Phases' /\ Triggers'
    BY DEF AdcInv, Phases, Triggers, Loading
  <2>3. Counts' /\ Copies' /\ Holdings' /\ Accesses'
    BY DEF AdcInv, Counts, Copies, Holdings, Accesses, Polling, Loading
  <2> QED
    BY <2>1, <2>2, <2>3 DEF AdcInv
<1> QED
  BY <1>1, <1>2, <1>3, <1>4, <1>5, <1>6 DEF Next

(* The invariant holds in every behaviour; the theorems below are read off   *)
(* it.                                                                       *)
LEMMA AdcInvariant == Spec => []AdcInv
  BY AdcInvInit, AdcInvNext, PTL DEF Spec

(* Every read of /dev/adcsonar returns a distance and a version that belong  *)
(* together, and version k is conversion k, with any number of readers       *)
(* contending for data_lock (adcSonar_read, adcSonar_thread).                *)
THEOREM WholeReadings == Spec => [](AdcTypeOK /\ ReadIsOneConversion)
<1>1. AdcInv => AdcTypeOK /\ ReadIsOneConversion
  BY DEF AdcInv, Copies, ReadIsOneConversion
<1> QED
  BY <1>1, AdcInvariant, PTL

(* The driver's counters, copies and program counters keep their types.      *)
THEOREM DriverTypes == Spec => []AdcTypeOK
<1>1. AdcInv => AdcTypeOK
  BY DEF AdcInv
<1> QED
  BY <1>1, AdcInvariant, PTL

(* The single-pass sequence always has exactly one trigger pending: a        *)
(* running sequence, its flag, or the thread on its way to the restart.      *)
THEOREM TriggerNeverLost == Spec => []OneTrigger
<1>1. AdcInv => OneTrigger
  BY DEF AdcInv, Triggers, Phases, OneTrigger, Publishing
<1> QED
  BY <1>1, AdcInvariant, PTL

(* adcsonar_exit after any adcsonar_init that completed, with readers and    *)
(* the handler where they may be: the thread ends before its mapping, the    *)
(* handler before the module but not before the mapping, an unload that ends *)
(* has given everything back, and one that does not was stopped by that      *)
(* handler or by what a failed init left (xadc.c, 128 to 150).               *)
THEOREM ExitIsClean == Spec => []ExitUndoesInit
<1>1. AdcInv => ExitUndoesInit
  <2> SUFFICES ASSUME AdcInv PROVE ExitUndoesInit
    OBVIOUS
  <2>1. tpc \notin {"none", "stopped"} => {"mapping", "thread"} \subseteq held
    BY DEF AdcInv, Holdings
  <2>2. mpc = "unloaded" => held = {} /\ ~intrEn
    BY DEF AdcInv, Holdings, Gone
  <2>3. mpc = "unloaded" => lock = Free
    BY DEF AdcInv, Locks, Phases, Holdings, Critical, AdcTypeOK
  <2> QED
    BY <2>1, <2>2, <2>3 DEF ExitUndoesInit, AdcInv, Accesses, Nodes
<1> QED
  BY <1>1, AdcInvariant, PTL

(* Within one load of the module no process reads an older version after a   *)
(* newer one.                                                                *)
THEOREM ReadingsDoNotGoBack == Spec => VersionsGrow
<1> DEFINE Grow == mpc # "unloaded" => \A r \in Readers : user'[r].version >= user[r].version
<1>1. AdcInv /\ [Next]_vars => [Grow]_vars
  <2> SUFFICES ASSUME AdcInv, Next, mpc # "unloaded", NEW q \in Readers
               PROVE  user'[q].version >= user[q].version
    BY DEF AdcInv
  <2>1. user[q] \in Pair /\ user[q].version >= user[q].version
    BY MaxConvAssumption DEF AdcInv, AdcTypeOK, Pair
  <2>2. ASSUME NEW r \in Readers, CopyToUser(r) PROVE user'[q].version >= user[q].version
    <3>1. CASE q = r /\ user' = [user EXCEPT ![r] = tmp[r]]
      <4>1. tmp[r].version >= user[r].version
        BY <2>2, MaxConvAssumption DEF CopyToUser, AdcInv, Copies, AdcTypeOK, Pair
      <4> QED
        BY <3>1, <4>1 DEF AdcInv, AdcTypeOK
    <3>2. CASE ~(q = r /\ user' = [user EXCEPT ![r] = tmp[r]])
      BY <2>1, <2>2, <3>2 DEF CopyToUser, AdcInv, AdcTypeOK
    <3> QED
      BY <3>1, <3>2
  <2>3. CASE user' = user
    BY <2>1, <2>3
  <2>4. user' = user \/ \E r \in Readers : CopyToUser(r)
    <3> USE DEF xadcVars, threadVars, readerVars, moduleVars
    <3>1. CASE SequenceDone \/ XadcIrqEnter \/ XadcIrq
      BY <3>1 DEF SequenceDone, XadcIrqEnter, XadcIrq
    <3>2. CASE ThreadStep
      BY <3>2 DEF ThreadStep, StartConv, GetSeqStatus, GetSeqFlag, ClearSeqFlag,
         ReadSample, LockData,
                  SetDistance, IncVersion, UnlockData, RestartSequence, ThreadStop
    <3>3. ASSUME NEW r \in Readers, Open(r) \/ Close(r) \/ ReadLock(r) \/ ReadStep(r)
          PROVE  user' = user \/ CopyToUser(r)
      BY <3>3 DEF Open, Close, ReadLock, ReadStep, CopyDistance, CopyVersion, ReadUnlock
    <3>4. CASE ModuleInit
      BY <3>4 DEF ModuleInit, CreateNode, ParamsInit, Ioremap, GetIrq, Configure,
         StartThread
    <3>5. CASE BeginExit \/ ModuleExit
      BY <3>5 DEF BeginExit, ModuleExit, StopThread, DisableXadc, Unmap, FreeIrq,
         DestroyNode
    <3> QED
      BY <3>1, <3>2, <3>3, <3>4, <3>5 DEF Next, RegisterChrdev
  <2> QED
    BY <2>2, <2>3, <2>4
<1> QED
  BY <1>1, AdcInvariant, PTL DEF Spec, VersionsGrow

-----------------------------------------------------------------------------
(* The driver implements SonarDevice.                                        *)

DeviceStep == Device!DeviceNext \/ UNCHANGED Device!deviceVars

(* A step that the device does not show: the version stays, and readers are  *)
(* where they were.                                                          *)
LEMMA Unseen ==
  ASSUME Up' = Up, data'.version = data.version, UNCHANGED readerVars
  PROVE  DeviceStep
<1>1. UNCHANGED <<Current, Taken, Returned>>
  BY DEF Current, Taken, Returned, readerVars, Up
<1> QED
  BY <1>1 DEF DeviceStep, Device!deviceVars

(* The thread shows a conversion when it increments the version.             *)
LEMMA ThreadShows ==
  ASSUME AdcInv, ThreadStep
  PROVE  DeviceStep
<1>1. UNCHANGED <<readerVars, held>>
  BY DEF ThreadStep, StartConv, GetSeqStatus, GetSeqFlag, ClearSeqFlag, ReadSample,
     LockData, SetDistance, IncVersion, UnlockData, RestartSequence, ThreadStop, moduleVars
<1>2. Up' = Up
  BY <1>1 DEF Up
<1>3. CASE IncVersion
  <2>1. tpc = "version" /\ data'.version = data.version + 1
    BY <1>3 DEF IncVersion
  <2>2. Up
    BY <2>1 DEF AdcInv, Phases, Holdings, Nodes, Up
  <2>3. Current' = Current + 1 /\ UNCHANGED <<Taken, Returned>>
    BY <1>1, <1>2, <2>1, <2>2 DEF Current, Taken, Returned, readerVars
  <2>4. Device!Publish
    BY <1>2, <2>2, <2>3 DEF Device!Publish
  <2> QED
    BY <2>4 DEF DeviceStep, Device!DeviceNext
<1>4. CASE ~IncVersion
  <2>1. data'.version = data.version
    BY <1>4 DEF ThreadStep, StartConv, GetSeqStatus, GetSeqFlag, ClearSeqFlag, ReadSample,
       LockData, SetDistance, UnlockData, RestartSequence, ThreadStop
  <2> QED
    BY <1>1, <1>2, <2>1, Unseen
<1> QED
  BY <1>3, <1>4

(* A reader takes the reading with the version, as the lock keeps the thread *)
(* out since it copied the distance.                                         *)
LEMMA CopyVersionTakes ==
  ASSUME AdcInv, NEW r \in Readers, CopyVersion(r)
  PROVE  Device!Sample(r)
<1>1. rpc[r] = "version" /\ rpc \in [Readers -> {"closed", "idle", "distance", "version", "unlock", "copy", "lost"}]
      /\ tmp \in [Readers -> Pair] /\ data \in Pair
  BY DEF CopyVersion, AdcInv, AdcTypeOK
<1>2. Up /\ Up'
  BY <1>1 DEF AdcInv, Phases, Up, CopyVersion, moduleVars
<1>3. tpc # "version"
  BY <1>1, ReadersAssumption DEF AdcInv, Locks, Critical, Thread
<1>4. tmp[r].distance = data.distance /\ data.distance = data.version
  BY <1>1, <1>3 DEF AdcInv, Copies, Counts
<1>5. UNCHANGED <<Current, Returned>>
  BY <1>2 DEF CopyVersion, Current, Returned, threadVars
<1>6. tmp'[r] = Device!Reading(Current) /\ rpc'[r] = "unlock"
  BY <1>1, <1>2, <1>4 DEF CopyVersion, Device!Reading, Current
<1>7. \A q \in Readers : q # r => rpc'[q] = rpc[q] /\ tmp'[q] = tmp[q]
  BY <1>1 DEF CopyVersion
<1>8. Taken[r] = {} /\ Taken' = [Taken EXCEPT ![r] = {Device!Reading(Current)}]
  BY <1>1, <1>6, <1>7 DEF Taken
<1> QED
  BY <1>2, <1>5, <1>8 DEF Device!Sample

(* It returns what it has taken, if it returns at all.                       *)
LEMMA CopyToUserReturns ==
  ASSUME AdcInv, NEW r \in Readers, CopyToUser(r)
  PROVE  Device!Return(r)
<1>1. rpc[r] = "copy" /\ rpc \in [Readers -> {"closed", "idle", "distance", "version", "unlock", "copy", "lost"}]
      /\ tmp' = tmp /\ rpc' = [rpc EXCEPT ![r] = "idle"]
  BY DEF CopyToUser, AdcInv, AdcTypeOK
<1>2. Up /\ Up'
  BY <1>1 DEF AdcInv, Phases, Up, CopyToUser, moduleVars
<1>3. UNCHANGED Current
  BY <1>2 DEF CopyToUser, Current, threadVars
<1>4. Taken[r] = {tmp[r]} /\ Taken' = [Taken EXCEPT ![r] = {}]
  BY <1>1 DEF Taken
<1>5. Returned' \in {Returned, [Returned EXCEPT ![r] = tmp[r]]}
  BY <1>2 DEF CopyToUser, Returned
<1> QED
  BY <1>2, <1>3, <1>4, <1>5 DEF Device!Return

(* What a reader does before and after is not seen.                          *)
LEMMA ReaderShows ==
  ASSUME AdcInv, NEW r \in Readers, Open(r) \/ Close(r) \/ ReadLock(r) \/ ReadStep(r)
  PROVE  DeviceStep
<1>1. CASE CopyVersion(r)
  BY <1>1, CopyVersionTakes DEF DeviceStep, Device!DeviceNext
<1>2. CASE CopyToUser(r)
  BY <1>2, CopyToUserReturns DEF DeviceStep, Device!DeviceNext
<1>3. CASE Open(r) \/ Close(r) \/ ReadLock(r) \/ CopyDistance(r) \/ ReadUnlock(r)
  <2>1. UNCHANGED <<data, user, held>>
    BY <1>3 DEF Open, Close, ReadLock, CopyDistance, ReadUnlock, threadVars, moduleVars
  <2>2. \A q \in Readers :
          /\ rpc'[q] \in {"unlock", "copy"} <=> rpc[q] \in {"unlock", "copy"}
          /\ rpc[q] \in {"unlock", "copy"} => tmp'[q] = tmp[q]
    BY <1>3 DEF AdcInv, AdcTypeOK, Open, Close, ReadLock, CopyDistance, ReadUnlock
  <2>3. UNCHANGED <<Up, Current, Taken, Returned>>
    BY <2>1, <2>2 DEF Up, Current, Taken, Returned
  <2> QED
    BY <2>3 DEF DeviceStep, Device!deviceVars
<1> QED
  BY <1>1, <1>2, <1>3 DEF ReadStep

(* device_create shows a device that holds version 0 and was never read.     *)
LEMMA LoadShows ==
  ASSUME AdcInv, RegisterChrdev \/ ModuleInit
  PROVE  DeviceStep
<1> USE DEF threadVars, readerVars
<1>1. CASE RegisterChrdev
  <2>1. ~Up /\ ~Up' /\ rpc' = rpc /\ \A r \in Readers : rpc[r] \in {"closed", "lost"}
    BY <1>1 DEF RegisterChrdev, AdcInv, Holdings, Phases, Up
  <2>2. Up' = Up /\ UNCHANGED <<Current, Taken, Returned>>
    BY <2>1 DEF Current, Taken, Returned, Up
  <2> QED
    BY <2>2 DEF DeviceStep, Device!deviceVars
<1>2. CASE CreateNode("device", "params")
  <2>1. mpc = "device" /\ ~Up /\ UNCHANGED <<data, readerVars>>
    BY <1>2 DEF CreateNode, AdcInv, Holdings, Up
  <2>2. data = Zero /\ \A r \in Readers : rpc[r] \in {"closed", "lost"}
    BY <2>1 DEF AdcInv, Phases, Loading, Early, Up
  <2>3. \A r \in Readers : user[r] = Zero
    <3> SUFFICES ASSUME NEW r \in Readers PROVE user[r] = Zero
      OBVIOUS
    <3>1. user[r] \in Pair /\ user[r].distance = user[r].version
      BY DEF AdcInv, AdcTypeOK, Copies
    <3>2. user[r].version <= data.version /\ data.version = 0
      BY <2>1, <2>2 DEF AdcInv, Copies, Zero
    <3>3. user[r].version = 0
      BY <3>1, <3>2, MaxConvAssumption DEF Pair
    <3> QED
      BY <3>1, <3>3 DEF Pair, Zero
  <2>4. user = [r \in Readers |-> Zero]
    BY <2>3 DEF AdcInv, AdcTypeOK
  <2>5. UNCHANGED <<Current, Taken, Returned>>
    BY <2>1, <2>2, <2>4 DEF Current, Taken, Returned, Zero
  <2>6. Up' \/ Up' = Up
    BY <2>1 DEF Up
  <2> QED
    BY <2>1, <2>5, <2>6 DEF DeviceStep, Device!DeviceNext, Device!Load, Device!deviceVars
<1>3. CASE ModuleInit /\ ~CreateNode("device", "params")
  <2>1. data'.version = data.version /\ UNCHANGED readerVars
    BY <1>3 DEF ModuleInit, CreateNode, ParamsInit, Ioremap, GetIrq, Configure, StartThread,
       AdcInv, Phases, Loading, Early, Zero
  <2>2. Up' = Up
    BY <1>3 DEF ModuleInit, CreateNode, ParamsInit, Ioremap, GetIrq, Configure, StartThread, Up
  <2> QED
    BY <2>1, <2>2, Unseen
<1> QED
  BY <1>1, <1>2, <1>3

(* The device is gone with its node; reads under way get no answer.          *)
LEMMA UnloadShows ==
  ASSUME AdcInv, BeginExit \/ ModuleExit
  PROVE  DeviceStep
<1> USE DEF moduleVars, threadVars
<1>1. CASE BeginExit \/ StopThread \/ DisableXadc \/ Unmap \/ FreeIrq
  <2>1. UNCHANGED <<data, readerVars>>
    BY <1>1 DEF BeginExit, StopThread, DisableXadc, Unmap, FreeIrq
  <2>2. Up' = Up
    BY <1>1 DEF BeginExit, StopThread, DisableXadc, Unmap, FreeIrq, Up
  <2> QED
    BY <2>1, <2>2, Unseen
<1>2. CASE DestroyNode
  <2>1. Up /\ Up' = FALSE /\ \A r \in Readers : rpc'[r] \in {"closed", "lost"}
    BY <1>2 DEF DestroyNode, AdcInv, Holdings, Nodes, Up
  <2>2. Current' = 0 /\ Returned' = Device!Unread
    BY <2>1 DEF Current, Returned, Device!Unread, Device!Reading, Zero
  <2>3. Taken' = Device!Nothing
    BY <2>1 DEF Taken, Device!Nothing
  <2> QED
    BY <2>1, <2>2, <2>3 DEF DeviceStep, Device!DeviceNext, Device!Unload
<1> QED
  BY <1>1, <1>2 DEF ModuleExit

(* The whole of adcsonar, for any readers, conversions and faults of its     *)
(* initialisation, is to its readers one reading that each conversion        *)
(* replaces as a whole (adcSonar_read, adcSonar_thread, adcsonar_init,       *)
(* adcsonar_exit).                                                           *)
THEOREM DriverImplementsDevice == Spec => ImplementsDevice
<1>1. Init => Device!DeviceInit
  BY DEF Init, Device!DeviceInit, Device!Nothing, Device!Unread, Device!Reading, Up, Current,
     Taken, Returned, Zero
<1>2. AdcInv /\ [Next]_vars => [Device!DeviceNext]_Device!deviceVars
  <2> SUFFICES ASSUME AdcInv, [Next]_vars PROVE DeviceStep
    BY DEF DeviceStep
  <2>1. CASE SequenceDone \/ XadcIrqEnter \/ XadcIrq
    <3>1. UNCHANGED <<held, data, readerVars>>
      BY <2>1 DEF SequenceDone, XadcIrqEnter, XadcIrq, threadVars, moduleVars
    <3>2. Up' = Up
      BY <3>1 DEF Up
    <3> QED
      BY <3>1, <3>2, Unseen
  <2>2. CASE UNCHANGED vars
    <3>1. UNCHANGED <<held, data, readerVars>>
      BY <2>2 DEF vars, threadVars, moduleVars
    <3>2. Up' = Up
      BY <3>1 DEF Up
    <3> QED
      BY <3>1, <3>2, Unseen
  <2> QED
    BY <2>1, <2>2, ThreadShows, ReaderShows, LoadShows, UnloadShows DEF Next
<1> QED
  BY <1>1, <1>2, AdcInvariant, PTL DEF Spec, ImplementsDevice, Device!DeviceSpec

-----------------------------------------------------------------------------
(* Why kthread_stop returns: the safety half of UnloadCompletes.             *)

(* The steps the thread can still take once it is to stop.                   *)
StepsLeft(at) ==
  CASE at = "flag"     -> 9
    [] at = "clear"    -> 8
    [] at = "sample"   -> 7
    [] at = "lock"     -> 6
    [] at = "distance" -> 5
    [] at = "version"  -> 4
    [] at = "unlock"   -> 3
    [] at = "restart"  -> 2
    [] at = "top"      -> 1
    [] OTHER           -> 0

(* While adcsonar_exit waits, every step the thread takes brings it nearer   *)
(* to its end, of which it is at most nine steps away.                       *)
StopIsNear ==
  [][ mpc = "stop" =>
        IF ThreadStep THEN StepsLeft(tpc') < StepsLeft(tpc) ELSE tpc' = tpc ]_vars

(* The steps a reader can still take before it lets the lock go.             *)
HoldLeft(at) ==
  CASE at = "distance" -> 3
    [] at = "version"  -> 2
    [] at = "unlock"   -> 1
    [] OTHER           -> 0

(* The thread only waits for a reader who is within its three steps with the *)
(* lock, and each of that reader's steps brings it nearer to letting it go,  *)
(* to nobody in particular.                                                  *)
OnlyReadersInTheWay ==
  tpc = "lock" /\ lock # Free => \E r \in Readers : lock = r /\ HoldLeft(rpc[r]) > 0

LockIsNear ==
  [][ \A r \in Readers :
        lock = r => /\ lock' \in {r, Free}
                    /\ lock' = r => rpc'[r] = rpc[r] \/ HoldLeft(rpc'[r]) < HoldLeft(rpc[r]) ]_vars

(* adcsonar_exit's kthread_stop against adcSonar_thread, wherever the thread *)
(* is in its poll and the readers in their calls when the module is unloaded.*)
THEOREM UnloadIsBounded == Spec => []OnlyReadersInTheWay /\ LockIsNear /\ StopIsNear
<1>1. AdcInv => OnlyReadersInTheWay
  <2> SUFFICES ASSUME AdcInv, tpc = "lock", lock # Free
               PROVE  \E r \in Readers : lock = r /\ HoldLeft(rpc[r]) > 0
    BY DEF OnlyReadersInTheWay
  <2>1. lock # Thread
    BY DEF AdcInv, Locks, Critical
  <2>2. PICK r \in Readers : lock = r
    BY <2>1 DEF AdcInv, AdcTypeOK
  <2>3. rpc[r] \in Critical
    BY <2>2 DEF AdcInv, Locks
  <2> QED
    BY <2>2, <2>3 DEF Critical, HoldLeft
<1>3. AdcInv /\ [Next]_vars =>
        [ \A r \in Readers :
            lock = r => /\ lock' \in {r, Free}
                        /\ lock' = r => rpc'[r] = rpc[r] \/ HoldLeft(rpc'[r]) < HoldLeft(rpc[r]) ]_vars
  <2> SUFFICES ASSUME AdcInv, Next, NEW r \in Readers, lock = r
               PROVE  /\ lock' \in {r, Free}
                      /\ lock' = r => rpc'[r] = rpc[r] \/ HoldLeft(rpc'[r]) < HoldLeft(rpc[r])
    OBVIOUS
  <2>1. /\ rpc[r] \in Critical /\ r # Free /\ r # Thread /\ "device" \in held
        /\ mpc # "unloaded" /\ rpc \in [Readers -> {"closed", "idle", "distance", "version", "unlock", "copy", "lost"}]
    BY ReadersAssumption DEF AdcInv, Locks, Critical, Phases, Holdings, AdcTypeOK, Free, Thread
  <2>2. ASSUME NEW q \in Readers, Open(q) \/ Close(q) \/ ReadLock(q) \/ ReadStep(q)
        PROVE  /\ lock' \in {r, Free}
               /\ lock' = r => rpc'[r] = rpc[r] \/ HoldLeft(rpc'[r]) < HoldLeft(rpc[r])
    <3>1. CASE q = r
      <4>1. \/ rpc[r] = "distance" /\ rpc'[r] = "version" /\ lock' = r
            \/ rpc[r] = "version" /\ rpc'[r] = "unlock" /\ lock' = r
            \/ lock' = Free
        BY <2>1, <2>2, <3>1 DEF Open, Close, ReadLock, ReadStep, CopyDistance, CopyVersion, ReadUnlock,
           CopyToUser, Critical, threadVars
      <4> QED
        BY <2>1, <4>1 DEF HoldLeft
    <3>2. CASE q # r
      BY <2>1, <2>2, <3>2 DEF Open, Close, ReadLock, ReadStep, CopyDistance, CopyVersion, ReadUnlock,
         CopyToUser, threadVars
    <3> QED
      BY <3>1, <3>2
  <2>3. CASE ThreadStep
    <3>1. tpc \notin Critical
      BY <2>1 DEF AdcInv, Locks
    <3>2. lock' = lock /\ rpc' = rpc
      BY <2>1, <2>3, <3>1 DEF ThreadStep, StartConv, GetSeqStatus, GetSeqFlag, ClearSeqFlag, ReadSample, LockData,
         SetDistance, IncVersion, UnlockData, RestartSequence, ThreadStop, Critical, readerVars
    <3> QED
      BY <3>2
  <2>4. CASE SequenceDone \/ XadcIrqEnter \/ XadcIrq \/ ModuleInit \/ BeginExit \/ StopThread \/ DisableXadc
             \/ Unmap \/ FreeIrq
    <3>1. lock' = lock /\ rpc' = rpc
      BY <2>4 DEF SequenceDone, XadcIrqEnter, XadcIrq, ModuleInit, CreateNode, ParamsInit, Ioremap, GetIrq,
         Configure, StartThread, BeginExit, StopThread, DisableXadc, Unmap, FreeIrq, threadVars, readerVars
    <3> QED
      BY <3>1
  <2>5. CASE RegisterChrdev \/ DestroyNode
    BY <2>1, <2>5 DEF RegisterChrdev, DestroyNode
  <2> QED
    BY <2>2, <2>3, <2>4, <2>5 DEF Next, ModuleExit
<1>2. [Next]_vars =>
        [ mpc = "stop" => IF ThreadStep THEN StepsLeft(tpc') < StepsLeft(tpc) ELSE tpc' = tpc ]_vars
  <2> SUFFICES ASSUME Next, mpc = "stop"
               PROVE  IF ThreadStep THEN StepsLeft(tpc') < StepsLeft(tpc) ELSE tpc' = tpc
    OBVIOUS
  <2>1. CASE ThreadStep
    <3>1. CASE GetSeqFlag
      <4>1. tpc = "flag" /\ tpc' \in {"clear", "top"}
        BY <2>1, <3>1 DEF GetSeqFlag, AtTop
      <4> QED
        BY <2>1, <4>1 DEF StepsLeft
    <3>2. CASE ThreadStep /\ ~GetSeqFlag
      <4>1. \/ tpc = "clear" /\ tpc' = "sample"
            \/ tpc = "sample" /\ tpc' = "lock"
            \/ tpc = "lock" /\ tpc' = "distance"
            \/ tpc = "distance" /\ tpc' = "version"
            \/ tpc = "version" /\ tpc' = "unlock"
            \/ tpc = "unlock" /\ tpc' = "restart"
            \/ tpc = "restart" /\ tpc' = "top"
            \/ tpc = "top" /\ tpc' = "stopped"
        BY <3>2 DEF ThreadStep, StartConv, GetSeqStatus, ClearSeqFlag, ReadSample, LockData, SetDistance,
           IncVersion, UnlockData, RestartSequence, ThreadStop, AtTop
      <4> QED
        BY <2>1, <4>1 DEF StepsLeft
    <3> QED
      BY <2>1, <3>1, <3>2
  <2>2. CASE ~ThreadStep
    <3>1. tpc' = tpc
      BY <2>2 DEF Next, SequenceDone, XadcIrqEnter, XadcIrq, Open, Close, ReadLock, ReadStep, CopyDistance, CopyVersion, ReadUnlock,
         CopyToUser, RegisterChrdev, ModuleInit, CreateNode, ParamsInit, Ioremap, GetIrq, Configure,
         StartThread, BeginExit, ModuleExit, StopThread, DisableXadc, Unmap, FreeIrq, DestroyNode, threadVars
    <3> QED
      BY <2>2, <3>1
  <2> QED
    BY <2>1, <2>2
<1> QED
  BY <1>1, <1>2, <1>3, AdcInvariant, PTL DEF Spec, StopIsNear, LockIsNear
=============================================================================
