-------------------------- MODULE CenterAligned_proofs --------------------------
(***************************************************************************)
(* The PWM core and its kernel module, for every period of at least eight  *)
(* cycles, every pair of triples and every word that holds them, with the  *)
(* handler's writes at any cycle of any period.                            *)
(*                                                                         *)
(* Registers says what the duty registers hold at every place of the       *)
(* handler: that alone decides which pulses a period's end loads.          *)
(* Handshake is the argument for the alternation: in a period that began   *)
(* undisturbed the interrupt is in exactly one place between the counter   *)
(* and the cleared line, and that place says which triple is shown.        *)
(***************************************************************************)
EXTENDS CenterAligned, TLAPS

On      == {"ENABLE", "CENTER_ALIGNED", "INTERRUPT_ENABLE"}
Mapped  == {"period", "duty1", "duty2", "duty3", "ctrl", "live", "stop", "unmap"}
Started == {"duty1", "duty2", "duty3", "ctrl", "live", "stop", "unmap"}
Before  == {"map", "failed", "period", "duty1", "duty2", "duty3", "ctrl"}

(* The triple in the registers while no handler is writing.                  *)
OldDuty == IF phase = "FIRST_PHASE" THEN SecondDuty ELSE FirstDuty

Fresh == Loaded = Pulses(OldDuty)
Shown == Loaded = Pulses(PhaseDuty)

(* What depends on the module's place alone.                                 *)
Places ==
  /\ count <= period
  /\ mpc \in Started => period = PWM_PERIOD
  /\ ctrl = IF mpc \in {"live", "stop"} THEN On ELSE {}
  /\ mpc # "live" => isr = "none"
  /\ mapped <=> mpc \in Mapped
  /\ handler <=> mpc \in Before \cup {"live", "oops"}
  /\ lvlState = "WAIT" <=> ~irq

(* An interrupt leaves the counter when a period ends and is at the level    *)
(* logic one cycle later.                                                    *)
Flags ==
  /\ interruptActive => count = 0 /\ period = PWM_PERIOD
  /\ stateCur => count = 1 /\ period = PWM_PERIOD

(* Which registers hold which triple.                                        *)
Registers ==
  /\ mpc \in Before => phase = "FIRST_PHASE"
  /\ mpc \in {"duty2", "duty3", "ctrl"} => duty["DUTY1"] = SecondDuty["DUTY1"]
  /\ mpc \in {"duty3", "ctrl"} => duty["DUTY2"] = SecondDuty["DUTY2"]
  /\ mpc = "ctrl" => duty["DUTY3"] = SecondDuty["DUTY3"]
  /\ mpc \in {"live", "stop"} /\ isr \in {"none", "duty1", "clear"} => duty = OldDuty
  /\ isr = "duty2" => duty = [OldDuty EXCEPT !["DUTY1"] = PhaseDuty["DUTY1"]]
  /\ isr = "duty3" => /\ duty["DUTY1"] = PhaseDuty["DUTY1"] /\ duty["DUTY2"] = PhaseDuty["DUTY2"]
                      /\ duty["DUTY3"] = OldDuty["DUTY3"]

(* The places of an interrupt, from the counter to the cleared line.         *)
Still    == ~interruptActive /\ ~stateCur
Active   == isr = "none" /\ ~irq /\ ~clearCur /\ interruptActive /\ ~stateCur /\ Fresh
Edge     == isr = "none" /\ ~irq /\ ~clearCur /\ stateCur /\ ~statePrev /\ Fresh
Pending  == isr \in {"none", "duty1", "duty2", "duty3"} /\ irq /\ ~clearCur /\ Still /\ Fresh
Clearing == isr = "clear" /\ irq /\ ~clearCur /\ Still /\ Shown
Answered == isr = "none" /\ irq /\ clearCur /\ ~clearPrev /\ Still /\ Shown
Rest     == isr = "none" /\ ~irq /\ Still /\ Shown

Handshake ==
  mpc = "live" /\ ~disturbed => Active \/ Edge \/ Pending \/ Clearing \/ Answered \/ Rest

(* A load finds the interrupt at rest, and it stays so until the core runs.  *)
Silence == mpc \in Before => ~irq /\ ~interrupt /\ Still

PwmInv == PwmTypeOK /\ Places /\ Flags /\ Registers /\ Handshake /\ Silence

-----------------------------------------------------------------------------
(* The core.                                                                 *)

(* The hardware's part of the type invariant, and the driver's.              *)
HwType ==
  /\ period \in {0, PWM_PERIOD} /\ deadTime = 0 /\ ctrl \subseteq Bits
  /\ duty \in [Legs -> 0 .. (WordSize - 1)]
  /\ {clearPrev, clearCur, interruptActive, statePrev, stateCur, irq, interrupt} \subseteq BOOLEAN
  /\ count \in 0 .. PWM_PERIOD
  /\ {cm0, cm1, cm0Lss, cm1Lss} \subseteq [Legs -> 0 .. PWM_PERIOD]
  /\ {pwm, pwmLss, pwmOut, pwmOutLss} \subseteq [Legs -> BOOLEAN]
  /\ lvlState \in {"WAIT", "PENDING"}

DrvType ==
  /\ mpc \in {"unloaded", "map", "failed", "period", "duty1", "duty2", "duty3", "ctrl",
              "live", "stop", "unmap", "oops"}
  /\ handler \in BOOLEAN /\ mapped \in BOOLEAN
  /\ isr \in {"none", "duty1", "duty2", "duty3", "clear"}
  /\ phase \in {"FIRST_PHASE", "SECOND_PHASE"} /\ disturbed \in BOOLEAN

(* The types are those of the core and those of the driver.                 *)
LEMMA TypeParts == PwmTypeOK <=> HwType /\ DrvType
  BY DEF PwmTypeOK, HwType, DrvType

(* What the driver writes.                                                   *)
Writes ==
  {NoWrite, Write("PERIOD", PWM_PERIOD), Write("CTRL", On), Write("CTRL", {}), Write("INTR", 1)}
    \cup {Write(r, v) : r \in Legs, v \in 0 .. (WordSize - 1)}

(* A write changes the register it names; the clear detector follows.        *)
LEMMA NoWriteKeeps ==
  ASSUME RegisterWrite(NoWrite)
  PROVE  UNCHANGED <<period, duty, deadTime, ctrl>> /\ clearPrev' = FALSE /\ clearCur' = FALSE
  BY DEF RegisterWrite, NoWrite, Legs

(* A write of a duty register changes that register only.                   *)
LEMMA DutyWrite ==
  ASSUME NEW r \in Legs, NEW v, RegisterWrite(Write(r, v))
  PROVE  /\ duty' = [duty EXCEPT ![r] = v]
         /\ UNCHANGED <<period, deadTime, ctrl, clearPrev, clearCur>>
<1>1. Write(r, v).reg = r /\ Write(r, v).value = v
  BY DEF Write
<1>2. r \notin {"none", "INTR", "PERIOD", "DEADTIME", "CTRL"}
  BY DEF Legs
<1>3. Write(r, v) # NoWrite
  BY <1>1, <1>2 DEF NoWrite
<1> QED
  BY <1>1, <1>2, <1>3 DEF RegisterWrite

(* So does one of the period register.                                      *)
LEMMA PeriodWrite ==
  ASSUME RegisterWrite(Write("PERIOD", PWM_PERIOD))
  PROVE  period' = PWM_PERIOD /\ UNCHANGED <<duty, deadTime, ctrl, clearPrev, clearCur>>
<1>1. /\ Write("PERIOD", PWM_PERIOD).reg = "PERIOD"
      /\ Write("PERIOD", PWM_PERIOD).value = PWM_PERIOD
  BY DEF Write
<1>2. Write("PERIOD", PWM_PERIOD) # NoWrite
  BY <1>1 DEF NoWrite
<1> QED
  BY <1>1, <1>2 DEF RegisterWrite, Legs

(* So does one of the control register.                                     *)
LEMMA CtrlWrite ==
  ASSUME NEW v, RegisterWrite(Write("CTRL", v))
  PROVE  ctrl' = v /\ UNCHANGED <<period, duty, deadTime, clearPrev, clearCur>>
<1>1. Write("CTRL", v).reg = "CTRL" /\ Write("CTRL", v).value = v
  BY DEF Write
<1>2. Write("CTRL", v) # NoWrite
  BY <1>1 DEF NoWrite
<1> QED
  BY <1>1, <1>2 DEF RegisterWrite, Legs

(* A write of the interrupt register is a clear on its way.                 *)
LEMMA IntrWrite ==
  ASSUME RegisterWrite(Write("INTR", 1))
  PROVE  /\ clearPrev' = clearCur /\ clearCur' = TRUE
         /\ UNCHANGED <<period, duty, deadTime, ctrl>>
<1>1. Write("INTR", 1).reg = "INTR" /\ Write("INTR", 1).value = 1
  BY DEF Write
<1>2. Write("INTR", 1) # NoWrite
  BY <1>1 DEF NoWrite
<1> QED
  BY <1>1, <1>2 DEF RegisterWrite, Legs

(* The counter and the interrupt's way behind it.                            *)
LEMMA TickCounts ==
  ASSUME NEW w, Tick(w), HwType, count <= period
  PROVE  /\ count < period => count' = count + 1 /\ ~interruptActive' /\ UNCHANGED <<cm0, cm1>>
         /\ count = period => count' = 0 /\ (interruptActive' <=> "INTERRUPT_ENABLE" \in ctrl)
         /\ statePrev' = stateCur /\ stateCur' = interruptActive /\ interrupt' = irq
<1>1. period \in Nat /\ count \in Nat
  BY DutiesAssumption DEF HwType
<1>2. PeriodEnds <=> count = period
  BY <1>1 DEF PeriodEnds
<1>3. CountAndLoad /\ InterruptLevel /\ OutputRegs
  BY DEF Tick
<1>4. count < period => count' = count + 1 /\ ~interruptActive' /\ UNCHANGED <<cm0, cm1>>
  BY <1>1, <1>2, <1>3 DEF CountAndLoad
<1>5. count = period => count' = 0 /\ (interruptActive' <=> "INTERRUPT_ENABLE" \in ctrl)
  BY <1>2, <1>3 DEF CountAndLoad
<1> QED
  BY <1>3, <1>4, <1>5 DEF InterruptLevel, OutputRegs

(* The interrupt line rises with an edge of the state and falls with a clear.*)
LEMMA TickLevel ==
  ASSUME NEW w, Tick(w), HwType, lvlState = "WAIT" <=> ~irq
  PROVE  /\ irq' <=> IF irq THEN clearPrev \/ ~clearCur ELSE ~statePrev /\ stateCur
         /\ lvlState' = "WAIT" <=> ~irq'
  BY DEF Tick, InterruptLevel, HwType

(* What a core that is enabled loads.                                        *)
LEMMA CentredLoad ==
  ASSUME NEW w, Tick(w), HwType, count = period, period = PWM_PERIOD, ctrl = On
  PROVE  Loaded' = Pulses(duty)
<1>1. PeriodEnds
  BY DutiesAssumption DEF HwType, PeriodEnds
<1>2. Centred = TRUE
  BY DEF Centred, On
<1>3. /\ cm0' = [i \in Legs |-> SR0(duty[i], period, Centred)]
      /\ cm1' = [i \in Legs |-> SR1(duty[i], period, Centred)]
  BY <1>1 DEF Tick, CountAndLoad
<1> QED
  BY <1>2, <1>3 DEF Loaded, Pulses

(* Each leg of the pulses of a triple is that of one of the triple's legs.   *)
LEMMA PulsesOfLeg ==
  ASSUME NEW d, NEW i \in Legs
  PROVE  /\ Pulses(d)[1][i] = SR0(d[i], PWM_PERIOD, TRUE)
         /\ Pulses(d)[2][i] = SR1(d[i], PWM_PERIOD, TRUE)
  BY DEF Pulses

(* Every edge of the clock keeps the core's types.                           *)
LEMMA SRType ==
  ASSUME NEW d \in Nat, NEW p \in 0 .. PWM_PERIOD, NEW c \in BOOLEAN
  PROVE  SR0(d, p, c) \in 0 .. PWM_PERIOD /\ SR1(d, p, c) \in 0 .. PWM_PERIOD
<1> DEFINE k == DutyInternal(d, p)
<1>1. k \in 0 .. p /\ p \in Nat /\ p <= PWM_PERIOD
  BY DutiesAssumption DEF DutyInternal
<1>2. p \div 2 - k \div 2 \in 0 .. p /\ p \div 2 + k \div 2 \in 0 .. p
  BY <1>1
<1> QED
  BY <1>1, <1>2, DutiesAssumption DEF SR0, SR1

(* A cycle of the core keeps its types, whatever the driver writes in it.   *)
LEMMA TickTypes ==
  ASSUME NEW w \in Writes, Tick(w), HwType, count <= period, "DEADTIME_ENABLE" \notin ctrl
  PROVE  HwType' /\ count' <= period'
<1> DEFINE Kept == /\ period' \in {period, PWM_PERIOD} /\ deadTime' = deadTime
                   /\ ctrl' \in {ctrl, On, {}} /\ duty' \in [Legs -> 0 .. (WordSize - 1)]
                   /\ clearPrev' \in BOOLEAN /\ clearCur' \in BOOLEAN
<1>1. Kept
  <2> USE DEF HwType
  <2>1. RegisterWrite(w)
    BY DEF Tick
  <2>2. CASE w = NoWrite
    BY <2>1, <2>2, NoWriteKeeps
  <2>3. CASE w = Write("PERIOD", PWM_PERIOD)
    BY <2>1, <2>3, PeriodWrite
  <2>4. CASE w \in {Write("CTRL", On), Write("CTRL", {})}
    BY <2>1, <2>4, CtrlWrite
  <2>5. CASE w = Write("INTR", 1)
    BY <2>1, <2>5, IntrWrite
  <2>6. ASSUME NEW r \in Legs, NEW v \in 0 .. (WordSize - 1), w = Write(r, v)
        PROVE  Kept
    BY <2>1, <2>6, DutyWrite
  <2> QED
    BY <2>2, <2>3, <2>4, <2>5, <2>6 DEF Writes
<1>2. period \in 0 .. PWM_PERIOD /\ count \in Nat /\ count <= period
  BY DutiesAssumption DEF HwType
<1>3. count' \in 0 .. PWM_PERIOD /\ count' <= period'
  BY <1>1, <1>2, TickCounts, DutiesAssumption DEF HwType
<1>4. cm0' \in [Legs -> 0 .. PWM_PERIOD] /\ cm1' \in [Legs -> 0 .. PWM_PERIOD]
  <2>1. CASE ~PeriodEnds
    BY <2>1 DEF Tick, CountAndLoad, HwType
  <2>2. CASE PeriodEnds
    <3>1. \A i \in Legs : duty[i] \in Nat
      BY WordSizeAssumption DEF HwType
    <3>2. Centred \in BOOLEAN
      BY DEF Centred
    <3>3. /\ cm0' = [i \in Legs |-> SR0(duty[i], period, Centred)]
          /\ cm1' = [i \in Legs |-> SR1(duty[i], period, Centred)]
      BY <2>2 DEF Tick, CountAndLoad
    <3> QED
      BY <1>2, <3>1, <3>2, <3>3, SRType
  <2> QED
    BY <2>1, <2>2
<1>5. cm0Lss' = cm0Lss /\ cm1Lss' = cm1Lss
  BY DEF Tick, CountAndLoad
<1>6. interruptActive' \in BOOLEAN
  <2>1. \/ interruptActive' = ("INTERRUPT_ENABLE" \in ctrl)
        \/ interruptActive' = FALSE
    BY DEF Tick, CountAndLoad
  <2>2. ("INTERRUPT_ENABLE" \in ctrl) \in BOOLEAN
    OBVIOUS
  <2> QED
    BY <2>1, <2>2
<1>7. pwm' \in [Legs -> BOOLEAN] /\ pwmLss' \in [Legs -> BOOLEAN]
  BY Zenon DEF Tick, Compare
<1>8. /\ statePrev' \in BOOLEAN /\ stateCur' \in BOOLEAN /\ irq' \in BOOLEAN
      /\ interrupt' \in BOOLEAN /\ lvlState' \in {"WAIT", "PENDING"}
      /\ pwmOut' = pwm /\ pwmOutLss' = pwmLss
  BY DEF Tick, InterruptLevel, OutputRegs, HwType
<1>9. period' \in {0, PWM_PERIOD} /\ deadTime' = 0 /\ ctrl' \subseteq Bits
  BY <1>1 DEF HwType, On, Bits
<1> QED
  BY <1>1, <1>3, <1>4, <1>5, <1>6, <1>7, <1>8, <1>9 DEF HwType

-----------------------------------------------------------------------------
(* What every edge of the clock keeps.                                       *)

LEMMA TickKeeps ==
  ASSUME PwmInv, NEW w \in Writes, Tick(w)
  PROVE  HwType' /\ count' <= period' /\ Flags' /\ (lvlState' = "WAIT" <=> ~irq')
<1>1. HwType /\ Places /\ Flags /\ "DEADTIME_ENABLE" \notin ctrl /\ count \in Nat /\ period \in Nat
  BY TypeParts, DutiesAssumption DEF PwmInv, Places, On, HwType
<1>2. HwType' /\ count' <= period'
  BY <1>1, TickTypes DEF Places
<1>3. lvlState' = "WAIT" <=> ~irq'
  BY <1>1, TickLevel DEF Places
<1>4. /\ count < period => count' = count + 1 /\ ~interruptActive'
      /\ count = period => count' = 0 /\ (interruptActive' <=> "INTERRUPT_ENABLE" \in ctrl)
      /\ stateCur' = interruptActive
  BY <1>1, TickCounts DEF Places
<1>5. period' \in {period, PWM_PERIOD}
  <2>1. RegisterWrite(w)
    BY DEF Tick
  <2>2. CASE w \in {NoWrite, Write("PERIOD", PWM_PERIOD), Write("CTRL", On), Write("CTRL", {}), Write("INTR", 1)}
    BY <2>1, <2>2, NoWriteKeeps, PeriodWrite, CtrlWrite, IntrWrite
  <2>3. ASSUME NEW r \in Legs, NEW v \in 0 .. (WordSize - 1), w = Write(r, v)
        PROVE  period' = period
    BY <2>1, <2>3, DutyWrite
  <2> QED
    BY <2>2, <2>3 DEF Writes
<1>6. interruptActive' => count = period /\ mpc \in {"live", "stop"}
  BY <1>1, <1>4 DEF Places
<1>7. interruptActive' => count' = 0 /\ period' = PWM_PERIOD
  BY <1>1, <1>4, <1>5, <1>6 DEF Places, Started
<1>8. stateCur' => count' = 1 /\ period' = PWM_PERIOD
  BY <1>1, <1>4, <1>5, DutiesAssumption DEF Flags
<1> QED
  BY <1>2, <1>3, <1>7, <1>8 DEF Flags

(* What the end of a period loads, when the core is enabled.                 *)
LEMMA EndLoads ==
  ASSUME PwmInv, mpc \in {"live", "stop"}, count = period, NEW w, Tick(w)
  PROVE  Loaded' = Pulses(duty)
  BY TypeParts, CentredLoad DEF PwmInv, Places, Started

(* The history variable keeps its type.                                      *)
LEMMA DisturbedType ==
  ASSUME PwmInv, NEW w, Cycle(w)
  PROVE  disturbed' \in BOOLEAN
<1>1. HandlerDue \in BOOLEAN /\ disturbed \in BOOLEAN
  BY DEF HandlerDue, PwmInv, PwmTypeOK
<1> QED
  BY <1>1 DEF Cycle

-----------------------------------------------------------------------------
(* A cycle of a live module, with the clock alone or a write of the handler. *)

(* A period that ends with no handler due begins a new one undisturbed: a    *)
(* clear on its way takes effect with the period's end, and the registers    *)
(* hold a whole triple.                                                      *)
LEMMA EndHandsOver ==
  ASSUME PwmInv, mpc = "live", count = period, Cycle(NoWrite), ~HandlerDue,
         UNCHANGED drvVars
  PROVE  Active'
<1>1. HwType /\ Places /\ Flags /\ Registers /\ period = PWM_PERIOD /\ ctrl = On /\ count >= 8
  BY TypeParts, DutiesAssumption DEF PwmInv, Places, Started
<1>2. Tick(NoWrite) /\ isr = "none" /\ handler /\ ~Uncleared
  BY <1>1 DEF Cycle, HandlerDue, Places
<1>3. ~interruptActive /\ ~stateCur
  BY <1>1, DutiesAssumption DEF Flags
<1>4. interruptActive' /\ ~stateCur'
  BY <1>1, <1>2, <1>3, TickCounts DEF On, Places
<1>5. ~irq'
  BY <1>1, <1>2, <1>3, TickLevel DEF Uncleared, Places
<1>6. ~clearCur'
  BY <1>2, NoWriteKeeps DEF Tick
<1>7. Loaded' = Pulses(duty) /\ duty = OldDuty
  BY <1>1, <1>2, EndLoads DEF Registers
<1>8. OldDuty' = OldDuty /\ isr' = isr
  BY DEF drvVars, OldDuty
<1> QED
  BY <1>2, <1>4, <1>5, <1>6, <1>7, <1>8 DEF Active, Fresh

(* Within a period the counter and the level logic do this.                  *)
LEMMA MidPeriod ==
  ASSUME PwmInv, count # period, NEW w \in Writes, Cycle(w)
  PROVE  /\ disturbed' = disturbed /\ Loaded' = Loaded /\ ~interruptActive'
         /\ statePrev' = stateCur /\ stateCur' = interruptActive
         /\ irq' <=> IF irq THEN clearPrev \/ ~clearCur ELSE ~statePrev /\ stateCur
<1>1. HwType /\ Places /\ count < period /\ Tick(w)
  BY TypeParts, DutiesAssumption DEF PwmInv, Places, HwType, Cycle
<1>2. ~PeriodEnds
  BY <1>1, DutiesAssumption DEF HwType, PeriodEnds
<1>3. /\ ~interruptActive' /\ UNCHANGED <<cm0, cm1>>
      /\ statePrev' = stateCur /\ stateCur' = interruptActive
  BY <1>1, TickCounts DEF Places
<1>4. irq' <=> IF irq THEN clearPrev \/ ~clearCur ELSE ~statePrev /\ stateCur
  BY <1>1, TickLevel DEF Places
<1> QED
  BY <1>2, <1>3, <1>4 DEF Cycle, Loaded

(* The clock moves the interrupt from place to place.                        *)
LEMMA LiveClock ==
  ASSUME PwmInv, mpc = "live", Clock
  PROVE  Handshake'
<1>1. Cycle(NoWrite) /\ Tick(NoWrite) /\ UNCHANGED drvVars /\ NoWrite \in Writes
  BY DEF Clock, Cycle, Writes
<1>2. ~clearPrev' /\ ~clearCur'
  BY <1>1, NoWriteKeeps DEF Tick
<1>3. /\ mpc' = mpc /\ isr' = isr /\ OldDuty' = OldDuty /\ PhaseDuty' = PhaseDuty
  BY <1>1 DEF drvVars, OldDuty, PhaseDuty
<1>4. CASE count = period
  <2>1. PeriodEnds
    BY <1>4, TypeParts, DutiesAssumption DEF PeriodEnds, PwmInv, HwType
  <2> QED
    BY <1>1, <1>4, <2>1, EndHandsOver DEF Cycle, Handshake
<1>5. CASE count # period
  <2>1. SUFFICES ASSUME ~disturbed PROVE Handshake'
    BY <1>1, <1>5, MidPeriod DEF Handshake
  <2>2. /\ Loaded' = Loaded /\ ~interruptActive'
        /\ statePrev' = stateCur /\ stateCur' = interruptActive
        /\ irq' <=> IF irq THEN clearPrev \/ ~clearCur ELSE ~statePrev /\ stateCur
    BY <1>1, <1>5, MidPeriod
  <2>3. (Fresh => Fresh') /\ (Shown => Shown')
    BY <1>3, <2>2 DEF Fresh, Shown
  <2>4. stateCur => ~interruptActive
    BY DEF PwmInv, Flags
  <2>5. CASE Active
    BY <1>2, <1>3, <2>2, <2>3, <2>5 DEF Active, Edge, Handshake
  <2>6. CASE Edge
    BY <1>2, <1>3, <2>2, <2>3, <2>4, <2>6 DEF Edge, Pending, Still, Handshake
  <2>7. CASE Pending
    BY <1>2, <1>3, <2>2, <2>3, <2>7 DEF Pending, Still, Handshake
  <2>8. CASE Clearing
    BY <1>2, <1>3, <2>2, <2>3, <2>8 DEF Clearing, Still, Handshake
  <2>9. CASE Answered \/ Rest
    BY <1>2, <1>3, <2>2, <2>3, <2>9 DEF Answered, Rest, Still, Handshake
  <2> QED
    BY <2>1, <2>5, <2>6, <2>7, <2>8, <2>9 DEF PwmInv, Handshake
<1> QED
  BY <1>4, <1>5

(* A write of the handler in an undisturbed period finds the interrupt where *)
(* the handler is; one that meets the period's end leaves the next disturbed.*)
LEMMA HandlerCycle ==
  ASSUME PwmInv, mpc = "live", isr # "none", NEW w \in Writes, Cycle(w), ~disturbed'
  PROVE  /\ IF isr = "clear" THEN Clearing ELSE Pending
         /\ irq' /\ Still' /\ Loaded' = Loaded
<1>1. HandlerDue
  BY DEF HandlerDue
<1>2. count # period
  BY <1>1, TypeParts, DutiesAssumption DEF Cycle, PeriodEnds, PwmInv, HwType
<1>3. ~disturbed /\ Loaded' = Loaded
  BY <1>2, MidPeriod
<1>4. IF isr = "clear" THEN Clearing ELSE Pending
  BY <1>3 DEF PwmInv, Handshake, Active, Edge, Pending, Clearing, Answered, Rest
<1>5. irq /\ ~clearCur /\ Still
  BY <1>4 DEF Pending, Clearing
<1> QED
  BY <1>2, <1>3, <1>4, <1>5, MidPeriod DEF Still

(* A step of the handler that writes keeps the module's place.               *)
LEMMA HandlerPlaces ==
  ASSUME PwmInv, isr # "none", NEW w \in Writes, Cycle(w),
         UNCHANGED <<mpc, handler, mapped, period, ctrl>>,
         isr' \in {"none", "duty2", "duty3", "clear"}, phase' \in {"FIRST_PHASE", "SECOND_PHASE"},
         Registers', Handshake'
  PROVE  PwmInv'
<1>1. mpc = "live" /\ Places /\ DrvType /\ Tick(w)
  BY TypeParts DEF PwmInv, Places, Cycle
<1>2. HwType' /\ count' <= period' /\ Flags' /\ (lvlState' = "WAIT" <=> ~irq') /\ disturbed' \in BOOLEAN
  BY <1>1, TickKeeps, DisturbedType
<1>3. DrvType' /\ Places' /\ Silence'
  BY <1>1, <1>2 DEF DrvType, Places, Silence, Before
<1> QED
  BY <1>2, <1>3, TypeParts, PTL DEF PwmInv

(* The first write of the handler.                                           *)
LEMMA FirstDutyWrite ==
  ASSUME PwmInv, IrqWrite("duty1", "DUTY1", "duty2")
  PROVE  PwmInv'
<1> DEFINE w == Write("DUTY1", PhaseDuty["DUTY1"])
<1>1. isr = "duty1" /\ Cycle(w) /\ isr' = "duty2" /\ UNCHANGED <<mpc, handler, mapped, phase>>
  BY DEF IrqWrite
<1>2. w \in Writes /\ "DUTY1" \in Legs /\ mpc = "live"
  BY <1>1, DutiesAssumption DEF PhaseDuty, Writes, Legs, PwmInv, Places
<1>3. duty' = [duty EXCEPT !["DUTY1"] = PhaseDuty["DUTY1"]] /\ UNCHANGED <<period, ctrl, clearCur>>
  BY <1>1, <1>2, DutyWrite DEF Cycle, Tick
<1>4. OldDuty' = OldDuty /\ PhaseDuty' = PhaseDuty /\ duty = OldDuty /\ phase \in {"FIRST_PHASE", "SECOND_PHASE"}
  BY <1>1, <1>2, TypeParts DEF OldDuty, PhaseDuty, PwmInv, Registers, DrvType
<1>5. Registers'
  BY <1>1, <1>2, <1>3, <1>4 DEF Registers, Before
<1>6. Handshake'
  <2>1. SUFFICES ASSUME ~disturbed' PROVE Pending'
    BY DEF Handshake
  <2> QED
    BY <1>1, <1>2, <1>3, <1>4, <2>1, HandlerCycle DEF Pending, Fresh
<1> QED
  BY <1>1, <1>2, <1>3, <1>4, <1>5, <1>6, HandlerPlaces

(* The second write of the handler.                                          *)
LEMMA SecondDutyWrite ==
  ASSUME PwmInv, IrqWrite("duty2", "DUTY2", "duty3")
  PROVE  PwmInv'
<1> DEFINE w == Write("DUTY2", PhaseDuty["DUTY2"])
<1>1. isr = "duty2" /\ Cycle(w) /\ isr' = "duty3" /\ UNCHANGED <<mpc, handler, mapped, phase>>
  BY DEF IrqWrite
<1>2. w \in Writes /\ "DUTY2" \in Legs /\ mpc = "live"
  BY <1>1, DutiesAssumption DEF PhaseDuty, Writes, Legs, PwmInv, Places
<1>3. duty' = [duty EXCEPT !["DUTY2"] = PhaseDuty["DUTY2"]] /\ UNCHANGED <<period, ctrl, clearCur>>
  BY <1>1, <1>2, DutyWrite DEF Cycle, Tick
<1>4. /\ OldDuty' = OldDuty /\ PhaseDuty' = PhaseDuty /\ phase \in {"FIRST_PHASE", "SECOND_PHASE"}
      /\ duty = [OldDuty EXCEPT !["DUTY1"] = PhaseDuty["DUTY1"]]
      /\ OldDuty \in [Legs -> 0 .. (WordSize - 1)] /\ PhaseDuty \in [Legs -> 0 .. (WordSize - 1)]
  BY <1>1, <1>2, TypeParts, DutiesAssumption DEF OldDuty, PhaseDuty, PwmInv, Registers, DrvType
<1>5. /\ duty'["DUTY1"] = PhaseDuty["DUTY1"] /\ duty'["DUTY2"] = PhaseDuty["DUTY2"]
      /\ duty'["DUTY3"] = OldDuty["DUTY3"]
  BY <1>3, <1>4 DEF Legs
<1>6. Registers'
  BY <1>1, <1>2, <1>4, <1>5 DEF Registers, Before
<1>7. Handshake'
  <2>1. SUFFICES ASSUME ~disturbed' PROVE Pending'
    BY DEF Handshake
  <2> QED
    BY <1>1, <1>2, <1>3, <1>4, <2>1, HandlerCycle DEF Pending, Fresh
<1> QED
  BY <1>1, <1>2, <1>3, <1>4, <1>6, <1>7, HandlerPlaces

(* The third completes the triple and changes the phase.                     *)
LEMMA LastDutyWrite ==
  ASSUME PwmInv, IrqLastDuty
  PROVE  PwmInv'
<1> DEFINE w == Write("DUTY3", PhaseDuty["DUTY3"])
<1>1. /\ isr = "duty3" /\ Cycle(w) /\ isr' = "clear" /\ UNCHANGED <<mpc, handler, mapped>>
      /\ phase' = IF phase = "FIRST_PHASE" THEN "SECOND_PHASE" ELSE "FIRST_PHASE"
  BY DEF IrqLastDuty
<1>2. w \in Writes /\ "DUTY3" \in Legs /\ mpc = "live"
  BY <1>1, DutiesAssumption DEF PhaseDuty, Writes, Legs, PwmInv, Places
<1>3. duty' = [duty EXCEPT !["DUTY3"] = PhaseDuty["DUTY3"]] /\ UNCHANGED <<period, ctrl, clearCur>>
  BY <1>1, <1>2, DutyWrite DEF Cycle, Tick
<1>4. /\ phase \in {"FIRST_PHASE", "SECOND_PHASE"}
      /\ duty["DUTY1"] = PhaseDuty["DUTY1"] /\ duty["DUTY2"] = PhaseDuty["DUTY2"]
      /\ duty \in [Legs -> 0 .. (WordSize - 1)] /\ PhaseDuty \in [Legs -> 0 .. (WordSize - 1)]
  BY <1>1, TypeParts, DutiesAssumption DEF PhaseDuty, PwmInv, Registers, DrvType, HwType
<1>5. OldDuty' = PhaseDuty /\ PhaseDuty' = OldDuty
  BY <1>1, <1>4 DEF OldDuty, PhaseDuty
<1>6. duty' = PhaseDuty
  <2>1. \A i \in Legs : duty'[i] = PhaseDuty[i]
    BY <1>3, <1>4 DEF Legs
  <2>2. duty' \in [Legs -> 0 .. (WordSize - 1)]
    BY <1>2, <1>3, <1>4
  <2> QED
    BY <1>4, <2>1, <2>2
<1>7. Registers'
  BY <1>1, <1>2, <1>5, <1>6 DEF Registers, Before
<1>8. Handshake'
  <2>1. SUFFICES ASSUME ~disturbed' PROVE Clearing'
    BY DEF Handshake
  <2> QED
    BY <1>1, <1>2, <1>3, <1>5, <2>1, HandlerCycle DEF Pending, Clearing, Fresh, Shown
<1> QED
  BY <1>1, <1>2, <1>3, <1>4, <1>7, <1>8, HandlerPlaces

(* The last write of the handler posts the clear.                            *)
LEMMA ClearWrite ==
  ASSUME PwmInv, IrqClear
  PROVE  PwmInv'
<1> DEFINE w == Write("INTR", 1)
<1>1. isr = "clear" /\ Cycle(w) /\ isr' = "none" /\ UNCHANGED <<mpc, handler, mapped, phase>>
  BY DEF IrqClear
<1>2. w \in Writes /\ mpc = "live"
  BY <1>1 DEF Writes, PwmInv, Places
<1>3. clearPrev' = clearCur /\ clearCur' = TRUE /\ UNCHANGED <<period, duty, ctrl>>
  BY <1>1, IntrWrite DEF Cycle, Tick
<1>4. /\ OldDuty' = OldDuty /\ PhaseDuty' = PhaseDuty /\ duty = OldDuty
      /\ phase \in {"FIRST_PHASE", "SECOND_PHASE"}
  BY <1>1, <1>2, TypeParts DEF OldDuty, PhaseDuty, PwmInv, Registers, DrvType
<1>5. Registers'
  BY <1>1, <1>2, <1>3, <1>4 DEF Registers, Before
<1>6. Handshake'
  <2>1. SUFFICES ASSUME ~disturbed' PROVE Answered'
    BY DEF Handshake
  <2>2. Clearing /\ irq' /\ Still' /\ Loaded' = Loaded
    BY <1>1, <1>2, <2>1, HandlerCycle
  <2> QED
    BY <1>1, <1>3, <1>4, <2>2 DEF Clearing, Answered, Shown
<1> QED
  BY <1>1, <1>2, <1>3, <1>4, <1>5, <1>6, HandlerPlaces

-----------------------------------------------------------------------------
(* A load, an unload, and the clock.                                         *)

(* The steps of Pwm_Init and of the exit, and a cycle without a write: what  *)
(* they do to the registers.                                                 *)
Sets(w) ==
  \/ w = NoWrite /\ mpc' = mpc
  \/ mpc = "period" /\ w = Write("PERIOD", PWM_PERIOD) /\ mpc' = "duty1"
  \/ mpc = "duty1" /\ w = Write("DUTY1", SecondDuty["DUTY1"]) /\ mpc' = "duty2"
  \/ mpc = "duty2" /\ w = Write("DUTY2", SecondDuty["DUTY2"]) /\ mpc' = "duty3"
  \/ mpc = "duty3" /\ w = Write("DUTY3", SecondDuty["DUTY3"]) /\ mpc' = "ctrl"
  \/ mpc = "ctrl" /\ w = Write("CTRL", On) /\ mpc' = "live"
  \/ mpc = "stop" /\ w = Write("CTRL", {}) /\ mpc' = "unmap"

(* They keep the places and the registers.                                   *)
LEMMA SetsKeep ==
  ASSUME PwmInv, NEW w \in Writes, Tick(w), Sets(w), UNCHANGED <<handler, mapped, isr, phase>>
  PROVE  Places' /\ Registers'
<1>1. HwType /\ DrvType /\ Places /\ Registers /\ RegisterWrite(w) /\ duty \in [Legs -> 0 .. (WordSize - 1)]
  BY TypeParts DEF PwmInv, Tick, HwType
<1>2. count' <= period' /\ (lvlState' = "WAIT" <=> ~irq')
  BY TickKeeps
<1>3. OldDuty' = OldDuty /\ PhaseDuty' = PhaseDuty
  BY DEF OldDuty, PhaseDuty
<1>4. CASE w = NoWrite /\ mpc' = mpc
  <2>1. UNCHANGED <<period, duty, ctrl>>
    BY <1>1, <1>4, NoWriteKeeps
  <2>2. Places'
    BY <1>1, <1>2, <1>4, <2>1 DEF Places
  <2>3. Registers'
    BY <1>1, <1>3, <1>4, <2>1 DEF Registers
  <2> QED
    BY <2>2, <2>3
<1>5. ASSUME mpc \in Before PROVE phase' = "FIRST_PHASE" /\ isr = "none" /\ isr' = "none"
  BY <1>1, <1>5 DEF Places, Registers, Before
<1>6. CASE mpc = "period" /\ w = Write("PERIOD", PWM_PERIOD) /\ mpc' = "duty1"
  <2>1. period' = PWM_PERIOD /\ UNCHANGED <<duty, ctrl>>
    BY <1>1, <1>6, PeriodWrite
  <2> QED
    BY <1>1, <1>2, <1>5, <1>6, <2>1 DEF Places, Registers, Started, Mapped, Before
<1>7. CASE mpc = "duty1" /\ w = Write("DUTY1", SecondDuty["DUTY1"]) /\ mpc' = "duty2"
  <2>1. duty' = [duty EXCEPT !["DUTY1"] = SecondDuty["DUTY1"]] /\ UNCHANGED <<period, ctrl>>
    BY <1>1, <1>7, DutyWrite DEF Legs
  <2> QED
    BY <1>1, <1>2, <1>5, <1>7, <2>1 DEF Places, Registers, Started, Mapped, Before, Legs
<1>8. CASE mpc = "duty2" /\ w = Write("DUTY2", SecondDuty["DUTY2"]) /\ mpc' = "duty3"
  <2>1. duty' = [duty EXCEPT !["DUTY2"] = SecondDuty["DUTY2"]] /\ UNCHANGED <<period, ctrl>>
    BY <1>1, <1>8, DutyWrite DEF Legs
  <2> QED
    BY <1>1, <1>2, <1>5, <1>8, <2>1 DEF Places, Registers, Started, Mapped, Before, Legs
<1>9. CASE mpc = "duty3" /\ w = Write("DUTY3", SecondDuty["DUTY3"]) /\ mpc' = "ctrl"
  <2>1. duty' = [duty EXCEPT !["DUTY3"] = SecondDuty["DUTY3"]] /\ UNCHANGED <<period, ctrl>>
    BY <1>1, <1>9, DutyWrite DEF Legs
  <2> QED
    BY <1>1, <1>2, <1>5, <1>9, <2>1 DEF Places, Registers, Started, Mapped, Before, Legs
<1>10. CASE mpc = "ctrl" /\ w = Write("CTRL", On) /\ mpc' = "live"
  <2>1. ctrl' = On /\ UNCHANGED <<period, duty>>
    BY <1>1, <1>10, CtrlWrite
  <2>2. duty = SecondDuty
    <3>1. \A i \in Legs : duty[i] = SecondDuty[i]
      BY <1>1, <1>10 DEF Registers, Legs
    <3> QED
      BY <1>1, <3>1, DutiesAssumption
  <2>3. Places'
    BY <1>1, <1>2, <1>5, <1>10, <2>1 DEF Places, Started, Mapped, Before
  <2>4. Registers'
    BY <1>5, <1>10, <2>1, <2>2 DEF Registers, OldDuty, Before
  <2> QED
    BY <2>3, <2>4
<1>11. CASE mpc = "stop" /\ w = Write("CTRL", {}) /\ mpc' = "unmap"
  <2>1. ctrl' = {} /\ UNCHANGED <<period, duty>>
    BY <1>1, <1>11, CtrlWrite
  <2> QED
    BY <1>1, <1>2, <1>11, <2>1 DEF Places, Registers, Started, Mapped, Before
<1> QED
  BY <1>4, <1>6, <1>7, <1>8, <1>9, <1>10, <1>11 DEF Sets

(* And the rest of the invariant.                                            *)
LEMMA SettingSteps ==
  ASSUME PwmInv, NEW w \in Writes, Tick(w), Sets(w), UNCHANGED <<handler, mapped, isr, phase>>,
         disturbed' \in BOOLEAN, mpc' = "live" => Handshake'
  PROVE  PwmInv'
<1>1. HwType /\ DrvType /\ Places /\ Silence
  BY TypeParts DEF PwmInv
<1>2. HwType' /\ Flags'
  BY TickKeeps
<1>3. DrvType'
  BY <1>1 DEF DrvType, Sets
<1>4. Places' /\ Registers'
  BY SetsKeep
<1>5. Silence'
  <2>1. SUFFICES ASSUME mpc' \in Before PROVE ~irq' /\ ~interrupt' /\ Still'
    BY DEF Silence
  <2>2. mpc \in Before
    BY <2>1 DEF Sets, Before
  <2>3. ~irq /\ ~interrupt /\ Still /\ ctrl = {} /\ count <= period
    BY <1>1, <2>2 DEF Silence, Places, Before
  <2>4. ~irq'
    BY <1>1, <2>3, TickLevel DEF Still, Places
  <2>5. stateCur' = interruptActive /\ interrupt' = irq /\ ~interruptActive'
    BY <1>1, <2>3, TickCounts, DutiesAssumption DEF HwType
  <2> QED
    BY <2>3, <2>4, <2>5 DEF Still
<1>6. Handshake'
  BY DEF Handshake
<1> QED
  BY <1>2, <1>3, <1>4, <1>5, <1>6, TypeParts, PTL DEF PwmInv

(* The steps of the module that leave the core alone.                        *)
LEMMA QuietSteps ==
  ASSUME PwmInv, RequestIrq \/ Ioremap \/ FreeIrq \/ Unmap \/ UNCHANGED pwmVars
  PROVE  PwmInv'
<1> USE DEF hwVars, regVars, coreVars, levelVars
<1>1. HwType /\ DrvType /\ Places /\ Flags /\ Registers /\ Handshake /\ Silence
  BY TypeParts DEF PwmInv
<1>2. UNCHANGED hwVars
  BY DEF RequestIrq, Ioremap, FreeIrq, Unmap, pwmVars
<1>3. HwType' /\ Flags'
  BY <1>1, <1>2 DEF HwType, Flags
<1>4. DrvType'
  BY <1>1 DEF DrvType, RequestIrq, Ioremap, FreeIrq, Unmap, pwmVars, drvVars
<1>5. CASE RequestIrq
  <2>1. /\ mpc = "unloaded" /\ Settled /\ isr = "none" /\ isr' = "none" /\ phase' = "FIRST_PHASE"
        /\ handler' = TRUE /\ mapped' = mapped /\ mpc' = IF interrupt THEN "oops" ELSE "map"
    BY <1>1, <1>5 DEF RequestIrq, Places
  <2>2. Places'
    BY <1>1, <1>2, <2>1 DEF Places, Before, Mapped, Started
  <2>3. Registers' /\ Handshake' /\ Silence'
    BY <1>2, <2>1 DEF Registers, Handshake, Silence, Still, Before, Settled
  <2> QED
    BY <1>3, <1>4, <2>2, <2>3, TypeParts, PTL DEF PwmInv
<1>6. CASE Ioremap
  <2>1. /\ mpc = "map" /\ UNCHANGED <<handler, isr, phase>>
        /\ (mpc' = "period" /\ mapped') \/ (mpc' = "failed" /\ ~mapped')
    BY <1>6 DEF Ioremap
  <2>2. Places'
    BY <1>1, <1>2, <2>1 DEF Places, Before, Mapped, Started
  <2>3. Registers' /\ Handshake' /\ Silence'
    BY <1>1, <1>2, <2>1 DEF Registers, Handshake, Silence, Still, Places, Before
  <2> QED
    BY <1>3, <1>4, <2>2, <2>3, TypeParts, PTL DEF PwmInv
<1>7. CASE FreeIrq
  <2>1. mpc = "live" /\ isr = "none" /\ ~handler' /\ mpc' = "stop" /\ UNCHANGED <<mapped, isr, phase>>
    BY <1>7 DEF FreeIrq
  <2>2. Places'
    BY <1>1, <1>2, <2>1 DEF Places, Mapped, Started, Before
  <2>3. Registers' /\ Handshake' /\ Silence'
    BY <1>1, <1>2, <2>1 DEF Registers, Handshake, Silence, Before, OldDuty, PhaseDuty
  <2> QED
    BY <1>3, <1>4, <2>2, <2>3, TypeParts, PTL DEF PwmInv
<1>8. CASE Unmap
  <2>1. mpc = "unmap" /\ ~mapped' /\ mpc' = "unloaded" /\ UNCHANGED <<handler, isr, phase>>
    BY <1>8 DEF Unmap
  <2>2. Places'
    BY <1>1, <1>2, <2>1 DEF Places, Before, Mapped, Started
  <2>3. Registers' /\ Handshake' /\ Silence'
    BY <1>1, <2>1 DEF Registers, Handshake, Silence, Places, Before
  <2> QED
    BY <1>3, <1>4, <2>2, <2>3, TypeParts, PTL DEF PwmInv
<1>9. CASE UNCHANGED pwmVars
  BY <1>9 DEF pwmVars, drvVars, PwmInv, PwmTypeOK, Places, Flags, Registers, Handshake, Rest, Active, Edge,
     Pending, Clearing, Answered, Still, Fresh, Shown, Silence, Loaded, OldDuty, PhaseDuty
<1> QED
  BY <1>5, <1>6, <1>7, <1>8, <1>9

(* The handler is entered by an interrupt that is up, or once too often.     *)
LEMMA HandlerEnters ==
  ASSUME PwmInv, IrqEnter
  PROVE  PwmInv'
<1> USE DEF hwVars, regVars, coreVars, levelVars
<1>1. /\ handler /\ interrupt /\ isr = "none" /\ isr' = "duty1" /\ mpc # "oops"
      /\ disturbed' = (disturbed \/ ~Uncleared)
      /\ UNCHANGED <<hwVars, mpc, handler, mapped, phase>>
  BY DEF IrqEnter
<1>2. HwType /\ DrvType /\ Places /\ Flags /\ Registers /\ Silence
  BY TypeParts DEF PwmInv
<1>3. mpc = "live"
  BY <1>1, <1>2 DEF Places, Silence
<1>4. HwType' /\ Flags' /\ DrvType'
  BY <1>1, <1>2 DEF HwType, Flags, DrvType, Uncleared
<1>5. Places' /\ Registers' /\ Silence'
  BY <1>1, <1>2, <1>3 DEF Places, Registers, Silence, Before, Started, OldDuty
<1>6. Handshake'
  <2>1. SUFFICES ASSUME ~disturbed' PROVE Pending'
    BY DEF Handshake
  <2>2. ~disturbed /\ irq /\ (clearPrev \/ ~clearCur)
    BY <1>1, <2>1 DEF Uncleared
  <2>3. Pending
    BY <1>1, <1>3, <2>2 DEF PwmInv, Handshake, Active, Edge, Clearing, Answered, Rest
  <2> QED
    BY <1>1, <2>3 DEF Pending, Still, Fresh, Loaded, OldDuty
<1> QED
  BY <1>4, <1>5, <1>6, TypeParts, PTL DEF PwmInv

-----------------------------------------------------------------------------
(* Every step keeps the invariant.                                          *)
LEMMA PwmStep == PwmInv /\ [PwmNext]_pwmVars => PwmInv'
<1> SUFFICES ASSUME PwmInv, [PwmNext]_pwmVars PROVE PwmInv'
  OBVIOUS
<1>1. CASE Clock
  <2>1. Cycle(NoWrite) /\ Tick(NoWrite) /\ UNCHANGED drvVars /\ NoWrite \in Writes
    BY <1>1 DEF Clock, Cycle, Writes
  <2>2. mpc' = "live" => Handshake'
    BY <1>1, <2>1, LiveClock DEF drvVars
  <2>3. disturbed' \in BOOLEAN /\ Sets(NoWrite) /\ UNCHANGED <<handler, mapped, isr, phase>>
    BY <2>1, DisturbedType DEF Sets, drvVars
  <2> QED
    BY <2>1, <2>2, <2>3, SettingSteps
<1>2. CASE RequestIrq \/ Ioremap \/ FreeIrq \/ Unmap \/ UNCHANGED pwmVars
  BY <1>2, QuietSteps
<1>3. CASE PwmInit
  <2>1. /\ Write("PERIOD", PWM_PERIOD) \in Writes /\ Write("CTRL", On) \in Writes
        /\ Write("DUTY1", SecondDuty["DUTY1"]) \in Writes
        /\ Write("DUTY2", SecondDuty["DUTY2"]) \in Writes
        /\ Write("DUTY3", SecondDuty["DUTY3"]) \in Writes
    BY DutiesAssumption DEF Writes, Legs
  <2>2. ASSUME NEW w \in Writes, NEW at, NEW next, InitWrite(at, w, next), next # "live",
               mpc = at /\ mpc' = next => Sets(w)
        PROVE  PwmInv'
    BY <2>2, DisturbedType, SettingSteps DEF InitWrite, Cycle
  <2>3. CASE InitWrite("period", Write("PERIOD", PWM_PERIOD), "duty1")
    BY <2>1, <2>2, <2>3 DEF Sets
  <2>4. CASE InitWrite("duty1", Write("DUTY1", SecondDuty["DUTY1"]), "duty2")
    BY <2>1, <2>2, <2>4 DEF Sets
  <2>5. CASE InitWrite("duty2", Write("DUTY2", SecondDuty["DUTY2"]), "duty3")
    BY <2>1, <2>2, <2>5 DEF Sets
  <2>6. CASE InitWrite("duty3", Write("DUTY3", SecondDuty["DUTY3"]), "ctrl")
    BY <2>1, <2>2, <2>6 DEF Sets
  <2>7. CASE StartCore
    <3>1. /\ Tick(Write("CTRL", On)) /\ Sets(Write("CTRL", On)) /\ disturbed' = TRUE
          /\ UNCHANGED <<handler, mapped, isr, phase>>
      BY <2>7 DEF StartCore, Sets, On
    <3> QED
      BY <2>1, <3>1, SettingSteps DEF Handshake
  <2> QED
    BY <1>3, <2>3, <2>4, <2>5, <2>6, <2>7 DEF PwmInit
<1>4. CASE CenterAlignedIrq
  BY <1>4, HandlerEnters, FirstDutyWrite, SecondDutyWrite, LastDutyWrite, ClearWrite DEF CenterAlignedIrq
<1>5. CASE StopPwm
  <2>1. /\ Cycle(Write("CTRL", {})) /\ Tick(Write("CTRL", {})) /\ Sets(Write("CTRL", {}))
        /\ mpc' = "unmap" /\ UNCHANGED <<handler, mapped, isr, phase>>
    BY <1>5 DEF StopPwm, Cycle, Sets
  <2> QED
    BY <2>1, DisturbedType, SettingSteps DEF Writes
<1> QED
  BY <1>1, <1>2, <1>3, <1>4, <1>5 DEF PwmNext, CenterAlignedExit

(* The invariant holds at power-up.                                         *)
LEMMA PwmStart == PwmInitState => PwmInv
<1> SUFFICES ASSUME PwmInitState PROVE PwmInv
  OBVIOUS
<1> USE DEF PwmInitState, HwInit
<1>1. 0 \in 0 .. (WordSize - 1) /\ 0 \in 0 .. PWM_PERIOD
  BY WordSizeAssumption, DutiesAssumption
<1>2. None \in [Legs -> 0 .. (WordSize - 1)] /\ None \in [Legs -> 0 .. PWM_PERIOD]
  BY <1>1 DEF None
<1>3. Low \in [Legs -> BOOLEAN]
  BY Zenon DEF Low
<1>4. HwType /\ DrvType
  BY <1>1, <1>2, <1>3 DEF HwType, DrvType
<1>5. Places /\ Flags /\ Registers /\ Handshake /\ Silence
  BY DEF Places, Flags, Registers, Handshake, Silence, Before, Mapped, Started
<1> QED
  BY <1>4, <1>5, TypeParts DEF PwmInv

(* Every step is an edge of the clock or leaves the core alone.              *)
LEMMA Ticks ==
  ASSUME PwmNext
  PROVE  UNCHANGED hwVars \/ \E w \in Writes : Tick(w)
<1>1. /\ SecondDuty["DUTY1"] \in 0 .. (WordSize - 1) /\ PhaseDuty["DUTY1"] \in 0 .. (WordSize - 1)
      /\ SecondDuty["DUTY2"] \in 0 .. (WordSize - 1) /\ PhaseDuty["DUTY2"] \in 0 .. (WordSize - 1)
      /\ SecondDuty["DUTY3"] \in 0 .. (WordSize - 1) /\ PhaseDuty["DUTY3"] \in 0 .. (WordSize - 1)
  BY DutiesAssumption DEF PhaseDuty, Legs
<1>2. CASE Clock \/ StopPwm \/ IrqClear
  BY <1>2 DEF Clock, StopPwm, IrqClear, Cycle, Writes
<1>3. CASE PwmInit
  BY <1>1, <1>3 DEF PwmInit, InitWrite, StartCore, Cycle, Writes, On, Legs
<1>4. CASE IrqWrite("duty1", "DUTY1", "duty2") \/ IrqWrite("duty2", "DUTY2", "duty3") \/ IrqLastDuty
  BY <1>1, <1>4 DEF IrqWrite, IrqLastDuty, Cycle, Writes, Legs
<1>5. CASE RequestIrq \/ Ioremap \/ IrqEnter \/ FreeIrq \/ Unmap
  BY <1>5 DEF RequestIrq, Ioremap, IrqEnter, FreeIrq, Unmap
<1> QED
  BY <1>2, <1>3, <1>4, <1>5 DEF PwmNext, CenterAlignedIrq, CenterAlignedExit

(* For every period and every two triples the registers of the core and the  *)
(* driver keep their types.                                                  *)
THEOREM PwmTypes == PwmSpec => []PwmTypeOK
<1>1. PwmInv => PwmTypeOK
  BY DEF PwmInv
<1> QED
  BY <1>1, PwmStart, PwmStep, PTL DEF PwmSpec

(* What an enabled core loads when a period ends, at whatever cycle the      *)
(* handler is: a whole triple, unless CenterAligned_Irq has then written one *)
(* or two of its three duty cycles (center-aligned.c, 87 to 110), and at     *)
(* each leg a pulse of one of the two triples even then.  Between two ends   *)
(* nothing is loaded.                                                        *)
THEOREM TriplesAreWhole == PwmSpec => WholeTriples
<1> DEFINE Goal ==
      "ENABLE" \in ctrl =>
        /\ ~Loads => Loaded' = Loaded
        /\ Loads /\ isr \notin {"duty2", "duty3"} =>
             Loaded' \in {Pulses(FirstDuty), Pulses(SecondDuty)}
        /\ Loads => \A i \in Legs : \E d \in {FirstDuty, SecondDuty} :
                      cm0'[i] = Pulses(d)[1][i] /\ cm1'[i] = Pulses(d)[2][i]
<1>1. PwmInv /\ [PwmNext]_pwmVars => [Goal]_pwmVars
  <2> SUFFICES ASSUME PwmInv, PwmNext, "ENABLE" \in ctrl
               PROVE  Goal
    OBVIOUS
  <2>1. /\ HwType /\ DrvType /\ Registers /\ count <= period /\ period = PWM_PERIOD
        /\ mpc \in {"live", "stop"} /\ (mpc # "live" => isr = "none")
    BY TypeParts DEF PwmInv, Places, Started
  <2>2. PeriodEnds <=> count = period
    BY <2>1, DutiesAssumption DEF HwType, PeriodEnds
  <2>3. CASE UNCHANGED hwVars
    <3>1. ~Loads
      BY <2>1, <2>2, <2>3, DutiesAssumption DEF hwVars, coreVars, Loads
    <3> QED
      BY <2>3, <3>1 DEF hwVars, coreVars, Loaded
  <2>4. ASSUME NEW w \in Writes, Tick(w)
        PROVE  Goal
    <3>1. CASE count # period
      <4>1. ~Loads /\ count < period
        BY <2>1, <2>2, <3>1, DutiesAssumption DEF Loads, HwType
      <4> QED
        BY <2>1, <2>4, <4>1, TickCounts DEF Loaded
    <3>2. CASE count = period
      <4>1. Loads /\ Loaded' = Pulses(duty)
        BY <2>1, <2>2, <2>4, <3>2, TickCounts, EndLoads DEF Loads
      <4>2. isr \notin {"duty2", "duty3"} => duty \in {FirstDuty, SecondDuty}
        BY <2>1 DEF Registers, OldDuty, DrvType
      <4>3. \A i \in Legs : \E d \in {FirstDuty, SecondDuty} : duty[i] = d[i]
        <5>1. CASE isr \notin {"duty2", "duty3"}
          BY <4>2, <5>1
        <5>2. CASE isr \in {"duty2", "duty3"}
          <6>1. PhaseDuty \in {FirstDuty, SecondDuty} /\ OldDuty \in {FirstDuty, SecondDuty}
            BY DEF PhaseDuty, OldDuty
          <6>2. OldDuty \in [Legs -> 0 .. (WordSize - 1)]
            BY <6>1, DutiesAssumption
          <6>3. \A i \in Legs : duty[i] = PhaseDuty[i] \/ duty[i] = OldDuty[i]
            BY <2>1, <5>2, <6>2 DEF Registers, Legs
          <6> QED
            BY <6>1, <6>3
        <5> QED
          BY <5>1, <5>2
      <4>4. cm0' = Pulses(duty)[1] /\ cm1' = Pulses(duty)[2]
        BY <4>1 DEF Loaded, Pulses
      <4>5. ASSUME NEW i \in Legs
            PROVE  \E d \in {FirstDuty, SecondDuty} :
                     cm0'[i] = Pulses(d)[1][i] /\ cm1'[i] = Pulses(d)[2][i]
        <5>1. PICK d \in {FirstDuty, SecondDuty} : duty[i] = d[i]
          BY <4>3
        <5>2. /\ Pulses(duty)[1][i] = SR0(duty[i], PWM_PERIOD, TRUE)
              /\ Pulses(duty)[2][i] = SR1(duty[i], PWM_PERIOD, TRUE)
          BY PulsesOfLeg
        <5>3. /\ Pulses(d)[1][i] = SR0(d[i], PWM_PERIOD, TRUE)
              /\ Pulses(d)[2][i] = SR1(d[i], PWM_PERIOD, TRUE)
          BY PulsesOfLeg
        <5>4. cm0'[i] = Pulses(d)[1][i] /\ cm1'[i] = Pulses(d)[2][i]
          <6> HIDE DEF Goal
          <6> QED BY ONLY <4>4, <5>1, <5>2, <5>3
        <5> QED
          BY <5>4
      <4> QED
        BY <4>1, <4>2, <4>5
    <3> QED
      BY <3>1, <3>2
  <2> QED
    BY <2>3, <2>4, Ticks
<1> QED
  BY <1>1, PwmStart, PwmStep, PTL DEF PwmSpec, WholeTriples

(* When does a period of a live core show the other triple?  Whenever it     *)
(* began undisturbed and its handler is done when it ends: however late the  *)
(* handler was, or how often it was called too often, in the periods before. *)
THEOREM TriplesAlternate == PwmSpec => Alternates
<1> DEFINE Goal == mpc = "live" /\ Loads /\ ~disturbed /\ ~HandlerDue =>
                     Loaded' = IF Loaded = Pulses(SecondDuty) THEN Pulses(FirstDuty) ELSE Pulses(SecondDuty)
<1>1. PwmInv /\ [PwmNext]_pwmVars => [Goal]_pwmVars
  <2> SUFFICES ASSUME PwmInv, PwmNext, mpc = "live", Loads, ~disturbed, ~HandlerDue
               PROVE  Goal
    OBVIOUS
  <2>1. /\ HwType /\ DrvType /\ Flags /\ Registers /\ Handshake
        /\ period = PWM_PERIOD /\ count = period /\ handler
    BY TypeParts, DutiesAssumption DEF PwmInv, Places, Started, HwType, PeriodEnds, Loads
  <2>2. ~UNCHANGED hwVars
    BY <2>1, DutiesAssumption DEF hwVars, coreVars, Loads
  <2>3. PICK w \in Writes : Tick(w)
    BY <2>2, Ticks
  <2>4. isr = "none" /\ ~Uncleared /\ duty = OldDuty
    BY <2>1 DEF HandlerDue, Registers
  <2>5. Still
    BY <2>1, DutiesAssumption DEF Flags, Still
  <2>6. Shown
    BY <2>1, <2>4, <2>5 DEF Handshake, Active, Edge, Pending, Clearing, Answered, Rest, Still, Uncleared
  <2>7. Loaded' = Pulses(OldDuty)
    BY <2>1, <2>3, <2>4, EndLoads
  <2> QED
    BY <2>1, <2>6, <2>7 DEF Shown, OldDuty, PhaseDuty, DrvType
<1> QED
  BY <1>1, PwmStart, PwmStep, PTL DEF PwmSpec, Alternates

(* CenterAligned_Irq is not called without its mapping, except for an        *)
(* interrupt that was up when the module was loaded.                         *)
THEOREM HandlerIsMapped == PwmSpec => []HandlerMapped
<1>1. PwmInv => HandlerMapped
  BY DEF PwmInv, HandlerMapped, Places, Silence, Before, Mapped
<1> QED
  BY <1>1, PwmStart, PwmStep, PTL DEF PwmSpec

(* Low outputs stay low while the module is not loaded and while a load goes *)
(* on, whatever the stopped core goes on counting and loading, and whatever  *)
(* Pwm_Init writes, up to the write that starts it (ThreePhasePwm.v, outputs *)
(* of PwmCenterAligned.v; CenterAligned_Init and CenterAligned_Exit).        *)
THEOREM StoppedCoreIsSilent == PwmSpec => StaysOff
<1>1. PwmInv /\ [PwmNext]_pwmVars =>
        [ Silent /\ mpc \notin {"live", "stop", "unmap"} => Silent' ]_pwmVars
  <2> SUFFICES ASSUME PwmInv, PwmNext, Silent, mpc \notin {"live", "stop", "unmap"}
               PROVE  Silent'
    OBVIOUS
  <2>1. pwm = Low /\ pwmLss = Low /\ pwmOut = Low /\ pwmOutLss = Low
    BY DEF Silent
  <2>2. ctrl = {}
    BY DEF PwmInv, Places
  <2>3. CASE UNCHANGED hwVars
    BY <2>1, <2>3 DEF hwVars, coreVars, levelVars, Silent, Low
  <2>4. ASSUME NEW w \in Writes, Tick(w) PROVE Silent'
    <3>1. Compare /\ OutputRegs
      BY <2>4 DEF Tick
    <3>2. pwm' = Low /\ pwmLss' = Low
      BY <2>2, <3>1 DEF Compare, Low
    <3>3. pwmOut' = Low /\ pwmOutLss' = Low
      BY <2>1, <3>1 DEF OutputRegs
    <3> QED
      BY <3>2, <3>3 DEF Silent, Low
  <2> QED
    BY <2>3, <2>4, Ticks
<1> QED
  BY <1>1, PwmStart, PwmStep, PTL DEF PwmSpec, StaysOff

(* What a duty cycle looks like at a leg: the pulse of a triple lies inside  *)
(* the period, as far from its middle to the left as to the right, and is as *)
(* long as the duty cycle, less one cycle if that is odd; a duty cycle       *)
(* beyond the period fills it; and of two legs' pulses the shorter lies      *)
(* within the longer (ThreePhasePwm.v, CM0 and CM1).                         *)
THEOREM PulsesAreCentred ==
  ASSUME NEW p \in Nat, NEW d \in Nat, NEW e \in Nat, d <= e
  PROVE  LET first(x) == SR0(x, p, TRUE)
             end(x)   == SR1(x, p, TRUE)
         IN  /\ first(d) \in Nat /\ first(d) <= end(d) /\ end(d) <= p
             /\ first(d) + end(d) = 2 * (p \div 2)
             /\ d < p => end(d) - first(d) = 2 * (d \div 2)
             /\ d >= p => end(d) - first(d) = 2 * (p \div 2)
             /\ first(e) <= first(d) /\ end(d) <= end(e)
  BY DEF SR0, SR1, DutyInternal
=============================================================================
