----------------------------- MODULE ThreePhasePwm -----------------------------
(***************************************************************************)
(* The three phase PWM core (src/HardwareLibraries/PwmCntAlign):           *)
(* ThreePhasePwm.v, a counter with compare registers that are loaded from  *)
(* the host's registers when a period ends; the register file and the      *)
(* interrupt level of PwmCenterAligned_slave_lite_v1_0_S00_AXI.v; and the  *)
(* output registers of PwmCenterAligned.v.                                 *)
(*                                                                         *)
(* Tick(w) is one rising edge of the clock at which the bus writes w, or   *)
(* nothing.  Address and data of a write arrive together and stay for one  *)
(* cycle; byte lanes, responses and the read channel are left out, and so  *)
(* is the plain storage of registers 6 and 7.                              *)
(***************************************************************************)
EXTENDS Integers

CONSTANTS
  WordSize      (* Values of a register: 2^32.                              *)

ASSUME WordSizeAssumption == WordSize \in Nat \ {0, 1}

VARIABLES
  period, duty, deadTime,   (* slv_reg0; 1 to 3; 5                          *)
  ctrl,                     (* slv_reg4: the bits that are set              *)
  clearPrev, clearCur       (* Interrupt_Clear_prev, Interrupt_Clear_cur    *)

VARIABLES
  count,
  cm0, cm1,                 (* Compare registers CM0_i, CM1_i               *)
  cm0Lss, cm1Lss,           (* Those of the low side                        *)
  pwm, pwmLss,
  interruptActive

VARIABLES
  statePrev, stateCur,      (* Interrupt_State_prev, Interrupt_State_cur    *)
  lvlState, irq,            (* Interrupt_LvlState, irq                      *)
  pwmOut, pwmOutLss,        (* Pwm_OutPort, Pwm_OutPort_LSS                 *)
  interrupt                 (* Interrupt                                    *)

regVars   == <<period, duty, deadTime, ctrl, clearPrev, clearCur>>
coreVars  == <<count, cm0, cm1, cm0Lss, cm1Lss, pwm, pwmLss, interruptActive>>
levelVars == <<statePrev, stateCur, lvlState, irq, pwmOut, pwmOutLss, interrupt>>
hwVars    == <<regVars, coreVars, levelVars>>

Legs == {"DUTY1", "DUTY2", "DUTY3"}    (* A leg is named by its duty register. *)
Bits == {"ENABLE", "CENTER_ALIGNED", "INTERRUPT_ENABLE", "DEADTIME_ENABLE"}
None == [i \in Legs |-> 0]
Low  == [i \in Legs |-> FALSE]

-----------------------------------------------------------------------------
(* What the compare registers are loaded with.                               *)

DutyInternal(d, p) == IF d < p THEN d ELSE p

Centred == "CENTER_ALIGNED" \in ctrl
SR0(d, p, centred) == IF centred THEN p \div 2 - DutyInternal(d, p) \div 2 ELSE 0
SR1(d, p, centred) == IF centred THEN p \div 2 + DutyInternal(d, p) \div 2 ELSE DutyInternal(d, p)

SR0Lss(d) == (IF d < deadTime THEN period + d - deadTime ELSE d - deadTime) % WordSize
SR1Lss(d) ==
  LET end == (d + deadTime) % WordSize
  IN  IF end > period THEN end - period ELSE end

-----------------------------------------------------------------------------
(* The processes, each reading the values before the edge.                   *)

NoWrite == [reg |-> "none"]

(* Seeded fault: a 0, not a 1, written to INTR clears the interrupt.         *)
RegisterWriteZeroClears(w) ==
  /\ period'   = IF w.reg = "PERIOD" THEN w.value ELSE period
  /\ duty'     = IF w.reg \in Legs THEN [duty EXCEPT ![w.reg] = w.value] ELSE duty
  /\ deadTime' = IF w.reg = "DEADTIME" THEN w.value ELSE deadTime
  /\ ctrl'     = IF w.reg = "CTRL" THEN w.value ELSE ctrl
  /\ clearPrev' = clearCur
  /\ clearCur' = (w.reg = "INTR" /\ w.value = 0)

(* The registers.  A write to INTR shifts its bit 0 into the clear detector; *)
(* a cycle without a write clears the detector.                              *)
RegisterWrite(w) ==
  /\ period'   = IF w.reg = "PERIOD" THEN w.value ELSE period
  /\ duty'     = IF w.reg \in Legs THEN [duty EXCEPT ![w.reg] = w.value] ELSE duty
  /\ deadTime' = IF w.reg = "DEADTIME" THEN w.value ELSE deadTime
  /\ ctrl'     = IF w.reg = "CTRL" THEN w.value ELSE ctrl
  /\ \/ w = NoWrite /\ clearPrev' = FALSE /\ clearCur' = FALSE
     \/ w.reg = "INTR" /\ clearPrev' = clearCur /\ clearCur' = (w.value = 1)
     \/ w.reg \notin {"none", "INTR"} /\ UNCHANGED <<clearPrev, clearCur>>

(* Seeded fault: one count too many.                                         *)
PeriodEndsLate == count > period

PeriodEnds == count >= period

(* Seeded fault: no shadowing, the compare registers follow the host.        *)
CountAndLoadDirect ==
  /\ count' = IF PeriodEnds THEN 0 ELSE count + 1
  /\ cm0' = [i \in Legs |-> SR0(duty[i], period, Centred)]
  /\ cm1' = [i \in Legs |-> SR1(duty[i], period, Centred)]
  /\ interruptActive' = (PeriodEnds /\ "INTERRUPT_ENABLE" \in ctrl)
  /\ UNCHANGED <<cm0Lss, cm1Lss>>

CountAndLoad ==
  IF PeriodEnds
    THEN /\ count' = 0
         /\ cm0' = [i \in Legs |-> SR0(duty[i], period, Centred)]
         /\ cm1' = [i \in Legs |-> SR1(duty[i], period, Centred)]
         /\ IF "DEADTIME_ENABLE" \in ctrl
              THEN /\ cm0Lss' = [i \in Legs |-> SR0Lss(duty[i])]
                   /\ cm1Lss' = [i \in Legs |-> SR1Lss(duty[i])]
              ELSE UNCHANGED <<cm0Lss, cm1Lss>>
         /\ interruptActive' = ("INTERRUPT_ENABLE" \in ctrl)
    ELSE /\ count' = count + 1
         /\ interruptActive' = FALSE
         /\ UNCHANGED <<cm0, cm1, cm0Lss, cm1Lss>>

(* Seeded fault: a disabled core keeps its outputs.                          *)
CompareHolds ==
  /\ pwm' = IF "ENABLE" \in ctrl THEN [i \in Legs |-> cm0[i] <= count /\ count < cm1[i]] ELSE pwm
  /\ UNCHANGED pwmLss

Compare ==
  /\ pwm' = [i \in Legs |-> "ENABLE" \in ctrl /\ cm0[i] <= count /\ count < cm1[i]]
  /\ pwmLss' = [i \in Legs |-> /\ {"ENABLE", "DEADTIME_ENABLE"} \subseteq ctrl
                               /\ ~(cm0Lss[i] <= count /\ count < cm1Lss[i])]

(* The rising edge of Interrupt_Active raises irq; the rising edge of the    *)
(* clear detector lowers it.  An edge of either in the other's state is lost.*)
InterruptLevel ==
  /\ statePrev' = stateCur
  /\ stateCur' = interruptActive
  /\ \/ /\ lvlState = "WAIT" /\ ~statePrev /\ stateCur
        /\ irq' = TRUE /\ lvlState' = "PENDING"
     \/ /\ lvlState = "PENDING" /\ ~clearPrev /\ clearCur
        /\ irq' = FALSE /\ lvlState' = "WAIT"
     \/ /\ ~(lvlState = "WAIT" /\ ~statePrev /\ stateCur)
        /\ ~(lvlState = "PENDING" /\ ~clearPrev /\ clearCur)
        /\ UNCHANGED <<irq, lvlState>>

OutputRegs == pwmOut' = pwm /\ pwmOutLss' = pwmLss /\ interrupt' = irq

Tick(w) == RegisterWrite(w) /\ CountAndLoad /\ Compare /\ InterruptLevel /\ OutputRegs

(* Power-up and reset.  Interrupt_Active has no reset value: it is 0 from    *)
(* the device's configuration, and a later reset is not modelled.            *)
HwInit ==
  /\ period = 0 /\ duty = None /\ deadTime = 0 /\ ctrl = {}
  /\ clearPrev = FALSE /\ clearCur = FALSE
  /\ count = 0 /\ cm0 = None /\ cm1 = None /\ cm0Lss = None /\ cm1Lss = None
  /\ pwm = Low /\ pwmLss = Low /\ interruptActive = FALSE
  /\ statePrev = FALSE /\ stateCur = FALSE /\ lvlState = "WAIT" /\ irq = FALSE
  /\ pwmOut = Low /\ pwmOutLss = Low /\ interrupt = FALSE
=============================================================================
