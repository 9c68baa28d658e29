----------------------------- MODULE CenterAligned -----------------------------
(***************************************************************************)
(* The kernel module center-aligned                                        *)
(* (src/KernelModules/center-aligned/files/center-aligned.c) driving the   *)
(* core of ThreePhasePwm: it loads a period and three duty cycles, starts  *)
(* the core, and at the interrupt that ends each period its handler writes *)
(* the duty cycles of the other of two phases.  center_aligned_thread is   *)
(* never started by the code and is left out.                              *)
(*                                                                         *)
(* The clock and the CPU run side by side: a cycle carries at most one     *)
(* write, and any number of cycles may pass between two writes, so that    *)
(* the handler can be late by any number of periods.  The core is followed *)
(* from power-up through any number of loadings and unloadings.            *)
(***************************************************************************)
EXTENDS ThreePhasePwm

CONSTANTS
  PWM_PERIOD,               (* 50000 in the code                            *)
  SecondDuty, FirstDuty     (* The triples of SECOND_PHASE and Pwm_Init,    *)
                            (* and of FIRST_PHASE                           *)

ASSUME DutiesAssumption ==
  /\ PWM_PERIOD \in Nat /\ PWM_PERIOD >= 8 /\ PWM_PERIOD < WordSize
  /\ SecondDuty \in [Legs -> 0 .. (WordSize - 1)]
  /\ FirstDuty \in [Legs -> 0 .. (WordSize - 1)]

VARIABLES
  mpc,          (* Where the module's init or exit is                       *)
  handler,      (* CenterAligned_Irq is installed                           *)
  mapped,       (* CenterAligned_base is a mapping                          *)
  isr,          (* Where CenterAligned_Irq is                               *)
  phase         (* CenterAligned_State                                      *)

VARIABLES
  disturbed     (* History: the running period began with the handler of    *)
                (* the last one unfinished, or the handler was taken again  *)
                (* in it although it had cleared the interrupt, or the core *)
                (* was started in it                                        *)

drvVars == <<mpc, handler, mapped, isr, phase>>
pwmVars == <<hwVars, drvVars, disturbed>>

Write(reg, value) == [reg |-> reg, value |-> value]

-----------------------------------------------------------------------------
(* The clock.  Nothing makes the handler's writes come before the period     *)
(* they belong to ends (500 us at the core's 100 MHz): Linux does not        *)
(* promise it, and the handler itself calls pr_info.                         *)

(* The interrupt is up and no clear is about to take it down.                *)
Uncleared == irq /\ (clearPrev \/ ~clearCur)

(* The handler is at work, or has one to take.                               *)
HandlerDue == isr # "none" \/ (handler /\ Uncleared)

Cycle(w) ==
  /\ Tick(w)
  /\ disturbed' = IF PeriodEnds THEN HandlerDue ELSE disturbed

Clock == Cycle(NoWrite) /\ UNCHANGED drvVars

-----------------------------------------------------------------------------
(* CenterAligned_Init.                                                       *)

Pulses(d) ==
  << [i \in Legs |-> SR0(d[i], PWM_PERIOD, TRUE)], [i \in Legs |-> SR1(d[i], PWM_PERIOD, TRUE)] >>
Loaded == <<cm0, cm1>>

(* To unload the module and load it again takes longer than an interrupt     *)
(* takes through the core's flip-flops, three cycles.                        *)
Settled == ~interruptActive /\ ~stateCur /\ (interrupt <=> irq)

(* The handler comes first.  An interrupt that is up already calls it on the *)
(* spot, without a mapping.  An init that fails earlier changes nothing.     *)
RequestIrq ==
  /\ mpc = "unloaded" /\ Settled
  /\ handler' = TRUE /\ phase' = "FIRST_PHASE"
  /\ mpc' = IF interrupt THEN "oops" ELSE "map"
  /\ UNCHANGED <<hwVars, mapped, isr, disturbed>>

(* When this fails, the handler is left behind.                              *)
Ioremap ==
  /\ mpc = "map"
  /\ \/ mapped' = TRUE /\ mpc' = "period"
     \/ mapped' = FALSE /\ mpc' = "failed"
  /\ UNCHANGED <<hwVars, handler, isr, phase, disturbed>>

InitWrite(at, w, next) ==
  /\ mpc = at
  /\ Cycle(w)
  /\ mpc' = next
  /\ UNCHANGED <<handler, mapped, isr, phase>>

(* The last write starts the core, wherever its count is.                    *)
StartCore ==
  /\ mpc = "ctrl"
  /\ Tick(Write("CTRL", {"ENABLE", "CENTER_ALIGNED", "INTERRUPT_ENABLE"}))
  /\ disturbed' = TRUE
  /\ mpc' = "live"
  /\ UNCHANGED <<handler, mapped, isr, phase>>

PwmInit ==
  \/ InitWrite("period", Write("PERIOD", PWM_PERIOD), "duty1")
  \/ InitWrite("duty1", Write("DUTY1", SecondDuty["DUTY1"]), "duty2")
  \/ InitWrite("duty2", Write("DUTY2", SecondDuty["DUTY2"]), "duty3")
  \/ InitWrite("duty3", Write("DUTY3", SecondDuty["DUTY3"]), "ctrl")
  \/ StartCore

-----------------------------------------------------------------------------
(* CenterAligned_Irq.                                                        *)

(* The write that clears is posted, nothing reads it back, and the line      *)
(* follows it two cycles later: the handler can be called again before.      *)
IrqEnter ==
  /\ handler /\ interrupt /\ mpc # "oops"
  /\ isr = "none"
  /\ isr' = "duty1"
  /\ disturbed' = (disturbed \/ ~Uncleared)
  /\ UNCHANGED <<hwVars, mpc, handler, mapped, phase>>

PhaseDuty == IF phase = "FIRST_PHASE" THEN FirstDuty ELSE SecondDuty

IrqWrite(at, leg, next) ==
  /\ isr = at
  /\ Cycle(Write(leg, PhaseDuty[leg]))
  /\ isr' = next
  /\ UNCHANGED <<mpc, handler, mapped, phase>>

(* Seeded fault: the phase stays.                                            *)
IrqLastDutyKeepsPhase ==
  /\ isr = "duty3"
  /\ Cycle(Write("DUTY3", PhaseDuty["DUTY3"]))
  /\ isr' = "clear"
  /\ UNCHANGED <<mpc, handler, mapped, phase>>

(* The last write of the duty cycles, and the change of phase.               *)
IrqLastDuty ==
  /\ isr = "duty3"
  /\ Cycle(Write("DUTY3", PhaseDuty["DUTY3"]))
  /\ phase' = IF phase = "FIRST_PHASE" THEN "SECOND_PHASE" ELSE "FIRST_PHASE"
  /\ isr' = "clear"
  /\ UNCHANGED <<mpc, handler, mapped>>

(* status | 1 to INTR, and the end of the handler.                           *)
IrqClear ==
  /\ isr = "clear"
  /\ Cycle(Write("INTR", 1))
  /\ isr' = "none"
  /\ UNCHANGED <<mpc, handler, mapped, phase>>

CenterAlignedIrq ==
  \/ IrqEnter
  \/ IrqWrite("duty1", "DUTY1", "duty2")
  \/ IrqWrite("duty2", "DUTY2", "duty3")
  \/ IrqLastDuty
  \/ IrqClear

-----------------------------------------------------------------------------
(* CenterAligned_Exit.  free_irq waits for a handler that runs.              *)

(* Seeded fault: the registers are unmapped and the handler stays.           *)
FreeIrqUnmaps ==
  /\ mpc = "live"
  /\ isr = "none"
  /\ mapped' = FALSE
  /\ mpc' = "stop"
  /\ UNCHANGED <<hwVars, handler, isr, phase, disturbed>>

FreeIrq ==
  /\ mpc = "live"
  /\ isr = "none"
  /\ handler' = FALSE
  /\ mpc' = "stop"
  /\ UNCHANGED <<hwVars, mapped, isr, phase, disturbed>>

StopPwm ==
  /\ mpc = "stop"
  /\ Cycle(Write("CTRL", {}))
  /\ mpc' = "unmap"
  /\ UNCHANGED <<handler, mapped, isr, phase>>

Unmap ==
  /\ mpc = "unmap"
  /\ mapped' = FALSE
  /\ mpc' = "unloaded"
  /\ UNCHANGED <<hwVars, handler, isr, phase, disturbed>>

CenterAlignedExit == FreeIrq \/ StopPwm \/ Unmap

-----------------------------------------------------------------------------
PwmInitState ==
  /\ HwInit
  /\ mpc = "unloaded" /\ handler = FALSE /\ mapped = FALSE
  /\ isr = "none" /\ phase = "FIRST_PHASE"
  /\ disturbed = FALSE

PwmNext == Clock \/ RequestIrq \/ Ioremap \/ PwmInit \/ CenterAlignedIrq \/ CenterAlignedExit

PwmSpec == PwmInitState /\ [][PwmNext]_pwmVars

(* The clock runs and the CPU does what it has begun; nobody has to load or  *)
(* to unload.                                                                *)
PwmFairSpec ==
  /\ PwmSpec
  /\ WF_pwmVars(Clock)
  /\ WF_pwmVars(Ioremap) /\ WF_pwmVars(PwmInit) /\ WF_pwmVars(CenterAlignedIrq)
  /\ WF_pwmVars(StopPwm) /\ WF_pwmVars(Unmap)

-----------------------------------------------------------------------------
PwmTypeOK ==
  /\ period \in {0, PWM_PERIOD} /\ deadTime = 0 /\ ctrl \subseteq Bits
  /\ duty \in [Legs -> 0 .. (WordSize - 1)]
  /\ {clearPrev, clearCur, interruptActive, statePrev, stateCur, irq, interrupt} \subseteq BOOLEAN
  /\ count \in 0 .. PWM_PERIOD
  /\ {cm0, cm1, cm0Lss, cm1Lss} \subseteq [Legs -> 0 .. PWM_PERIOD]
  /\ {pwm, pwmLss, pwmOut, pwmOutLss} \subseteq [Legs -> BOOLEAN]
  /\ lvlState \in {"WAIT", "PENDING"}
  /\ mpc \in {"unloaded", "map", "failed", "period", "duty1", "duty2", "duty3", "ctrl",
              "live", "stop", "unmap", "oops"}
  /\ handler \in BOOLEAN /\ mapped \in BOOLEAN
  /\ isr \in {"none", "duty1", "duty2", "duty3", "clear"}
  /\ phase \in {"FIRST_PHASE", "SECOND_PHASE"}
  /\ disturbed \in BOOLEAN

(* The three legs show duty cycles that belong together, although each is    *)
(* written on its own, from the start and from the handler: what an enabled  *)
(* core loads at the end of a period is the centred pulses of one triple,    *)
(* unless the period ends between the handler's first and third write.  Then *)
(* it is a mixture, each leg of one of the two, and only for one period if   *)
(* the handler is done by the next end.                                      *)
Loads == PeriodEnds /\ count' = 0
WholeTriples ==
  [][ "ENABLE" \in ctrl =>
        /\ ~Loads => Loaded' = Loaded
        /\ Loads /\ isr \notin {"duty2", "duty3"} =>
             Loaded' \in {Pulses(FirstDuty), Pulses(SecondDuty)}
        /\ Loads => \A i \in Legs : \E d \in {FirstDuty, SecondDuty} :
                      cm0'[i] = Pulses(d)[1][i] /\ cm1'[i] = Pulses(d)[2][i] ]_pwmVars

(* Every period shows the other triple, unless it was disturbed or its own   *)
(* handler is not done when it ends.  So the edge detectors lose or repeat   *)
(* an interrupt for no other reason, and one handler that is late, or that   *)
(* was called once too often, does no harm beyond the periods it fell into.  *)
Alternates ==
  [][ mpc = "live" /\ Loads /\ ~disturbed /\ ~HandlerDue =>
        Loaded' = IF Loaded = Pulses(SecondDuty) THEN Pulses(FirstDuty) ELSE Pulses(SecondDuty) ]_pwmVars

(* CenterAligned_Irq, which is installed before the registers are mapped and *)
(* removed before the core is stopped, is not called without the mapping,    *)
(* unless an interrupt of the last life of the module waits for it.          *)
HandlerMapped == isr # "none" \/ (handler /\ interrupt) => mapped \/ mpc = "oops"

(* The interrupt line does not stay up: each interrupt is answered, as long  *)
(* as the handler is installed.                                              *)
IrqAnswered == interrupt ~> (~interrupt \/ ~handler \/ mpc = "oops")

(* After an unload the outputs go low, also when the core is stopped while   *)
(* one rises, and stay low until the next load has started the core.         *)
Silent == {pwm, pwmLss, pwmOut, pwmOutLss} = {Low}
StaysOff == [][ Silent /\ mpc \notin {"live", "stop", "unmap"} => Silent' ]_pwmVars
OffAfterExit == (mpc = "unloaded" ~> Silent) /\ StaysOff
=============================================================================
