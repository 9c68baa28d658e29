-------------------------- MODULE MotorControl_proofs --------------------------
(***************************************************************************)
(* The ramp of motorcontrol.c for every period and step that fit together  *)
(* as RampAssumption says, and every word that holds the period.           *)
(***************************************************************************)
EXTENDS MotorControl, TLAPS

(* Where the thread is against what the module has done.                     *)
MotorInv ==
  /\ dutycycle \in 0 .. PWM_PERIOD /\ pwm_dir \in BOOLEAN
  /\ config \in {Unset} \cup 0 .. PWM_PERIOD /\ enabled \in BOOLEAN
  /\ held \in BOOLEAN /\ shouldStop \in BOOLEAN
  /\ mpc \in {"unloaded", "config", "enable", "thread", "live", "stop", "disable", "put", "oops"}
  /\ tpc \in {"none", "top", "ramp", "config", "ended"}
  /\ held <=> mpc # "unloaded"
  /\ mpc \in {"unloaded", "config", "enable", "thread", "disable", "put", "oops"} => tpc = "none"
  /\ mpc \in {"unloaded", "config", "enable", "put"} => ~enabled

(* A value below the word's limit is not changed by the wrap.                *)
LEMMA NoWrap == ASSUME NEW v \in 0 .. PWM_PERIOD PROVE v % WordSize = v
  BY RampAssumption

(* One turn of the ramp, from anywhere in the range and in either direction. *)
LEMMA RampInRange ==
  ASSUME MotorInv, Ramp
  PROVE  dutycycle' \in 0 .. PWM_PERIOD /\ pwm_dir' \in BOOLEAN
<1> DEFINE next == IF pwm_dir' THEN dutycycle + PWM_STEP ELSE dutycycle - PWM_STEP
<1>1. pwm_dir' = IF dutycycle > PWM_MAX THEN FALSE ELSE IF dutycycle < PWM_MIN THEN TRUE ELSE pwm_dir
  BY DEF Ramp
<1>2. pwm_dir' \in BOOLEAN
  BY <1>1 DEF MotorInv
<1>3. next \in 0 .. PWM_PERIOD
  BY <1>1, <1>2, RampAssumption DEF MotorInv
<1>4. dutycycle' = next % WordSize
  BY DEF Ramp
<1> QED
  BY <1>2, <1>3, <1>4, NoWrap

(* It holds when nothing is loaded yet.                                     *)
LEMMA MotorStart == MotorInit => MotorInv
<1>1. 0 \in 0 .. PWM_PERIOD
  BY RampAssumption
<1> QED
  BY <1>1 DEF MotorInit, MotorInv, Unset

(* Every step keeps the invariant.                                          *)
LEMMA MotorStep == MotorInv /\ [MotorNext]_motorVars => MotorInv'
<1> SUFFICES ASSUME MotorInv, [MotorNext]_motorVars PROVE MotorInv'
  OBVIOUS
<1> USE DEF Unset
<1>1. CASE \E ok \in BOOLEAN : PwmGet(ok)
  <2>1. 0 \in 0 .. PWM_PERIOD
    BY RampAssumption
  <2>2. /\ mpc = "unloaded" /\ tpc' = tpc /\ config' = config /\ enabled' = enabled
        /\ dutycycle' = 0 /\ pwm_dir' = TRUE /\ shouldStop' = FALSE
        /\ (mpc' = "config" /\ held' = TRUE) \/ (mpc' = "unloaded" /\ held' = FALSE)
    BY <1>1 DEF PwmGet
  <2> QED
    BY <2>1, <2>2 DEF MotorInv
<1>2. CASE \E ok \in BOOLEAN : StartThread(ok)
  BY <1>2 DEF StartThread, MotorInv, pwmVars
<1>12. CASE \E ok \in BOOLEAN : PwmEnable(ok)
  BY <1>12 DEF PwmEnable, MotorInv, threadVars
<1>3. CASE \E ok \in BOOLEAN : InitConfig(ok)
  <2>1. PWM_PERIOD \div 2 \in 0 .. PWM_PERIOD
    BY RampAssumption
  <2> QED
    BY <1>3, <2>1 DEF InitConfig, MotorInv, threadVars
<1>4. CASE StopThread
  BY <1>4 DEF StopThread, MotorInv, threadVars, pwmVars
<1>5. CASE ThreadStopped
  BY <1>5 DEF ThreadStopped, MotorInv, pwmVars
<1>6. CASE PwmDisable
  BY <1>6 DEF PwmDisable, MotorInv, threadVars
<1>7. CASE PwmPut
  BY <1>7 DEF PwmPut, MotorInv, threadVars
<1>8. CASE ThreadTop
  BY <1>8 DEF ThreadTop, MotorInv, pwmVars
<1>9. CASE Ramp
  BY <1>9, RampInRange DEF Ramp, MotorInv, pwmVars
<1>10. CASE \E ok \in BOOLEAN : PwmConfig(ok)
  BY <1>10 DEF PwmConfig, MotorInv
<1>11. CASE UNCHANGED motorVars
  BY <1>11 DEF motorVars, threadVars, pwmVars, MotorInv
<1> QED
  BY <1>1, <1>2, <1>3, <1>4, <1>5, <1>6, <1>7, <1>8, <1>9, <1>10, <1>11, <1>12
  DEF MotorNext, Module, Thread

(* The duty cycle stays between 0 and the period, although the limits are    *)
(* compared before the step is taken, and the thread lives only while the    *)
(* module holds the PWM (motorcontrol.c, ledControlThread and exit).         *)
THEOREM RampStaysInRange == MotorSpec => []DutyInRange
<1>1. MotorInv => DutyInRange
  BY DEF MotorInv, DutyInRange
<1> QED
  BY <1>1, MotorStart, MotorStep, PTL DEF MotorSpec

-----------------------------------------------------------------------------
(* The ramp is a saw that reaches both ends.                                 *)

Whole(x) == \E k \in Nat : x = k * PWM_STEP

(* Between two multiples of the step there is no other.                      *)
LEMMA Multiples ==
  ASSUME NEW x \in Nat, NEW y \in Nat, Whole(x), Whole(y), x < y
  PROVE  x + PWM_STEP <= y
<1>1. PICK k \in Nat : x = k * PWM_STEP
  BY DEF Whole
<1>2. PICK l \in Nat : y = l * PWM_STEP
  BY DEF Whole
<1>3. PWM_STEP \in Nat
  BY RampAssumption
<1>4. k < l
  <2> SUFFICES ASSUME l <= k PROVE FALSE
    OBVIOUS
  <2>1. l * PWM_STEP <= k * PWM_STEP
    BY <1>3
  <2> QED
    BY <1>1, <1>2, <2>1
<1>5. (k + 1) * PWM_STEP <= l * PWM_STEP
  BY <1>3, <1>4
<1>6. (k + 1) * PWM_STEP = k * PWM_STEP + PWM_STEP
  BY <1>3
<1> QED
  BY <1>1, <1>2, <1>5, <1>6

(* A step up or down leads from one multiple to another.                     *)
LEMMA NextMultiple ==
  ASSUME NEW x \in Nat, Whole(x)
  PROVE  Whole(x + PWM_STEP) /\ (x >= PWM_STEP => Whole(x - PWM_STEP))
<1>1. PICK k \in Nat : x = k * PWM_STEP
  BY DEF Whole
<1>2. PWM_STEP \in Nat \ {0}
  BY RampAssumption
<1>3. x + PWM_STEP = (k + 1) * PWM_STEP
  BY <1>1, <1>2
<1>4. ASSUME x >= PWM_STEP PROVE k >= 1
  BY <1>1, <1>2, <1>4
<1>5. ASSUME x >= PWM_STEP PROVE k - 1 \in Nat /\ x - PWM_STEP = (k - 1) * PWM_STEP
  BY <1>1, <1>2, <1>4, <1>5
<1> QED
  BY <1>3, <1>5 DEF Whole

RampIsSaw ==
  [][ Ramp => /\ dutycycle' = IF pwm_dir' THEN dutycycle + PWM_STEP ELSE dutycycle - PWM_STEP
              /\ pwm_dir' # pwm_dir => dutycycle = IF pwm_dir THEN PWM_PERIOD ELSE 0 ]_motorVars

(* If the step divides the period, as the code's does, ledControlThread      *)
(* turns at the period and at 0 exactly, and on the way between them every   *)
(* turn of its loop moves the duty cycle by one step: the sum never wraps,   *)
(* and no end is turned round at without having been reached.  This is the   *)
(* safety half of SweepsForever.                                             *)
THEOREM RampReachesBothEnds ==
  ASSUME Whole(PWM_PERIOD)
  PROVE  MotorSpec => RampIsSaw
<1> DEFINE I == MotorInv /\ Whole(dutycycle)
<1>1. MotorInit => I
  <2>1. 0 = 0 * PWM_STEP
    BY RampAssumption
  <2> QED
    BY <2>1, MotorStart DEF MotorInit, Whole
<1>2. ASSUME MotorInv, Whole(dutycycle), Ramp
      PROVE  /\ dutycycle' = IF pwm_dir' THEN dutycycle + PWM_STEP ELSE dutycycle - PWM_STEP
             /\ pwm_dir' # pwm_dir => dutycycle = IF pwm_dir THEN PWM_PERIOD ELSE 0
             /\ Whole(dutycycle')
  <2>1. /\ dutycycle \in 0 .. PWM_PERIOD /\ pwm_dir \in BOOLEAN /\ PWM_PERIOD \in Nat
        /\ PWM_STEP \in Nat \ {0} /\ 2 * PWM_STEP <= PWM_PERIOD /\ PWM_MIN = PWM_STEP
        /\ PWM_MAX = PWM_PERIOD - PWM_STEP
    BY <1>2, RampAssumption DEF MotorInv
  <2>2. pwm_dir' = IF dutycycle > PWM_MAX THEN FALSE ELSE IF dutycycle < PWM_MIN THEN TRUE ELSE pwm_dir
    BY <1>2 DEF Ramp
  <2>3. dutycycle' = IF pwm_dir' THEN dutycycle + PWM_STEP ELSE dutycycle - PWM_STEP
    <3> DEFINE next == IF pwm_dir' THEN dutycycle + PWM_STEP ELSE dutycycle - PWM_STEP
    <3>1. next \in 0 .. PWM_PERIOD
      BY <2>1, <2>2
    <3>2. dutycycle' = next % WordSize
      BY <1>2 DEF Ramp
    <3> QED
      BY <3>1, <3>2, NoWrap
  <2>4. dutycycle > PWM_MAX => dutycycle = PWM_PERIOD
    <3>1. dutycycle < PWM_PERIOD => dutycycle + PWM_STEP <= PWM_PERIOD
      BY <1>2, <2>1, Multiples
    <3> QED
      BY <2>1, <3>1
  <2>5. dutycycle < PWM_MIN => dutycycle = 0
    <3>1. Whole(0)
      <4>1. 0 = 0 * PWM_STEP
        BY <2>1
      <4> QED
        BY <4>1 DEF Whole
    <3>2. 0 < dutycycle => 0 + PWM_STEP <= dutycycle
      BY <1>2, <2>1, <3>1, Multiples
    <3> QED
      BY <2>1, <3>2
  <2>6. pwm_dir' # pwm_dir => dutycycle = IF pwm_dir THEN PWM_PERIOD ELSE 0
    BY <2>1, <2>2, <2>4, <2>5
  <2>7. Whole(dutycycle + PWM_STEP) /\ (dutycycle >= PWM_STEP => Whole(dutycycle - PWM_STEP))
    BY <1>2, <2>1, NextMultiple
  <2>8. ~pwm_dir' => dutycycle >= PWM_STEP
    BY <2>1, <2>2
  <2> QED
    BY <2>3, <2>6, <2>7, <2>8
<1>3. I /\ [MotorNext]_motorVars => I'
  <2> SUFFICES ASSUME MotorInv, Whole(dutycycle), [MotorNext]_motorVars PROVE I'
    OBVIOUS
  <2>1. MotorInv'
    BY MotorStep
  <2>2. CASE Ramp
    BY <1>2, <2>1, <2>2
  <2>3. CASE ~Ramp
    <3>1. dutycycle' = dutycycle \/ dutycycle' = 0
      BY <2>3 DEF MotorNext, Module, Thread, PwmGet, StartThread, InitConfig, PwmEnable, StopThread, ThreadStopped,
         PwmDisable, PwmPut, ThreadTop, PwmConfig, motorVars, threadVars
    <3>2. 0 = 0 * PWM_STEP
      BY RampAssumption
    <3> QED
      BY <2>1, <3>1, <3>2 DEF Whole
  <2> QED
    BY <2>2, <2>3
<1>4. I /\ [MotorNext]_motorVars =>
        [ Ramp => /\ dutycycle' = IF pwm_dir' THEN dutycycle + PWM_STEP ELSE dutycycle - PWM_STEP
                  /\ pwm_dir' # pwm_dir => dutycycle = IF pwm_dir THEN PWM_PERIOD ELSE 0 ]_motorVars
  BY <1>2
<1> QED
  BY <1>1, <1>3, <1>4, PTL DEF MotorSpec, RampIsSaw
=============================================================================
