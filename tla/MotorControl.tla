----------------------------- MODULE MotorControl -----------------------------
(***************************************************************************)
(* The kernel module motorcontrol                                          *)
(* (src/KernelModules/motorcontrol/files/motorcontrol.c): it takes a PWM,  *)
(* and a kernel thread moves the duty cycle up and down, one step every    *)
(* 100 ms, until the module is unloaded.  No result of pwm_config,         *)
(* pwm_enable or kthread_run is looked at: each may fail, and init and     *)
(* thread go on.                                                           *)
(***************************************************************************)
EXTENDS Integers

CONSTANTS
  PWM_PERIOD, PWM_STEP, PWM_MAX, PWM_MIN,
  WordSize      (* Values of a uint32_t: 2^32 in the code                   *)

ASSUME RampAssumption ==
  /\ PWM_STEP \in Nat \ {0} /\ PWM_PERIOD \in Nat /\ WordSize \in Nat
  /\ PWM_MIN = PWM_STEP /\ PWM_MAX = PWM_PERIOD - PWM_STEP
  /\ 2 * PWM_STEP <= PWM_PERIOD /\ PWM_PERIOD < WordSize

VARIABLES
  mpc,          (* Where the module's init or exit is                       *)
  tpc,          (* Where ledControlThread is; "none": there is no thread    *)
  shouldStop,   (* kthread_should_stop                                      *)
  dutycycle,
  pwm_dir,
  held,         (* Pwm0 is ours: between pwm_get and pwm_put                *)
  config,       (* The duty cycle the PWM framework has; Unset at first     *)
  enabled       (* Does it drive the pin?                                   *)

threadVars == <<tpc, dutycycle, pwm_dir>>
pwmVars == <<held, config, enabled>>
motorVars == <<mpc, shouldStop, threadVars, pwmVars>>

Unset == -1

(* What the pin shows.                                                       *)
Shows(d) == enabled /\ config = d

-----------------------------------------------------------------------------
(* motorcontrol_init.  A load starts from the static initialisers.           *)

PwmGet(ok) ==
  /\ mpc = "unloaded"
  /\ mpc' = IF ok THEN "config" ELSE "unloaded"
  /\ held' = ok
  /\ dutycycle' = 0 /\ pwm_dir' = TRUE /\ shouldStop' = FALSE
  /\ UNCHANGED <<tpc, config, enabled>>

(* pwm_config, half of the period.                                           *)
InitConfig(ok) ==
  /\ mpc = "config"
  /\ mpc' = "enable"
  /\ config' = IF ok THEN PWM_PERIOD \div 2 ELSE config
  /\ UNCHANGED <<shouldStop, threadVars, held, enabled>>

(* pwm_enable, which the framework refuses without a period.                 *)
PwmEnable(ok) ==
  /\ mpc = "enable"
  /\ ok => config # Unset
  /\ mpc' = "thread"
  /\ enabled' = ok
  /\ UNCHANGED <<shouldStop, threadVars, held, config>>

(* kthread_run; its result is not looked at.                                 *)
StartThread(ok) ==
  /\ mpc = "thread"
  /\ mpc' = "live"
  /\ tpc' = IF ok THEN "top" ELSE "none"
  /\ UNCHANGED <<shouldStop, dutycycle, pwm_dir, pwmVars>>

-----------------------------------------------------------------------------
(* ledControlThread.                                                         *)

ThreadTop ==
  /\ tpc = "top"
  /\ tpc' = IF shouldStop THEN "ended" ELSE "ramp"
  /\ UNCHANGED <<mpc, shouldStop, dutycycle, pwm_dir, pwmVars>>

(* Seeded faults: it turns round only at the full period; it never turns     *)
(* back up.                                                                  *)
RampLate ==
  /\ tpc = "ramp"
  /\ pwm_dir' = IF dutycycle > PWM_PERIOD THEN FALSE ELSE IF dutycycle < PWM_MIN THEN TRUE ELSE pwm_dir
  /\ dutycycle' = (IF pwm_dir' THEN dutycycle + PWM_STEP ELSE dutycycle - PWM_STEP) % WordSize
  /\ tpc' = "config"
  /\ UNCHANGED <<mpc, shouldStop, pwmVars>>

RampSticks ==
  /\ tpc = "ramp"
  /\ pwm_dir' = (pwm_dir /\ dutycycle <= PWM_MAX)
  /\ dutycycle' = IF pwm_dir' THEN dutycycle + PWM_STEP
                  ELSE IF dutycycle < PWM_MIN THEN dutycycle ELSE dutycycle - PWM_STEP
  /\ tpc' = "config"
  /\ UNCHANGED <<mpc, shouldStop, pwmVars>>

Ramp ==
  /\ tpc = "ramp"
  /\ pwm_dir' = IF dutycycle > PWM_MAX THEN FALSE ELSE IF dutycycle < PWM_MIN THEN TRUE ELSE pwm_dir
  /\ dutycycle' = (IF pwm_dir' THEN dutycycle + PWM_STEP ELSE dutycycle - PWM_STEP) % WordSize
  /\ tpc' = "config"
  /\ UNCHANGED <<mpc, shouldStop, pwmVars>>

(* pwm_config, which refuses a duty cycle beyond the period; msleep.         *)
PwmConfig(ok) ==
  /\ tpc = "config"
  /\ tpc' = "top"
  /\ ok => dutycycle <= PWM_PERIOD
  /\ config' = IF ok THEN dutycycle ELSE config
  /\ UNCHANGED <<mpc, shouldStop, dutycycle, pwm_dir, held, enabled>>

Thread == ThreadTop \/ Ramp \/ \E ok \in BOOLEAN : PwmConfig(ok)

-----------------------------------------------------------------------------
(* motorcontrol_exit.                                                        *)

(* kthread_stop, first half; when kthread_run had failed it is given an      *)
(* error value and the kernel stops here.                                    *)
StopThread ==
  /\ mpc = "live"
  /\ mpc' = IF tpc = "none" THEN "oops" ELSE "stop"
  /\ shouldStop' = TRUE
  /\ UNCHANGED <<threadVars, pwmVars>>

(* Second half: it waits for the thread to return.                           *)
ThreadStopped ==
  /\ mpc = "stop" /\ tpc = "ended"
  /\ mpc' = "disable" /\ tpc' = "none"
  /\ UNCHANGED <<shouldStop, dutycycle, pwm_dir, pwmVars>>

PwmDisable ==
  /\ mpc = "disable"
  /\ mpc' = "put"
  /\ enabled' = FALSE
  /\ UNCHANGED <<shouldStop, threadVars, held, config>>

PwmPut ==
  /\ mpc = "put"
  /\ mpc' = "unloaded"
  /\ held' = FALSE
  /\ UNCHANGED <<shouldStop, threadVars, config, enabled>>

Module ==
  \/ \E ok \in BOOLEAN : PwmGet(ok) \/ InitConfig(ok) \/ PwmEnable(ok) \/ StartThread(ok)
  \/ StopThread \/ ThreadStopped \/ PwmDisable \/ PwmPut

-----------------------------------------------------------------------------
MotorInit ==
  /\ mpc = "unloaded" /\ tpc = "none" /\ shouldStop = FALSE
  /\ dutycycle = 0 /\ pwm_dir = TRUE
  /\ held = FALSE /\ config = Unset /\ enabled = FALSE

MotorNext == Module \/ Thread

MotorSpec == MotorInit /\ [][MotorNext]_motorVars

(* The kernel schedules the thread.                                          *)
MotorFairSpec == MotorSpec /\ WF_motorVars(Thread)

-----------------------------------------------------------------------------
(* The ramp compares before it steps, so the duty cycle leaves PWM_MIN to    *)
(* PWM_MAX at both ends; it never passes 0 (which would make it huge) or the *)
(* period, so that no pwm_config is refused for its value.  And the thread   *)
(* is there only while the module holds the PWM, which it leaves off.        *)
DutyInRange ==
  /\ dutycycle \in 0 .. PWM_PERIOD
  /\ config \in {Unset} \cup 0 .. PWM_PERIOD
  /\ tpc # "none" => held
  /\ ~held => ~enabled

(* As long as the module stays loaded, and its thread was created, the       *)
(* thread's duty cycle sweeps from end to end for ever, whatever the PWM     *)
(* calls return.  The pin shows both ends again and again only if            *)
(* pwm_enable had succeeded and pwm_config has ceased to fail: the code      *)
(* looks at neither result, and does not try pwm_enable again.               *)
Stays == <>[](mpc = "live" /\ tpc # "none")
Obeyed == <>[]enabled /\ <>[][tpc = "config" => config' = dutycycle]_motorVars
SweepsForever ==
  Stays =>
    /\ []<>(dutycycle = 0) /\ []<>(dutycycle = PWM_PERIOD)
    /\ Obeyed => []<>Shows(0) /\ []<>Shows(PWM_PERIOD)
=============================================================================
