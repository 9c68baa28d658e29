-------------------------------- MODULE Effects --------------------------------
(***************************************************************************)
(* The pedal's effects: the filters and distortions of I2sTypes.vhd, and   *)
(* their use by I2sTx.vhd, one channel, one sample after the other, with   *)
(* the wrap-arounds of their widths (ieee.numeric_std).                    *)
(*                                                                         *)
(* Where the sample comes from and goes to is in I2sPipeline; how the      *)
(* phaser's index moves is in GuitarPresets; here it may be any.           *)
(***************************************************************************)
EXTENDS Integers

CONSTANTS
  Width,        (* Bits of a sample: 24 in the code                         *)
  MEMORY_NUM,
  FIR_COEFF,    (* A function on 0 .. MEMORY_NUM                            *)
  Coefficients, (* The shifts of PHASE_COEFF_ARRAY                          *)
  Inputs,       (* Samples of the ADC                                       *)
  Settings      (* What the registers may say                               *)

VARIABLES
  cfg,                  (* The setting in force                             *)
  input,                (* The last sample taken                            *)
  mem,                  (* left_channel_mem                                 *)
  hpIn, hpOut,          (* hp_input_lprev, hp_output_lprev                  *)
  distorted,            (* i2sRxData_Left after CHECK_DISTORTION            *)
  lpOut,                (* lp_output_lprev                                  *)
  apIn, apOut           (* ap_input_lprev, ap_output_lprev                  *)

filterVars == <<mem, hpIn, hpOut, distorted, lpOut, apIn, apOut>>
effectVars == <<cfg, input, filterVars>>

-----------------------------------------------------------------------------
(* Signed numbers of ieee.numeric_std.                                       *)

Half(n)      == 2 ^ (n - 1)
Signed(n)    == -Half(n) .. (Half(n) - 1)
Wrap(v, n)   == ((v + Half(n)) % (2 * Half(n))) - Half(n)
(* resize keeps the sign and the low bits.                                   *)
Resize(v, n) == IF v >= 0 THEN v % Half(n) ELSE (v % Half(n)) - Half(n)
Shr(v, k)    == v \div 2 ^ k
Shl(v, k)    == Wrap(v * 2 ^ k, Width)
Abs(v)       == Wrap(IF v < 0 THEN -v ELSE v, Width)

(* A shift register of the filters: bit 3 picks the form, the rest the shift.*)
Form(a)  == a \div 8 = 1
Shift(a) == a % 8

(* The widths of the registers the settings are cut from, the normalizer as  *)
(* PedalBoard_SetNormalization limits it.  Bound: qubic_shift, of which the  *)
(* register has seven bits.                                                  *)
Legal(c) ==
  /\ {c.threshold_high, c.threshold_low} \subseteq Signed(Width)
  /\ c.compThresh \in Signed(Width)
  /\ {c.gain, c.normalizer, c.qubic_shift, c.highPass, c.lowPass} \subseteq 0 .. 15

ASSUME EffectsAssumption ==
  /\ Width \in 2 .. 24 /\ MEMORY_NUM \in Nat \ {0}
  /\ FIR_COEFF \in [0 .. MEMORY_NUM -> Int]
  /\ Coefficients \subseteq 0 .. 15
  /\ Inputs \subseteq Signed(Width)
  /\ \A c \in Settings : Legal(c)

-----------------------------------------------------------------------------
(* The filters.                                                              *)

fir_filter(x) ==
  LET sum[i \in 0 .. MEMORY_NUM] ==
        IF i = 0 THEN x * FIR_COEFF[MEMORY_NUM] ELSE sum[i - 1] + mem[i - 1] * FIR_COEFF[i - 1]
  IN  Resize(Shr(Wrap(sum[MEMORY_NUM], Width + 4), 3), Width)

hp_filter(x, xPrev, yPrev, a) ==
  LET d == x - xPrev  s == Shift(a)
  IN  Resize(IF Form(a) THEN d - Shr(d, s) + yPrev - Shr(yPrev, s)
             ELSE Shr(d, s) + Shr(yPrev, s), Width)

(* Seeded fault: the high pass's sum of the kept parts.                      *)
lp_filterKeeps(x, yPrev, a) ==
  LET s == Shift(a)
  IN  Resize(IF Form(a) THEN x - Shr(x, s) + yPrev - Shr(yPrev, s)
             ELSE x - Shr(x, s) + Shr(yPrev, s), Width)

lp_filter(x, yPrev, a) ==
  LET s == Shift(a)
  IN  Resize(IF Form(a) THEN Shr(x, s) + yPrev - Shr(yPrev, s)
             ELSE x - Shr(x, s) + Shr(yPrev, s), Width)

(* Seeded fault: a sign.                                                     *)
ap_filterAdds(x, xPrev, yPrev, s) ==
  LET t == yPrev + x
  IN  Resize(Wrap(t - Shr(t, s) + xPrev, Width + 1), Width)

ap_filter(x, xPrev, yPrev, s) ==
  LET t == yPrev - x
  IN  Resize(Wrap(t - Shr(t, s) + xPrev, Width + 1), Width)

-----------------------------------------------------------------------------
(* The distortions.  mix_input is 1 from the first start on.                 *)

Clip(v, c) ==
  IF v > c.threshold_high THEN c.threshold_high
  ELSE IF v < c.threshold_low THEN c.threshold_low ELSE v

apply_gain_clip(x, c) ==
  LET compressed == IF Abs(x) > c.compThresh THEN x - Shr(x, 1) ELSE Wrap(x + Shr(x, 1), Width)
  IN  Clip(Shl(compressed, c.gain), c)

(* The intermediate results are wide enough (40 to 120 bits of which the     *)
(* bounded gains and shifts here use a part).                                *)
apply_soft_clip(x, c) ==
  LET compressed == IF Abs(x) > c.compThresh THEN Shr(x, 1) ELSE Shl(x, 1)
      gained == Shr(Shl(compressed, 1) * 2 ^ c.gain, c.normalizer)
      shaped == gained - Shr(gained * gained * gained, c.qubic_shift)
  IN  Clip((Shr(shaped, 1) + Shr(gained, 1)) * 2 ^ c.normalizer, c)

Distort(x, c) ==
  CASE c.mode = 1 -> apply_soft_clip(x, c)
    [] c.mode \in {2, 3} -> apply_gain_clip(x, c)
    [] OTHER -> x

-----------------------------------------------------------------------------
(* One sample through WAIT_AXIS_FIFO_FULL, HIGH_PASS, CHECK_DISTORTION,      *)
(* LOW_PASS and PHASE_CYCLE, with s the phaser's shift at that time.         *)
Sample(x, s) ==
  /\ input' = x
  /\ mem' = [i \in 0 .. (MEMORY_NUM - 1) |-> IF i = MEMORY_NUM - 1 THEN x ELSE mem[i + 1]]
  /\ hpIn' = fir_filter(x)
  /\ hpOut' = hp_filter(hpIn', hpIn, hpOut, cfg.highPass)
  /\ distorted' = Distort(hpOut', cfg)
  /\ lpOut' = lp_filter(distorted', lpOut, cfg.lowPass)
  /\ IF cfg.phaser
       THEN apIn' = lpOut' /\ apOut' = ap_filter(lpOut', apIn, apOut, s)
       ELSE UNCHANGED <<apIn, apOut>>
  /\ UNCHANGED cfg

(* The registers are written between two samples.                            *)
SetRegisters ==
  /\ cfg' \in Settings
  /\ UNCHANGED <<input, filterVars>>

EffectsInit ==
  /\ cfg \in Settings /\ input = 0
  /\ mem = [i \in 0 .. (MEMORY_NUM - 1) |-> 0]
  /\ hpIn = 0 /\ hpOut = 0 /\ distorted = 0 /\ lpOut = 0 /\ apIn = 0 /\ apOut = 0

Samples == \E x \in Inputs, s \in Coefficients : Sample(x, s)

EffectsNext == Samples \/ SetRegisters

EffectsSpec == EffectsInit /\ [][EffectsNext]_effectVars

(* Samples keep coming (I2sPipeline, Plays).                                 *)
EffectsFairSpec == EffectsSpec /\ WF_effectVars(Samples)

-----------------------------------------------------------------------------
Between(v, a, b) == (a <= v /\ v <= b) \/ (b <= v /\ v <= a)

(* No filter rings.  The low pass only smooths: its output lies between its  *)
(* input and its previous output; the high pass, while its input stays,      *)
(* decays towards 0, and the all pass approaches its input, neither passing  *)
(* its goal or moving away.  This holds in both forms, at every shift, for   *)
(* every change of the registers and wherever the phaser is, so the resizes  *)
(* at the end of these steps never wrap a loud sample round.  (Those of a    *)
(* high pass, all pass or FIR filter whose input moves can.)                 *)
FiltersSettle ==
  [][ /\ Between(lpOut', lpOut, distorted')
      /\ hpIn' = hpIn => Between(hpOut', hpOut, 0)
      /\ apIn' = apIn => Between(apOut', apOut, apIn) ]_effectVars

(* When the input and the registers stay as they are, the effects come to    *)
(* rest: none of the loops over rounded and wrapped values goes on humming   *)
(* by itself, whatever was played before and wherever the phaser is.         *)
NoLimitCycles ==
  \A x \in Inputs, c \in Settings :
    <>[](input = x /\ cfg = c) => <>[][FALSE]_filterVars
=============================================================================
