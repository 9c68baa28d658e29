----------------------------- MODULE GuitarPresets -----------------------------
(***************************************************************************)
(* The configuration side of the pedal's core (GuitarPresets.vhd,          *)
(* I2sTx.vhd, I2sTypes.vhd under src/PedalBoardProject/PedalBoard): four   *)
(* registers written over AXI, their two flip-flops and the output         *)
(* registers in the sample clock domain, the fields the effects take from  *)
(* them, and the phaser's oscillator that those fields drive.              *)
(*                                                                         *)
(* A word is the set of its bits that are 1.  The samples and the order of *)
(* the effects are in I2sPipeline; here the only trace of a sample is that *)
(* the oscillator moves once for each of them.                             *)
(***************************************************************************)
EXTENDS Integers

CONSTANTS
  PhaseTimes,   (* PHASE_TIME_ARRAY: samples between two moves, 0 to 4      *)
  Torn          (* The registers whose bits can be sampled apart            *)

ASSUME PhaseTimesAssumption == PhaseTimes \in [0 .. 4 -> Nat]
ASSUME TornAssumption == Torn \subseteq 0 .. 3

VARIABLES
  slv_reg,              (* slv_reg0_out to slv_reg3_out                     *)
  sync1, sync2,         (* axi_enableReg0Sync1, 2 to axi_enableReg3Sync1, 2 *)
  axi,                  (* axi_enableReg to axi_phase, as the word they are *)
                        (* cut from                                         *)
  PhaseShift, PhaseDirection, PhaseCnt

syncVars  == <<sync1, sync2, axi>>
phaseVars == <<PhaseShift, PhaseDirection, PhaseCnt>>
coreVars  == <<slv_reg, syncVars, phaseVars>>

Registers == 0 .. 3
Cleared   == [r \in Registers |-> {}]

-----------------------------------------------------------------------------
(* Words and fields.                                                         *)

BitsOf(v, width)    == {i \in 0 .. (width - 1) : (v \div 2 ^ i) % 2 = 1}
Field(word, hi, lo) == {i - lo : i \in word \cap (lo .. hi)}
Digit(bits, i, w)   == IF i \in bits THEN w ELSE 0
Number(bits)        == Digit(bits, 0, 1) + Digit(bits, 1, 2) + Digit(bits, 2, 4)

(* What a flip-flop may hold when the word at its input changes at the edge: *)
(* each bit is the old or the new one.                                       *)
Mixes(old, new) == {(old \cap new) \cup s : s \in SUBSET ((old \cup new) \ (old \cap new))}
Samples(r, old, new) == IF r \in Torn THEN Mixes(old, new) ELSE {old, new}

enableReg          == 0 \in axi[0]
gainReg            == Field(axi[0], 6, 1)
thresholdHigh      == Field(axi[0], 31, 8)
thresholdLow       == Field(axi[1], 23, 0)
highPassShift      == Field(axi[1], 27, 24)
lowPassShift       == Field(axi[1], 31, 28)
distortionShift    == Field(axi[2], 6, 0)
CompressorThresh   == Field(axi[2], 30, 7)
normalizer         == Field(axi[3], 4, 0)
phaseEnable        == 5 \in axi[3]
PhaseInc(word)     == Number(Field(word, 7, 6))
PhaseMaxIdx(word)  == Number(Field(word, 10, 8))
PhaseTimeIdx(word) == Number(Field(word, 13, 11))

-----------------------------------------------------------------------------
(* The oscillator.                                                           *)

PHASE_NUM == 12
Highest(i) == i + 6                       (* PHASE_MIN_MAX_LUT(i)(1), i <= 6 *)

(* Seeded faults: the wrap below 0 is not noticed; the index overshoots the  *)
(* maximum; it does not turn at 0.                                           *)
MoveWraps(idx, dir, step, max) ==
  LET up == (idx + step) % 16  down == (idx - step) % 16
  IN  IF dir = 0 THEN IF up >= max THEN <<max, 1>> ELSE <<up, 0>>
      ELSE IF down <= 0 THEN <<0, 0>> ELSE <<down, 1>>

MoveOvershoots(idx, dir, step, max) ==
  LET up == (idx + step) % 16  down == (idx - step) % 16
  IN  IF dir = 0 THEN IF up >= max THEN <<up, 1>> ELSE <<up, 0>>
      ELSE IF down <= 0 \/ down > max THEN <<0, 0>> ELSE <<down, 1>>

MoveStays(idx, dir, step, max) ==
  LET up == (idx + step) % 16  down == (idx - step) % 16
  IN  IF dir = 0 THEN IF up >= max THEN <<max, 1>> ELSE <<up, 0>>
      ELSE IF down <= 0 \/ down > max THEN <<0, 1>> ELSE <<down, 1>>

(* The index is four bits wide: below 0 it comes out above the maximum.      *)
Move(idx, dir, step, max) ==
  LET up == (idx + step) % 16  down == (idx - step) % 16
  IN  IF dir = 0 THEN IF up >= max THEN <<max, 1>> ELSE <<up, 0>>
      ELSE IF down <= 0 \/ down > max THEN <<0, 0>> ELSE <<down, 1>>

(* LOW_PASS, once for each sample: update_phase, or the reset of its state.  *)
UpdatePhase ==
  IF ~phaseEnable
    THEN PhaseShift' = 0 /\ PhaseDirection' = 0 /\ PhaseCnt' = 0
  ELSE IF PhaseCnt >= PhaseTimes[PhaseTimeIdx(axi[3])]
    THEN LET to == Move(PhaseShift, PhaseDirection, PhaseInc(axi[3]) + 1,
                        Highest(PhaseMaxIdx(axi[3])))
         IN  PhaseShift' = to[1] /\ PhaseDirection' = to[2] /\ PhaseCnt' = 0
    ELSE PhaseCnt' = PhaseCnt + 1 /\ UNCHANGED <<PhaseShift, PhaseDirection>>

-----------------------------------------------------------------------------
(* A rising edge of i2s_mclk at which the registers hold "sampled".          *)
Edge(sampled, sample) ==
  /\ sync1' = sampled /\ sync2' = sync1 /\ axi' = sync2
  /\ IF sample THEN UpdatePhase ELSE UNCHANGED phaseVars

Clock(sample) == Edge(slv_reg, sample) /\ UNCHANGED slv_reg

(* A write over AXI, between two edges or right at one.                      *)
AxiWrite(r, word) ==
  /\ slv_reg' = [slv_reg EXCEPT ![r] = word]
  /\ \/ UNCHANGED <<syncVars, phaseVars>>
     \/ \E torn \in Samples(r, slv_reg[r], word), sample \in BOOLEAN :
          Edge([slv_reg EXCEPT ![r] = torn], sample)

CoreInit ==
  /\ slv_reg = Cleared /\ sync1 = Cleared /\ sync2 = Cleared /\ axi = Cleared
  /\ PhaseShift = 0 /\ PhaseDirection = 0 /\ PhaseCnt = 0
=============================================================================
