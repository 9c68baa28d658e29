------------------------------ MODULE PedalBoard ------------------------------
(***************************************************************************)
(* The pedal's bare metal program (src/PedalBoardProject: main.c,          *)
(* I2c/I2c.c, I2s/I2s.c) and the registers of the core it writes           *)
(* (GuitarPresets).  It sets up the I2C controller and the audio codec,    *)
(* stops if any of that fails, starts the core, and from then on writes    *)
(* PedalBoard_Cfg to the core every 100 ms.                                *)
(*                                                                         *)
(* Nothing in the repository changes PedalBoard_Cfg; that it is read again *)
(* every 100 ms serves a debugger, which Configure stands for.  The clock  *)
(* of the core is not related to the CPU: any number of its edges, also    *)
(* none, pass between two steps of the program.                            *)
(***************************************************************************)
EXTENDS GuitarPresets, Sequences

CONSTANTS
  Default,      (* PedalBoard_Cfg as initialised                            *)
  Configs       (* The configurations it may be given                       *)

VARIABLES
  cfg,          (* PedalBoard_Cfg                                           *)
  pc,           (* Where main is                                            *)
  codec,        (* The writes of I2c_CodecConfig the codec has acknowledged *)
  regs          (* PedalBoard_Cfg1Reg.U to PedalBoard_Cfg4Reg.U             *)

cpuVars == <<cfg, pc, codec, regs>>
pedalVars == <<coreVars, cpuVars>>

-----------------------------------------------------------------------------
(* The setters and the bit fields they store to.                             *)

Clamp(v, lo, hi) == IF v > hi THEN hi ELSE IF v < lo THEN lo ELSE v
Bit(v, width)    == [bits |-> BitsOf(v, width), width |-> width]

(* Seeded fault: the oscillator's step as wide as its mask.                  *)
FieldsIncWide(c) == <<
  << Bit(IF c.isStart THEN 1 ELSE 0, 1), Bit(c.mode, 2), Bit(c.gain, 6),
     Bit(Clamp(c.threshold_high, -8388608, 8388607), 24) >>,
  << Bit(Clamp(c.threshold_low, -8388608, 8388607), 24),
     Bit(Clamp(c.highpass, -8, 7), 4), Bit(Clamp(c.lowpass, -8, 7), 4) >>,
  << Bit(c.shift_qubic, 7), Bit(c.compressor % 8388608, 24) >>,
  << Bit(Clamp(c.normalizer, 0, 15), 5), Bit(IF c.enable THEN 1 ELSE 0, 1),
     Bit(c.inc, 3), Bit(c.max_value, 3), Bit(c.max_time, 3) >> >>

(* PedalBoard_cfg1_Bits to cfg4_Bits as the setters leave them.              *)
Fields(c) == <<
  << Bit(IF c.isStart THEN 1 ELSE 0, 1), Bit(c.mode, 2), Bit(c.gain, 6),
     Bit(Clamp(c.threshold_high, -8388608, 8388607), 24) >>,
  << Bit(Clamp(c.threshold_low, -8388608, 8388607), 24),
     Bit(Clamp(c.highpass, -8, 7), 4), Bit(Clamp(c.lowpass, -8, 7), 4) >>,
  << Bit(c.shift_qubic, 7), Bit(c.compressor % 8388608, 24) >>,
  << Bit(Clamp(c.normalizer, 0, 15), 5), Bit(IF c.enable THEN 1 ELSE 0, 1),
     Bit(c.inc, 2), Bit(c.max_value, 3), Bit(c.max_time, 3) >> >>

(* Bit fields follow each other from bit 0; one that would cross a word      *)
(* starts the next.  U is the first word of the union.                       *)
Offsets(f) ==
  LET at[i \in 1 .. Len(f)] ==
        IF i = 1 THEN 0
        ELSE LET end == at[i - 1] + f[i - 1].width
             IN  IF (end % 32) + f[i].width > 32 THEN 32 * (end \div 32 + 1) ELSE end
  IN  at
U(f) == {b \in 0 .. 31 : \E i \in 1 .. Len(f) : (b - Offsets(f)[i]) \in f[i].bits}

Started == [Default EXCEPT !.isStart = TRUE]
Encode  == [c \in Configs \cup {Started} |-> [r \in Registers |-> U(Fields(c)[r + 1])]]

(* What is written to register r at some time.                               *)
Encodings(r) == {Encode[c][r] : c \in Configs \cup {Started}} \cup {{}}

(* The two tables of the oscillator have 7 and 5 entries for indexes of      *)
(* three bits.  A change from 3 to 4, for example, can be sampled as 7.      *)
ASSUME MixesLegal ==
  \A old, new \in Encodings(3) : \A w \in Mixes(old, new) :
    PhaseMaxIdx(w) <= 6 /\ PhaseTimeIdx(w) <= 4

-----------------------------------------------------------------------------
(* main up to its loop.                                                      *)

To(next) == pc' = next /\ UNCHANGED <<coreVars, cfg>>

(* XIic_Initialize, XIic_DynamicInitialize and XIic_SetAddress.              *)
I2c_Init ==
  /\ pc = "i2c"
  /\ To("codec") \/ To("stopped")
  /\ UNCHANGED <<codec, regs>>

CODEC_WRITES == 12

(* Seeded faults: a write that fails is passed over; one write too many.     *)
CodecWritePasses ==
  /\ pc = "codec"
  /\ codec' \in {codec, codec + 1}
  /\ To(IF codec' >= CODEC_WRITES - 1 THEN "zero1" ELSE "codec")
  /\ UNCHANGED regs

CodecWriteMore ==
  /\ pc = "codec"
  /\ \/ codec' = codec + 1 /\ To(IF codec' > CODEC_WRITES THEN "zero1" ELSE "codec")
     \/ UNCHANGED codec /\ To("stopped")
  /\ UNCHANGED regs

(* I2c_CodecConfig: one I2c_CodecWrite after the other, from the reset to    *)
(* the power-up of the output, as long as both bytes are sent.               *)
CodecWrite ==
  /\ pc = "codec"
  /\ \/ codec' = codec + 1 /\ To(IF codec' = CODEC_WRITES THEN "zero1" ELSE "codec")
     \/ UNCHANGED codec /\ To("stopped")
  /\ UNCHANGED regs

(* The registers in the order PedalBoard_Init and _100ms write them; the     *)
(* former first clears two of them and waits.                                *)
Zero(at, r, next) ==
  /\ pc = at
  /\ AxiWrite(r, {})
  /\ pc' = next
  /\ UNCHANGED <<cfg, codec, regs>>

ClearCore == Zero("zero1", 0, "zero2") \/ Zero("zero2", 1, "set")

(* msleep(100) outlasts the synchronisers by a million cycles.               *)
Settled == sync1 = slv_reg /\ sync2 = slv_reg /\ axi = slv_reg

(* After the sleep: the setters, all of them.  PedalBoard_Init sets isStart. *)
Set ==
  /\ Settled
  /\ \/ pc = "set" /\ cfg' = Started
     \/ pc = "sleep" /\ UNCHANGED cfg
  /\ regs' = Encode[cfg']
  /\ pc' = "cfg1"
  /\ UNCHANGED <<coreVars, codec>>

WriteReg(at, r, next) ==
  /\ pc = at
  /\ AxiWrite(r, regs[r])
  /\ pc' = next
  /\ UNCHANGED <<cfg, codec, regs>>

WriteRegs ==
  \/ WriteReg("cfg1", 0, "cfg2")
  \/ WriteReg("cfg2", 1, "cfg3")
  \/ WriteReg("cfg3", 2, "cfg4")
  \/ WriteReg("cfg4", 3, "sleep")

Cpu == I2c_Init \/ CodecWrite \/ ClearCore \/ Set \/ WriteRegs

(* PedalBoard_Cfg is changed while the program sleeps in its loop.           *)
Configure ==
  /\ pc = "sleep"
  /\ cfg' \in Configs
  /\ UNCHANGED <<coreVars, pc, codec, regs>>

CoreClock(sample) == Clock(sample) /\ UNCHANGED cpuVars

-----------------------------------------------------------------------------
PedalInit ==
  /\ CoreInit
  /\ cfg = Default
  /\ pc = "i2c" /\ codec = 0
  /\ regs = Cleared

PedalNext == Cpu \/ Configure \/ \E sample \in BOOLEAN : CoreClock(sample)

PedalSpec == PedalInit /\ [][PedalNext]_pedalVars

(* The loop runs and the clock too, and while the core is enabled samples    *)
(* come (I2sPipeline, Plays).                                                *)
PedalFairSpec ==
  /\ PedalSpec
  /\ WF_pedalVars(Set \/ WriteRegs)
  /\ WF_pedalVars(\E sample \in BOOLEAN : CoreClock(sample))
  /\ WF_pedalVars(enableReg /\ CoreClock(TRUE))

-----------------------------------------------------------------------------
Word == SUBSET (0 .. 31)

PedalTypeOK ==
  /\ {slv_reg, sync1, sync2, axi, regs} \subseteq [Registers -> Word]
  /\ PhaseShift \in 0 .. 15 /\ PhaseDirection \in {0, 1} /\ PhaseCnt \in Nat
  /\ cfg \in Configs \cup {Default, Started}
  /\ codec \in 0 .. CODEC_WRITES
  /\ pc \in {"i2c", "codec", "zero1", "zero2", "set", "cfg1", "cfg2", "cfg3", "cfg4",
             "sleep", "stopped"}

(* The core makes sound only behind a codec that is configured to the last   *)
(* register (main returns at the first failure).                             *)
CodecFirst == enableReg => codec = CODEC_WRITES

(* The effects see the fields as numbers; n is one of them, and v what the   *)
(* program means by it.                                                      *)
Is(field, v, width) == field = BitsOf(v, width)

(* Everything the core takes from its registers but the high threshold.      *)
Obeys(c) ==
  /\ enableReg = c.isStart
  /\ Is(gainReg, 4 * c.gain + c.mode, 6)
  /\ Is(thresholdLow, Clamp(c.threshold_low, -8388608, 8388607), 24)
  /\ Is(highPassShift, Clamp(c.highpass, -8, 7), 4)
  /\ Is(lowPassShift, Clamp(c.lowpass, -8, 7), 4)
  /\ Is(distortionShift, c.shift_qubic, 7)
  /\ Is(CompressorThresh, c.compressor, 24)
  /\ Is(normalizer, Clamp(c.normalizer, 0, 15), 5)
  /\ phaseEnable = c.enable
  /\ PhaseInc(axi[3]) = c.inc
  /\ PhaseMaxIdx(axi[3]) = c.max_value
  /\ PhaseTimeIdx(axi[3]) = c.max_time

(* A configuration that is left alone gets through: every field arrives in   *)
(* the core at the place and with the width the effects read it from,        *)
(* whatever was on its way before (the bit fields of I2s.c against the       *)
(* slices of GuitarPresets.vhd).                                             *)
ConfigurationArrives ==
  \A c \in Configs : <>[](cfg = c) => <>[]Obeys(c)

(* apply_soft_clip and apply_gain_clip limit positive samples by this field. *)
HighThresholdArrives ==
  \A c \in Configs : <>[](cfg = c) => <>[]Is(thresholdHigh, c.threshold_high, 24)

(* The index into PHASE_COEFF_ARRAY stays in it, rising below the end and    *)
(* falling above the start, through any change of the configuration, torn or *)
(* not.                                                                      *)
PhaseInTable ==
  /\ PhaseShift \in 0 .. PHASE_NUM
  /\ PhaseDirection = 0 => PhaseShift < PHASE_NUM
  /\ PhaseDirection = 1 => PhaseShift > 0

(* The phaser sweeps without jumps: while its index is within the maximum    *)
(* set, it moves by no more than the step, and turns only at the two ends.   *)
(* (Lowering the maximum below the index, or disabling it, makes it jump.)   *)
PhaseSweepsSmoothly ==
  [][ phaseEnable /\ PhaseShift <= Highest(PhaseMaxIdx(axi[3])) =>
        /\ PhaseShift' - PhaseShift \in -(PhaseInc(axi[3]) + 1) .. (PhaseInc(axi[3]) + 1)
        /\ PhaseDirection' # PhaseDirection =>
             PhaseShift' = IF PhaseDirection = 0 THEN Highest(PhaseMaxIdx(axi[3])) ELSE 0 ]_pedalVars

(* A phaser that is left on goes up and down for ever.                       *)
PhaserSweeps ==
  \A c \in Configs :
    c.isStart /\ c.enable /\ <>[](cfg = c) =>
      []<>(PhaseShift = 0) /\ []<>(PhaseShift = Highest(c.max_value))
=============================================================================
