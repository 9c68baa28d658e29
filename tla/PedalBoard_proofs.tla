--------------------------- MODULE PedalBoard_proofs ---------------------------
(***************************************************************************)
(* Proofs about the pedal's program and its core, for every set of         *)
(* configurations whose mixes stay inside the oscillator's tables          *)
(* (MixesLegal), any period of the oscillator and any registers torn.      *)
(***************************************************************************)
EXTENDS PedalBoard, TLAPS

(* What a stage of the synchroniser of register 3 can hold.                  *)
Legal(w) == PhaseMaxIdx(w) \in 0 .. 6 /\ PhaseTimeIdx(w) \in 0 .. 4 /\ PhaseInc(w) \in 0 .. 3

(* An enable bit anywhere on its way to the effects.                         *)
EnableBits ==
  (0 \in slv_reg[0] \/ 0 \in sync1[0] \/ 0 \in sync2[0] \/ 0 \in axi[0]) => codec = CODEC_WRITES

CoreInv ==
  /\ slv_reg \in [Registers -> Word]
  /\ sync1 \in [Registers -> Word]
  /\ sync2 \in [Registers -> Word]
  /\ axi \in [Registers -> Word]
  /\ PhaseDirection \in {0, 1} /\ PhaseCnt \in Nat
  /\ EnableBits
  /\ slv_reg[3] \in Encodings(3) /\ Legal(sync1[3]) /\ Legal(sync2[3]) /\ Legal(axi[3])
  /\ PhaseInTable

(* Where the program is against what it has done.                            *)
CpuInv ==
  /\ regs \in [Registers -> Word] /\ regs[3] \in Encodings(3)
  /\ cfg \in Configs \cup {Default, Started}
  /\ codec \in 0 .. CODEC_WRITES
  /\ pc \in {"i2c", "codec", "zero1", "zero2", "set", "cfg1", "cfg2", "cfg3", "cfg4",
             "sleep", "stopped"}
  /\ pc \in {"i2c", "codec"} => codec < CODEC_WRITES
  /\ pc \notin {"i2c", "codec", "stopped"} => codec = CODEC_WRITES
  /\ pc \in {"cfg1", "cfg2", "cfg3", "cfg4", "sleep"} => cfg \in Configs \cup {Started}

PedalInv == CoreInv /\ CpuInv

(* What PhaseSweepsSmoothly says of a step.                                  *)
Smooth ==
  phaseEnable /\ PhaseShift <= Highest(PhaseMaxIdx(axi[3])) =>
    /\ PhaseShift' - PhaseShift \in -(PhaseInc(axi[3]) + 1) .. (PhaseInc(axi[3]) + 1)
    /\ PhaseDirection' # PhaseDirection =>
         PhaseShift' = IF PhaseDirection = 0 THEN Highest(PhaseMaxIdx(axi[3])) ELSE 0

-----------------------------------------------------------------------------
(* A move inside the tables leads inside the tables, by at most the step,    *)
(* and turns only at the ends.                                               *)
LEMMA MoveInTable ==
  ASSUME NEW idx \in 0 .. 12, NEW dir \in {0, 1}, NEW step \in 1 .. 4, NEW max \in 6 .. 12,
         dir = 0 => idx < 12, dir = 1 => idx > 0
  PROVE  LET to == Move(idx, dir, step, max)
         IN  /\ to[1] \in 0 .. 12
             /\ to[2] \in {0, 1}
             /\ to[2] = 0 => to[1] < 12
             /\ to[2] = 1 => to[1] > 0
             /\ idx <= max => to[1] - idx \in -step .. step
             /\ idx <= max /\ to[2] # dir => to[1] = IF dir = 0 THEN max ELSE 0
<1> DEFINE up == (idx + step) % 16
           down == (idx - step) % 16
<1>1. up = idx + step \/ (dir = 1 /\ up \in 0 .. 15)
  OBVIOUS
<1>2. down = IF idx >= step THEN idx - step ELSE idx - step + 16
  OBVIOUS
<1>3. CASE dir = 0 /\ up >= max
  <2>1. Move(idx, dir, step, max) = <<max, 1>>
    BY <1>3 DEF Move
  <2> QED
    BY <1>1, <1>3, <2>1
<1>4. CASE dir = 0 /\ ~(up >= max)
  <2>1. Move(idx, dir, step, max) = <<up, 0>>
    BY <1>4 DEF Move
  <2> QED
    BY <1>1, <1>4, <2>1
<1>5. CASE dir = 1 /\ (down <= 0 \/ down > max)
  <2>1. Move(idx, dir, step, max) = <<0, 0>>
    BY <1>5 DEF Move
  <2>2. idx <= max => idx <= step
    BY <1>2, <1>5
  <2> QED
    BY <1>5, <2>1, <2>2
<1>6. CASE dir = 1 /\ ~(down <= 0 \/ down > max)
  <2>1. Move(idx, dir, step, max) = <<down, 1>>
    BY <1>6 DEF Move
  <2>2. down = idx - step /\ down > 0
    BY <1>2, <1>6
  <2> QED
    BY <1>6, <2>1, <2>2
<1> QED
  BY <1>3, <1>4, <1>5, <1>6

(* The numbers cut from a word are natural numbers of their width.           *)
LEMMA FieldNumbers ==
  ASSUME NEW w \in Word
  PROVE  PhaseInc(w) \in 0 .. 3 /\ PhaseMaxIdx(w) \in 0 .. 7 /\ PhaseTimeIdx(w) \in 0 .. 7
<1>1. 2 \notin Field(w, 7, 6)
  BY DEF Field, Word
<1> QED
  BY <1>1 DEF PhaseInc, PhaseMaxIdx, PhaseTimeIdx, Number, Digit

(* Every word written is a word, and every sample of register 3 is legal.    *)
LEMMA WordsWritten ==
  ASSUME NEW c \in Configs \cup {Started}
  PROVE  Encode[c] \in [Registers -> Word] /\ Encode[c][3] \in Encodings(3)
<1>1. \A f : U(f) \in Word
  BY DEF U, Word
<1> QED
  BY <1>1 DEF Encode, Encodings, Registers

(* What the program writes to register 3 are words.                         *)
LEMMA EncodingsAreWords == Encodings(3) \subseteq Word /\ {} \in Encodings(3)
<1>1. \A c \in Configs \cup {Started} : Encode[c][3] \in Word
  BY WordsWritten DEF Registers
<1> QED
  BY <1>1 DEF Encodings, Word

(* A torn sample of two words written to register 3 is still a legal one.    *)
LEMMA SamplesLegal ==
  ASSUME NEW old \in Encodings(3), NEW new \in Encodings(3), NEW w \in Samples(3, old, new)
  PROVE  Legal(w)
<1>1. \A u \in Encodings(3) : u \in Mixes(u, u)
  <2> SUFFICES ASSUME NEW u \in Encodings(3) PROVE u \in Mixes(u, u)
    OBVIOUS
  <2>1. {} \in SUBSET ((u \cup u) \ (u \cap u)) /\ u = (u \cap u) \cup {}
    OBVIOUS
  <2> QED
    BY <2>1 DEF Mixes
<1>2. \E o, n \in Encodings(3) : w \in Mixes(o, n)
  BY <1>1 DEF Samples
<1>3. PhaseMaxIdx(w) <= 6 /\ PhaseTimeIdx(w) <= 4
  BY <1>2, MixesLegal
<1>4. w \in Word
  <2>1. \A o, n : o \in Word /\ n \in Word => Mixes(o, n) \subseteq Word
    BY DEF Mixes, Word
  <2> QED
    BY <1>2, <2>1, EncodingsAreWords
<1> QED
  BY <1>3, <1>4, FieldNumbers DEF Legal

(* A torn sample of two words is a word.                                    *)
LEMMA SamplesAreWords ==
  ASSUME NEW r, NEW old \in Word, NEW new \in Word
  PROVE  Samples(r, old, new) \subseteq Word
  BY DEF Samples, Mixes, Word

-----------------------------------------------------------------------------
(* The oscillator's part of an edge.                                         *)
LEMMA UpdateInTable ==
  ASSUME PhaseInTable, Legal(axi[3]), PhaseCnt \in Nat, PhaseDirection \in {0, 1},
         UpdatePhase
  PROVE  PhaseInTable' /\ PhaseCnt' \in Nat /\ PhaseDirection' \in {0, 1} /\ Smooth
<1> DEFINE step == PhaseInc(axi[3]) + 1
           max == Highest(PhaseMaxIdx(axi[3]))
           to == Move(PhaseShift, PhaseDirection, step, max)
           due == PhaseCnt >= PhaseTimes[PhaseTimeIdx(axi[3])]
<1>1. step \in 1 .. 4 /\ max \in 6 .. 12
  BY DEF Legal, Highest
<1>2. CASE ~phaseEnable
  BY <1>2 DEF UpdatePhase, PhaseInTable, PHASE_NUM, Smooth
<1>3. CASE phaseEnable /\ due
  <2>1. PhaseShift' = to[1] /\ PhaseDirection' = to[2] /\ PhaseCnt' = 0
    BY <1>3 DEF UpdatePhase
  <2>2. /\ to[1] \in 0 .. 12 /\ to[2] \in {0, 1}
        /\ to[2] = 0 => to[1] < 12
        /\ to[2] = 1 => to[1] > 0
        /\ PhaseShift <= max => to[1] - PhaseShift \in -step .. step
        /\ PhaseShift <= max /\ to[2] # PhaseDirection =>
             to[1] = IF PhaseDirection = 0 THEN max ELSE 0
    <3> HIDE DEF step, max
    <3> QED
      BY <1>1, MoveInTable DEF PhaseInTable, PHASE_NUM
  <2> QED
    BY <2>1, <2>2 DEF PhaseInTable, PHASE_NUM, Smooth
<1>4. CASE phaseEnable /\ ~due
  <2>1. PhaseCnt' = PhaseCnt + 1 /\ UNCHANGED <<PhaseShift, PhaseDirection>>
    BY <1>4 DEF UpdatePhase
  <2> QED
    BY <1>1, <2>1 DEF PhaseInTable, PHASE_NUM, Smooth
<1> QED
  BY <1>2, <1>3, <1>4

(* Nothing of the oscillator changes.                                        *)
LEMMA RestIsSmooth ==
  ASSUME CoreInv, UNCHANGED phaseVars
  PROVE  Smooth
<1>1. PhaseInc(axi[3]) \in 0 .. 3 /\ PhaseShift \in 0 .. 12
  BY DEF CoreInv, Legal, PhaseInTable, PHASE_NUM
<1> QED
  BY <1>1 DEF Smooth, phaseVars

(* The synchronisers pass on what they hold.                                 *)
LEMMA EdgeKeepsCore ==
  ASSUME CoreInv, NEW sampled \in [Registers -> Word], NEW sample \in BOOLEAN,
         Legal(sampled[3]), 0 \in sampled[0] => codec = CODEC_WRITES, codec' = codec,
         slv_reg' \in [Registers -> Word], slv_reg'[3] \in Encodings(3),
         0 \in slv_reg'[0] => codec = CODEC_WRITES,
         Edge(sampled, sample)
  PROVE  CoreInv' /\ Smooth
<1>1. sync1' = sampled /\ sync2' = sync1 /\ axi' = sync2
  BY DEF Edge
<1>2. PhaseInTable' /\ PhaseCnt' \in Nat /\ PhaseDirection' \in {0, 1} /\ Smooth
  <2>1. CASE sample
    BY <2>1, UpdateInTable DEF Edge, CoreInv
  <2>2. CASE ~sample
    <3>1. UNCHANGED phaseVars
      BY <2>2 DEF Edge
    <3> QED
      BY <3>1, RestIsSmooth DEF CoreInv, phaseVars, PhaseInTable
  <2> QED
    BY <2>1, <2>2
<1>3. EnableBits'
  BY <1>1 DEF EnableBits, CoreInv
<1>4. Legal(sync1[3])' /\ Legal(sync2[3])' /\ Legal(axi[3])'
  BY <1>1 DEF CoreInv, Legal, PhaseMaxIdx, PhaseTimeIdx, PhaseInc, Number, Digit, Field
<1> QED
  BY <1>1, <1>2, <1>3, <1>4 DEF CoreInv

(* An edge of mclk keeps the core's part of the invariant.                  *)
LEMMA ClockKeepsCore ==
  ASSUME CoreInv, NEW sample \in BOOLEAN, Clock(sample), codec' = codec
  PROVE  CoreInv' /\ Smooth
<1>1. Legal(slv_reg[3])
  <2>1. slv_reg[3] \in Samples(3, slv_reg[3], slv_reg[3])
    <3>1. {} \in SUBSET ((slv_reg[3] \cup slv_reg[3]) \ (slv_reg[3] \cap slv_reg[3]))
          /\ slv_reg[3] = (slv_reg[3] \cap slv_reg[3]) \cup {}
      OBVIOUS
    <3> QED
      BY <3>1 DEF Samples, Mixes
  <2> QED
    BY <2>1, SamplesLegal DEF CoreInv
<1> QED
  BY <1>1, EdgeKeepsCore DEF Clock, CoreInv, EnableBits

(* So does a write by the program, while it writes what it should.          *)
LEMMA WriteKeepsCore ==
  ASSUME CoreInv, NEW r \in Registers, NEW word \in Word, AxiWrite(r, word), codec' = codec,
         r = 0 /\ 0 \in word => codec = CODEC_WRITES,
         r = 3 => word \in Encodings(3)
  PROVE  CoreInv' /\ Smooth
<1>1. slv_reg' = [slv_reg EXCEPT ![r] = word]
  BY DEF AxiWrite
<1>2. slv_reg' \in [Registers -> Word] /\ slv_reg'[3] \in Encodings(3)
      /\ (0 \in slv_reg'[0] => codec = CODEC_WRITES)
  BY <1>1 DEF CoreInv, EnableBits, Registers
<1>3. CASE UNCHANGED <<syncVars, phaseVars>>
  <2>1. UNCHANGED <<sync1, sync2, axi, phaseVars>>
    BY <1>3 DEF syncVars
  <2>2. EnableBits'
    BY <1>2, <2>1 DEF EnableBits, CoreInv
  <2>3. Legal(sync1[3])' /\ Legal(sync2[3])' /\ Legal(axi[3])'
    BY <2>1 DEF CoreInv, Legal, PhaseMaxIdx, PhaseTimeIdx, PhaseInc, Number, Digit, Field
  <2>4. PhaseInTable' /\ PhaseDirection' \in {0, 1} /\ PhaseCnt' \in Nat
    BY <2>1 DEF CoreInv, PhaseInTable, phaseVars
  <2> QED
    BY <1>2, <2>1, <2>2, <2>3, <2>4, RestIsSmooth DEF CoreInv
<1>4. CASE \E torn \in Samples(r, slv_reg[r], word), sample \in BOOLEAN :
             Edge([slv_reg EXCEPT ![r] = torn], sample)
  <2>1. PICK torn \in Samples(r, slv_reg[r], word), sample \in BOOLEAN :
          Edge([slv_reg EXCEPT ![r] = torn], sample)
    BY <1>4
  <2> DEFINE sampled == [slv_reg EXCEPT ![r] = torn]
  <2>2. torn \in Word /\ sampled \in [Registers -> Word]
    BY SamplesAreWords DEF CoreInv
  <2>3. Legal(sampled[3])
    <3>1. sampled[3] \in Samples(3, slv_reg[3], slv_reg[3]) \/ (r = 3 /\ sampled[3] = torn)
      <4>1. {} \in SUBSET ((slv_reg[3] \cup slv_reg[3]) \ (slv_reg[3] \cap slv_reg[3]))
            /\ slv_reg[3] = (slv_reg[3] \cap slv_reg[3]) \cup {}
        OBVIOUS
      <4>2. slv_reg[3] \in Samples(3, slv_reg[3], slv_reg[3])
        BY <4>1 DEF Samples, Mixes
      <4>3. sampled[3] = IF r = 3 THEN torn ELSE slv_reg[3]
        BY DEF CoreInv, Registers
      <4> QED
        BY <4>2, <4>3
    <3> QED
      BY <3>1, SamplesLegal DEF CoreInv
  <2>4. 0 \in sampled[0] => codec = CODEC_WRITES
    <3>1. r = 0 /\ 0 \in torn => 0 \in slv_reg[0] \/ 0 \in word
      BY DEF Samples, Mixes
    <3> QED
      BY <3>1 DEF CoreInv, EnableBits, Registers
  <2> HIDE DEF sampled
  <2>5. Edge(sampled, sample)
    BY <2>1 DEF sampled
  <2> QED
    BY <1>2, <2>2, <2>3, <2>4, <2>5, EdgeKeepsCore
<1> QED
  BY <1>3, <1>4 DEF AxiWrite

-----------------------------------------------------------------------------
(* The program.                                                              *)
LEMMA InitInv == PedalInit => PedalInv
<1> SUFFICES ASSUME PedalInit PROVE PedalInv
  OBVIOUS
<1>1. {} \in Word /\ {} \in Encodings(3) /\ Cleared \in [Registers -> Word]
      /\ Cleared[3] = {} /\ Cleared[0] = {}
  BY EncodingsAreWords DEF Cleared, Registers, Word
<1>2. {} \in Samples(3, {}, {})
  BY DEF Samples, Mixes
<1>3. Legal({})
  BY <1>1, <1>2, SamplesLegal
<1>4. CoreInv
  BY <1>1, <1>3 DEF PedalInit, CoreInit, CoreInv, EnableBits, PhaseInTable, PHASE_NUM
<1> QED
  BY <1>1, <1>4 DEF PedalInit, PedalInv, CpuInv, CODEC_WRITES

(* A step that leaves the core alone.                                        *)
LEMMA CoreAlone ==
  ASSUME CoreInv, UNCHANGED coreVars, codec' \in {codec, codec + 1},
         codec' = codec \/ codec # CODEC_WRITES
  PROVE  CoreInv' /\ Smooth
<1>1. UNCHANGED <<slv_reg, sync1, sync2, axi, phaseVars>>
  BY DEF coreVars, syncVars
<1>2. EnableBits'
  BY <1>1 DEF EnableBits, CoreInv
<1>3. Legal(sync1[3])' /\ Legal(sync2[3])' /\ Legal(axi[3])'
  BY <1>1 DEF CoreInv, Legal, PhaseMaxIdx, PhaseTimeIdx, PhaseInc, Number, Digit, Field
<1>4. PhaseInTable' /\ PhaseDirection' \in {0, 1} /\ PhaseCnt' \in Nat
  BY <1>1 DEF CoreInv, PhaseInTable, phaseVars
<1> QED
  BY <1>1, <1>2, <1>3, <1>4, RestIsSmooth DEF CoreInv

(* One step of the program, of the debugger or of the clock.                 *)
LEMMA StepInv == PedalInv /\ [PedalNext]_pedalVars => PedalInv' /\ Smooth
<1> SUFFICES ASSUME PedalInv, [PedalNext]_pedalVars
             PROVE  PedalInv' /\ Smooth
  OBVIOUS
<1> USE DEF PedalInv
<1>1. CASE I2c_Init
  BY <1>1, CoreAlone DEF I2c_Init, To, CpuInv
<1>2. CASE CodecWrite
  <2>1. UNCHANGED <<coreVars, cfg, regs>> /\ codec < CODEC_WRITES /\ pc = "codec"
    BY <1>2 DEF CodecWrite, To, CpuInv
  <2>2. \/ codec' = codec + 1 /\ pc' = IF codec' = CODEC_WRITES THEN "zero1" ELSE "codec"
        \/ codec' = codec /\ pc' = "stopped"
    BY <1>2 DEF CodecWrite, To
  <2>3. CoreInv' /\ Smooth
    <3>1. codec # CODEC_WRITES
      BY <2>1 DEF CpuInv, CODEC_WRITES
    <3> QED
      BY <2>1, <2>2, <3>1, CoreAlone
  <2>4. CpuInv'
    BY <2>1, <2>2 DEF CpuInv, CODEC_WRITES
  <2> QED
    BY <2>3, <2>4
<1>3. CASE ClearCore
  <2>1. PICK r \in {0, 1} : AxiWrite(r, {}) /\ UNCHANGED <<cfg, codec, regs>>
    BY <1>3 DEF ClearCore, Zero
  <2>2. CoreInv' /\ Smooth
    BY <2>1, WriteKeepsCore DEF Registers, Word
  <2>3. pc \in {"zero1", "zero2"} /\ pc' \in {"zero2", "set"}
    BY <1>3 DEF ClearCore, Zero
  <2> QED
    BY <2>1, <2>2, <2>3 DEF CpuInv
<1>4. CASE Set
  <2>1. cfg' \in Configs \cup {Started} /\ regs' = Encode[cfg'] /\ pc' = "cfg1"
        /\ UNCHANGED <<coreVars, codec>> /\ pc \in {"set", "sleep"}
    BY <1>4 DEF Set, CpuInv
  <2>2. regs' \in [Registers -> Word] /\ regs'[3] \in Encodings(3)
    BY <2>1, WordsWritten
  <2>3. CoreInv' /\ Smooth
    BY <2>1, CoreAlone
  <2>4. CpuInv'
    BY <2>1, <2>2 DEF CpuInv, Encodings
  <2> QED
    BY <2>3, <2>4
<1>5. CASE WriteRegs
  <2>1. PICK r \in Registers : AxiWrite(r, regs[r]) /\ UNCHANGED <<cfg, codec, regs>>
    BY <1>5 DEF WriteRegs, WriteReg, Registers
  <2>2. pc \in {"cfg1", "cfg2", "cfg3", "cfg4"} /\ pc' \in {"cfg2", "cfg3", "cfg4", "sleep"}
    BY <1>5 DEF WriteRegs, WriteReg
  <2>3. codec = CODEC_WRITES /\ regs[r] \in Word /\ (r = 3 => regs[r] \in Encodings(3))
    BY <2>2 DEF CpuInv
  <2>4. CoreInv' /\ Smooth
    BY <2>1, <2>3, WriteKeepsCore
  <2> QED
    BY <2>1, <2>2, <2>4 DEF CpuInv
<1>6. CASE Configure
  BY <1>6, CoreAlone DEF Configure, CpuInv
<1>7. CASE \E sample \in BOOLEAN : CoreClock(sample)
  <2>1. PICK sample \in BOOLEAN : Clock(sample) /\ UNCHANGED cpuVars
    BY <1>7 DEF CoreClock
  <2>2. CoreInv' /\ Smooth
    BY <2>1, ClockKeepsCore DEF cpuVars
  <2>3. CpuInv'
    BY <2>1 DEF cpuVars, CpuInv, Encodings
  <2> QED
    BY <2>2, <2>3
<1>8. CASE UNCHANGED pedalVars
  BY <1>8, CoreAlone DEF pedalVars, cpuVars, CpuInv
<1> QED
  BY <1>1, <1>2, <1>3, <1>4, <1>5, <1>6, <1>7, <1>8 DEF PedalNext, Cpu

(* The invariant holds at all times.                                        *)
LEMMA PedalInvariant == PedalSpec => []PedalInv
<1>1. PedalInv /\ [PedalNext]_pedalVars => PedalInv'
  BY StepInv
<1> QED
  BY InitInv, <1>1, PTL DEF PedalSpec

(* Registers, synchronisers and the program stay what they are declared to   *)
(* be (PedalBoard.tla's state).                                              *)
THEOREM PedalTypes == PedalSpec => []PedalTypeOK
<1>1. PedalInv => PedalTypeOK
  BY DEF PedalInv, CoreInv, CpuInv, PedalTypeOK, PhaseInTable, PHASE_NUM
<1> QED
  BY <1>1, PedalInvariant, PTL

(* The core is never enabled before all twelve writes of I2c_CodecConfig     *)
(* were acknowledged.                                                        *)
THEOREM CodecIsFirst == PedalSpec => []CodecFirst
<1>1. PedalInv => CodecFirst
  BY DEF PedalInv, CoreInv, EnableBits, CodecFirst, enableReg
<1> QED
  BY <1>1, PedalInvariant, PTL

(* update_phase never leaves the coefficient table, whatever configurations  *)
(* are written, provided that no mix of two has an index beyond the tables.  *)
THEOREM PhaseStaysInTable == PedalSpec => []PhaseInTable
<1>1. PedalInv => PhaseInTable
  BY DEF PedalInv, CoreInv
<1> QED
  BY <1>1, PedalInvariant, PTL

(* update_phase moves the index by no more than its step and turns only at   *)
(* the ends.                                                                 *)
THEOREM PhaseIsSmooth == PedalSpec => PhaseSweepsSmoothly
<1>1. PedalInv /\ [PedalNext]_pedalVars => [Smooth]_pedalVars
  BY StepInv
<1> QED
  BY <1>1, PedalInvariant, PTL DEF PedalSpec, PhaseSweepsSmoothly, Smooth

-----------------------------------------------------------------------------
(* The bit fields of the program against the slices of the core.             *)

(* The values a configuration can pass through its bit fields: an effect of  *)
(* PedalBoard_DistMode_t, a compressor threshold which                       *)
(* PedalBoard_SetCompressor does not cut, indexes that fit.  Thresholds,     *)
(* passes and the normalizer may be anything, as the setters clamp them.     *)
CompressorFits(c) == c.compressor \in Nat /\ c.compressor < 8388608

Fits(c) ==
  /\ c.isStart \in BOOLEAN /\ c.enable \in BOOLEAN
  /\ c.mode \in 0 .. 3 /\ c.gain \in -128 .. 127
  /\ CompressorFits(c)
  /\ c.inc \in 0 .. 3 /\ c.max_value \in 0 .. 7 /\ c.max_time \in 0 .. 7

(* Where a field of some width starts that follows one ending before "end".  *)
NextOffset(end, width) == IF (end % 32) + width > 32 THEN 32 * (end \div 32 + 1) ELSE end

(* Offsets is the function its recursion describes, for the up to five       *)
(* fields of a register: it can be written down.                             *)
LEMMA OffsetsUnroll ==
  ASSUME NEW f, Len(f) \in 1 .. 5
  PROVE  \A i \in 1 .. Len(f) :
           Offsets(f)[i] = IF i = 1 THEN 0
                           ELSE NextOffset(Offsets(f)[i - 1] + f[i - 1].width, f[i].width)
<1> DEFINE G(at) == [i \in 1 .. Len(f) |->
                       IF i = 1 THEN 0 ELSE NextOffset(at[i - 1] + f[i - 1].width, f[i].width)]
           o2 == NextOffset(0 + f[1].width, f[2].width)
           o3 == NextOffset(o2 + f[2].width, f[3].width)
           o4 == NextOffset(o3 + f[3].width, f[4].width)
           o5 == NextOffset(o4 + f[4].width, f[5].width)
           o == [i \in 1 .. Len(f) |-> IF i = 1 THEN 0 ELSE IF i = 2 THEN o2
                                       ELSE IF i = 3 THEN o3 ELSE IF i = 4 THEN o4 ELSE o5]
           at == CHOOSE at : at = G(at)
<1>1. ASSUME NEW i \in 1 .. Len(f) PROVE o[i] = G(o)[i]
  <2>1. CASE i = 1
    BY <2>1
  <2>2. CASE i = 2
    <3>1. o[1] = 0 /\ i - 1 = 1
      BY <2>2
    <3> QED
      BY <2>2, <3>1, Zenon
  <2>3. CASE i = 3
    <3> HIDE DEF o2
    <3>1. o[2] = o2 /\ i - 1 = 2
      BY <2>3
    <3>2. G(o)[i] = NextOffset(o[i - 1] + f[i - 1].width, f[i].width)
      BY <2>3
    <3>3. o[i] = o3
      BY <2>3
    <3> QED
      BY <2>3, <3>1, <3>2, <3>3, Zenon
  <2>4. CASE i = 4
    <3> HIDE DEF o2, o3
    <3>1. o[3] = o3 /\ i - 1 = 3
      BY <2>4
    <3>2. G(o)[i] = NextOffset(o[i - 1] + f[i - 1].width, f[i].width)
      BY <2>4
    <3>3. o[i] = o4
      BY <2>4
    <3> QED
      BY <2>4, <3>1, <3>2, <3>3, Zenon
  <2>5. CASE i = 5
    <3> HIDE DEF o2, o3, o4
    <3>1. o[4] = o4 /\ i - 1 = 4
      BY <2>5
    <3>2. G(o)[i] = NextOffset(o[i - 1] + f[i - 1].width, f[i].width)
      BY <2>5
    <3>3. o[i] = o5
      BY <2>5
    <3> QED
      BY <2>5, <3>1, <3>2, <3>3, Zenon
  <2> QED
    BY <2>1, <2>2, <2>3, <2>4, <2>5
<1>2. o = G(o)
  <2> HIDE DEF o2, o3, o4, o5
  <2>1. DOMAIN o = 1 .. Len(f)
    OBVIOUS
  <2> QED
    BY <1>1, <2>1
<1> HIDE DEF o
<1>3. at = G(at)
  BY <1>2
<1>4. Offsets(f) = at
  BY DEF Offsets, NextOffset
<1> HIDE DEF at
<1> QED
  BY <1>3, <1>4

(* A slice of a word is a field of it, if its bits are in the word just      *)
(* where the slice is.                                                       *)
LEMMA Slice ==
  ASSUME NEW word \in Word, NEW bits, NEW lo \in 0 .. 31, NEW hi \in 0 .. 31, lo <= hi,
         bits \subseteq 0 .. (hi - lo),
         \A b \in lo .. hi : b \in word <=> (b - lo) \in bits
  PROVE  Field(word, hi, lo) = bits
<1>1. Field(word, hi, lo) \subseteq bits
  BY DEF Field, Word
<1>2. ASSUME NEW j \in bits PROVE j \in Field(word, hi, lo)
  <2>1. j + lo \in lo .. hi /\ (j + lo) - lo = j
    OBVIOUS
  <2>2. j + lo \in word \cap (lo .. hi)
    BY <2>1
  <2> QED
    BY <2>1, <2>2 DEF Field
<1> QED
  BY <1>1, <1>2

(* BitsOf stays in its width.                                                *)
LEMMA BitsInWidth == \A v, w : BitsOf(v, w) \subseteq 0 .. (w - 1)
  BY DEF BitsOf

(* Register 0: the start bit, then effect and gain, of which the core takes  *)
(* four bits; the sixth of the gain is all there is above.                   *)
LEMMA FirstRegister ==
  ASSUME NEW c, NEW word, word = U(Fields(c)[1])
  PROVE  /\ 0 \in word <=> 0 \in BitsOf(IF c.isStart THEN 1 ELSE 0, 1)
         /\ Field(word, 6, 1) = BitsOf(c.mode, 2) \cup {i + 2 : i \in BitsOf(c.gain, 6) \cap (0 .. 3)}
         /\ Field(word, 31, 8) \subseteq {0}
<1> DEFINE f == Fields(c)[1]
           start == BitsOf(IF c.isStart THEN 1 ELSE 0, 1)
           mode == BitsOf(c.mode, 2)
           gain == BitsOf(c.gain, 6)
           high == BitsOf(Clamp(c.threshold_high, -8388608, 8388607), 24)
<1>1. /\ Len(f) = 4 /\ f[1].width = 1 /\ f[2].width = 2 /\ f[3].width = 6 /\ f[4].width = 24
      /\ f[1].bits = start /\ f[2].bits = mode /\ f[3].bits = gain /\ f[4].bits = high
  BY DEF Fields, Bit
<1>2. /\ start \subseteq 0 .. 0 /\ mode \subseteq 0 .. 1
      /\ gain \subseteq 0 .. 5 /\ high \subseteq 0 .. 23
  BY BitsInWidth
<1> HIDE DEF f, start, mode, gain, high
<1>3. Offsets(f)[1] = 0 /\ Offsets(f)[2] = 1 /\ Offsets(f)[3] = 3 /\ Offsets(f)[4] = 32
  <2>0. \A i \in 1 .. 4 :
          Offsets(f)[i] = IF i = 1 THEN 0
                          ELSE NextOffset(Offsets(f)[i - 1] + f[i - 1].width, f[i].width)
    <3>1. Len(f) \in 1 .. 5
      BY <1>1
    <3> QED
      BY <1>1, <3>1, OffsetsUnroll, Zenon
  <2>1. Offsets(f)[1] = 0
    BY <2>0
  <2>2. Offsets(f)[2] = 1
    BY <1>1, <2>0, <2>1 DEF NextOffset
  <2>3. Offsets(f)[3] = 3
    BY <1>1, <2>0, <2>2 DEF NextOffset
  <2>4. Offsets(f)[4] = 32
    BY <1>1, <2>0, <2>3 DEF NextOffset
  <2> QED
    BY <2>1, <2>2, <2>3, <2>4
<1>4. word = {b \in 0 .. 31 : b \in start \/ (b - 1) \in mode \/ (b - 3) \in gain \/ (b - 32) \in high}
  <2>1. word = {b \in 0 .. 31 : \E i \in 1 .. 4 : (b - Offsets(f)[i]) \in f[i].bits}
    BY <1>1 DEF U, f
  <2>2. ASSUME NEW b \in 0 .. 31
        PROVE  (\E i \in 1 .. 4 : (b - Offsets(f)[i]) \in f[i].bits)
                 <=> b \in start \/ (b - 1) \in mode \/ (b - 3) \in gain \/ (b - 32) \in high
    <3>1. b - 0 = b
      OBVIOUS
    <3>2. 1 .. 4 = {1, 2, 3, 4}
      OBVIOUS
    <3> QED
      BY <1>1, <1>3, <3>1, <3>2, Zenon
  <2> QED
    BY <2>1, <2>2
<1>5. word \in Word
  BY <1>4 DEF Word
<1>6. 0 \in word <=> 0 \in start
  BY <1>2, <1>4
<1>7. Field(word, 6, 1) = mode \cup {i + 2 : i \in gain \cap (0 .. 3)}
  <2> DEFINE bits == mode \cup {i + 2 : i \in gain \cap (0 .. 3)}
  <2>1. bits \subseteq 0 .. (6 - 1)
    <3>1. {i + 2 : i \in gain \cap (0 .. 3)} \subseteq 2 .. 5
      OBVIOUS
    <3>2. mode \subseteq 0 .. (6 - 1) /\ 2 .. 5 \subseteq 0 .. (6 - 1)
      BY <1>2
    <3> QED
      BY <3>1, <3>2, Zenon
  <2>2. ASSUME NEW b \in 1 .. 6 PROVE b \in word <=> (b - 1) \in bits
    <3>1. b \in word <=> (b - 1) \in mode \/ (b - 3) \in gain
      BY <1>2, <1>4
    <3>2. (b - 1) \in {i + 2 : i \in gain \cap (0 .. 3)} <=> (b - 3) \in gain
      <4>1. (b - 3) + 2 = b - 1
        OBVIOUS
      <4>2. (b - 3) \in gain => (b - 3) \in gain \cap (0 .. 3)
        BY <1>2
      <4>3. ASSUME NEW i \in gain \cap (0 .. 3), b - 1 = i + 2 PROVE (b - 3) \in gain
        <5>1. i = b - 3
          BY <4>3
        <5> QED
          BY <5>1
      <4> QED
        BY <4>1, <4>2, <4>3
    <3> QED
      BY <3>1, <3>2
  <2> HIDE DEF bits
  <2>3. 1 \in 0 .. 31 /\ 6 \in 0 .. 31 /\ 1 <= 6
    OBVIOUS
  <2>4. Field(word, 6, 1) = bits
    BY <1>5, <2>1, <2>2, <2>3, Slice, Zenon
  <2> QED
    BY <2>4 DEF bits
<1>8. Field(word, 31, 8) \subseteq {0}
  <2>1. ASSUME NEW b \in word \cap (8 .. 31) PROVE b = 8
    BY <1>2, <1>4
  <2> QED
    BY <2>1 DEF Field
<1> QED
  BY <1>6, <1>7, <1>8 DEF start, mode, gain

(* A field that does not start a second word and shares no bit with another  *)
(* is cut out as it was put in.                                              *)
LEMMA FieldArrives ==
  ASSUME NEW f, NEW i \in 1 .. Len(f), NEW lo \in 0 .. 31, NEW hi \in 0 .. 31, lo <= hi,
         Offsets(f)[i] = lo, f[i].bits \subseteq 0 .. (hi - lo),
         \A j \in 1 .. Len(f) : j # i => \A b \in lo .. hi : b - Offsets(f)[j] \notin f[j].bits
  PROVE  Field(U(f), hi, lo) = f[i].bits
<1>1. U(f) \in Word
  BY DEF U, Word
<1>2. ASSUME NEW b \in lo .. hi PROVE b \in U(f) <=> (b - lo) \in f[i].bits
  <2>1. b \in 0 .. 31
    OBVIOUS
  <2> QED
    BY <2>1, Zenon DEF U
<1> QED
  BY <1>1, <1>2, Slice, Zenon

(* Register 1: the low threshold and the shifts of high and low pass.        *)
LEMMA SecondRegister ==
  ASSUME NEW c, NEW word, word = U(Fields(c)[2])
  PROVE  /\ Field(word, 23, 0) = BitsOf(Clamp(c.threshold_low, -8388608, 8388607), 24)
         /\ Field(word, 27, 24) = BitsOf(Clamp(c.highpass, -8, 7), 4)
         /\ Field(word, 31, 28) = BitsOf(Clamp(c.lowpass, -8, 7), 4)
<1> DEFINE f == Fields(c)[2]
           low == BitsOf(Clamp(c.threshold_low, -8388608, 8388607), 24)
           high_pass == BitsOf(Clamp(c.highpass, -8, 7), 4)
           low_pass == BitsOf(Clamp(c.lowpass, -8, 7), 4)
<1>1. /\ Len(f) = 3
      /\ f[1].width = 24 /\ f[1].bits = low
      /\ f[2].width = 4 /\ f[2].bits = high_pass
      /\ f[3].width = 4 /\ f[3].bits = low_pass
  BY DEF Fields, Bit
<1>2. /\ low \subseteq 0 .. 23
      /\ high_pass \subseteq 0 .. 3
      /\ low_pass \subseteq 0 .. 3
  BY BitsInWidth
<1>3. word = U(f) /\ Len(f) \in 1 .. 5
  BY <1>1
<1> HIDE DEF f, low, high_pass, low_pass
<1>4. Offsets(f)[1] = 0 /\ Offsets(f)[2] = 24 /\ Offsets(f)[3] = 28
  <2>0. \A i \in 1 .. 3 :
          Offsets(f)[i] = IF i = 1 THEN 0
                          ELSE NextOffset(Offsets(f)[i - 1] + f[i - 1].width, f[i].width)
    BY <1>1, <1>3, OffsetsUnroll, Zenon
  <2>1. Offsets(f)[1] = 0
    BY <2>0
  <2>2. Offsets(f)[2] = 24
    BY <1>1, <2>0, <2>1 DEF NextOffset
  <2>3. Offsets(f)[3] = 28
    BY <1>1, <2>0, <2>2 DEF NextOffset
  <2> QED
    BY <2>1, <2>2, <2>3
<1>5. Field(word, 23, 0) = low
  <2>1. f[1].bits \subseteq 0 .. (23 - 0) /\ 1 \in 1 .. Len(f)
    BY <1>1, <1>2
  <2>2. ASSUME NEW j \in 1 .. Len(f), j # 1, NEW b \in 0 .. 23
        PROVE  b - Offsets(f)[j] \notin f[j].bits
    BY <1>1, <1>2, <1>4, <2>2, SMTT(30)
  <2>3. 0 \in 0 .. 31 /\ 23 \in 0 .. 31 /\ 0 <= 23
    OBVIOUS
  <2>4. Offsets(f)[1] = 0
    BY <1>4
  <2>5. Field(U(f), 23, 0) = f[1].bits
    BY <2>1, <2>2, <2>3, <2>4, FieldArrives, Zenon
  <2> QED
    BY <1>1, <1>3, <2>5
<1>6. Field(word, 27, 24) = high_pass
  <2>1. f[2].bits \subseteq 0 .. (27 - 24) /\ 2 \in 1 .. Len(f)
    BY <1>1, <1>2
  <2>2. ASSUME NEW j \in 1 .. Len(f), j # 2, NEW b \in 24 .. 27
        PROVE  b - Offsets(f)[j] \notin f[j].bits
    BY <1>1, <1>2, <1>4, <2>2, SMTT(30)
  <2>3. 24 \in 0 .. 31 /\ 27 \in 0 .. 31 /\ 24 <= 27
    OBVIOUS
  <2>4. Offsets(f)[2] = 24
    BY <1>4
  <2>5. Field(U(f), 27, 24) = f[2].bits
    BY <2>1, <2>2, <2>3, <2>4, FieldArrives, Zenon
  <2> QED
    BY <1>1, <1>3, <2>5
<1>7. Field(word, 31, 28) = low_pass
  <2>1. f[3].bits \subseteq 0 .. (31 - 28) /\ 3 \in 1 .. Len(f)
    BY <1>1, <1>2
  <2>2. ASSUME NEW j \in 1 .. Len(f), j # 3, NEW b \in 28 .. 31
        PROVE  b - Offsets(f)[j] \notin f[j].bits
    BY <1>1, <1>2, <1>4, <2>2, SMTT(30)
  <2>3. 28 \in 0 .. 31 /\ 31 \in 0 .. 31 /\ 28 <= 31
    OBVIOUS
  <2>4. Offsets(f)[3] = 28
    BY <1>4
  <2>5. Field(U(f), 31, 28) = f[3].bits
    BY <2>1, <2>2, <2>3, <2>4, FieldArrives, Zenon
  <2> QED
    BY <1>1, <1>3, <2>5
<1> QED
  BY <1>5, <1>6, <1>7 DEF low, high_pass, low_pass


(* Register 2: the shift of the soft clip and the compressor's threshold.     *)
LEMMA ThirdRegister ==
  ASSUME NEW c, NEW word, word = U(Fields(c)[3])
  PROVE  /\ Field(word, 6, 0) = BitsOf(c.shift_qubic, 7)
         /\ Field(word, 30, 7) = BitsOf(c.compressor % 8388608, 24)
<1> DEFINE f == Fields(c)[3]
           qubic == BitsOf(c.shift_qubic, 7)
           compressor == BitsOf(c.compressor % 8388608, 24)
<1>1. /\ Len(f) = 2
      /\ f[1].width = 7 /\ f[1].bits = qubic
      /\ f[2].width = 24 /\ f[2].bits = compressor
  BY DEF Fields, Bit
<1>2. /\ qubic \subseteq 0 .. 6
      /\ compressor \subseteq 0 .. 23
  BY BitsInWidth
<1>3. word = U(f) /\ Len(f) \in 1 .. 5
  BY <1>1
<1> HIDE DEF f, qubic, compressor
<1>4. Offsets(f)[1] = 0 /\ Offsets(f)[2] = 7
  <2>0. \A i \in 1 .. 2 :
          Offsets(f)[i] = IF i = 1 THEN 0
                          ELSE NextOffset(Offsets(f)[i - 1] + f[i - 1].width, f[i].width)
    BY <1>1, <1>3, OffsetsUnroll, Zenon
  <2>1. Offsets(f)[1] = 0
    BY <2>0
  <2>2. Offsets(f)[2] = 7
    BY <1>1, <2>0, <2>1 DEF NextOffset
  <2> QED
    BY <2>1, <2>2
<1>5. Field(word, 6, 0) = qubic
  <2>1. f[1].bits \subseteq 0 .. (6 - 0) /\ 1 \in 1 .. Len(f)
    BY <1>1, <1>2
  <2>2. ASSUME NEW j \in 1 .. Len(f), j # 1, NEW b \in 0 .. 6
        PROVE  b - Offsets(f)[j] \notin f[j].bits
    BY <1>1, <1>2, <1>4, <2>2, SMTT(30)
  <2>3. 0 \in 0 .. 31 /\ 6 \in 0 .. 31 /\ 0 <= 6
    OBVIOUS
  <2>4. Offsets(f)[1] = 0
    BY <1>4
  <2>5. Field(U(f), 6, 0) = f[1].bits
    BY <2>1, <2>2, <2>3, <2>4, FieldArrives, Zenon
  <2> QED
    BY <1>1, <1>3, <2>5
<1>6. Field(word, 30, 7) = compressor
  <2>1. f[2].bits \subseteq 0 .. (30 - 7) /\ 2 \in 1 .. Len(f)
    BY <1>1, <1>2
  <2>2. ASSUME NEW j \in 1 .. Len(f), j # 2, NEW b \in 7 .. 30
        PROVE  b - Offsets(f)[j] \notin f[j].bits
    BY <1>1, <1>2, <1>4, <2>2, SMTT(30)
  <2>3. 7 \in 0 .. 31 /\ 30 \in 0 .. 31 /\ 7 <= 30
    OBVIOUS
  <2>4. Offsets(f)[2] = 7
    BY <1>4
  <2>5. Field(U(f), 30, 7) = f[2].bits
    BY <2>1, <2>2, <2>3, <2>4, FieldArrives, Zenon
  <2> QED
    BY <1>1, <1>3, <2>5
<1> QED
  BY <1>5, <1>6 DEF qubic, compressor


(* Register 3: the normalizer and the oscillator.                            *)
LEMMA FourthRegister ==
  ASSUME NEW c, NEW word, word = U(Fields(c)[4])
  PROVE  /\ Field(word, 4, 0) = BitsOf(Clamp(c.normalizer, 0, 15), 5)
         /\ Field(word, 5, 5) = BitsOf(IF c.enable THEN 1 ELSE 0, 1)
         /\ Field(word, 7, 6) = BitsOf(c.inc, 2)
         /\ Field(word, 10, 8) = BitsOf(c.max_value, 3)
         /\ Field(word, 13, 11) = BitsOf(c.max_time, 3)
<1> DEFINE f == Fields(c)[4]
           norm == BitsOf(Clamp(c.normalizer, 0, 15), 5)
           phase_en == BitsOf(IF c.enable THEN 1 ELSE 0, 1)
           phaseInc == BitsOf(c.inc, 2)
           phaseMaxShift == BitsOf(c.max_value, 3)
           phaseTime == BitsOf(c.max_time, 3)
<1>1. /\ Len(f) = 5
      /\ f[1].width = 5 /\ f[1].bits = norm
      /\ f[2].width = 1 /\ f[2].bits = phase_en
      /\ f[3].width = 2 /\ f[3].bits = phaseInc
      /\ f[4].width = 3 /\ f[4].bits = phaseMaxShift
      /\ f[5].width = 3 /\ f[5].bits = phaseTime
  BY DEF Fields, Bit
<1>2. /\ norm \subseteq 0 .. 4
      /\ phase_en \subseteq 0 .. 0
      /\ phaseInc \subseteq 0 .. 1
      /\ phaseMaxShift \subseteq 0 .. 2
      /\ phaseTime \subseteq 0 .. 2
  BY BitsInWidth
<1>3. word = U(f) /\ Len(f) \in 1 .. 5
  BY <1>1
<1> HIDE DEF f, norm, phase_en, phaseInc, phaseMaxShift, phaseTime
<1>4. Offsets(f)[1] = 0 /\ Offsets(f)[2] = 5 /\ Offsets(f)[3] = 6 /\ Offsets(f)[4] = 8 /\ Offsets(f)[5] = 11
  <2>0. \A i \in 1 .. 5 :
          Offsets(f)[i] = IF i = 1 THEN 0
                          ELSE NextOffset(Offsets(f)[i - 1] + f[i - 1].width, f[i].width)
    BY <1>1, <1>3, OffsetsUnroll, Zenon
  <2>1. Offsets(f)[1] = 0
    BY <2>0
  <2>2. Offsets(f)[2] = 5
    BY <1>1, <2>0, <2>1 DEF NextOffset
  <2>3. Offsets(f)[3] = 6
    BY <1>1, <2>0, <2>2 DEF NextOffset
  <2>4. Offsets(f)[4] = 8
    BY <1>1, <2>0, <2>3 DEF NextOffset
  <2>5. Offsets(f)[5] = 11
    BY <1>1, <2>0, <2>4 DEF NextOffset
  <2> QED
    BY <2>1, <2>2, <2>3, <2>4, <2>5
<1>5. Field(word, 4, 0) = norm
  <2>1. f[1].bits \subseteq 0 .. (4 - 0) /\ 1 \in 1 .. Len(f)
    BY <1>1, <1>2
  <2>2. ASSUME NEW j \in 1 .. Len(f), j # 1, NEW b \in 0 .. 4
        PROVE  b - Offsets(f)[j] \notin f[j].bits
    BY <1>1, <1>2, <1>4, <2>2, SMTT(30)
  <2>3. 0 \in 0 .. 31 /\ 4 \in 0 .. 31 /\ 0 <= 4
    OBVIOUS
  <2>4. Offsets(f)[1] = 0
    BY <1>4
  <2>5. Field(U(f), 4, 0) = f[1].bits
    BY <2>1, <2>2, <2>3, <2>4, FieldArrives, Zenon
  <2> QED
    BY <1>1, <1>3, <2>5
<1>6. Field(word, 5, 5) = phase_en
  <2>1. f[2].bits \subseteq 0 .. (5 - 5) /\ 2 \in 1 .. Len(f)
    BY <1>1, <1>2
  <2>2. ASSUME NEW j \in 1 .. Len(f), j # 2, NEW b \in 5 .. 5
        PROVE  b - Offsets(f)[j] \notin f[j].bits
    BY <1>1, <1>2, <1>4, <2>2, SMTT(30)
  <2>3. 5 \in 0 .. 31 /\ 5 \in 0 .. 31 /\ 5 <= 5
    OBVIOUS
  <2>4. Offsets(f)[2] = 5
    BY <1>4
  <2>5. Field(U(f), 5, 5) = f[2].bits
    BY <2>1, <2>2, <2>3, <2>4, FieldArrives, Zenon
  <2> QED
    BY <1>1, <1>3, <2>5
<1>7. Field(word, 7, 6) = phaseInc
  <2>1. f[3].bits \subseteq 0 .. (7 - 6) /\ 3 \in 1 .. Len(f)
    BY <1>1, <1>2
  <2>2. ASSUME NEW j \in 1 .. Len(f), j # 3, NEW b \in 6 .. 7
        PROVE  b - Offsets(f)[j] \notin f[j].bits
    BY <1>1, <1>2, <1>4, <2>2, SMTT(30)
  <2>3. 6 \in 0 .. 31 /\ 7 \in 0 .. 31 /\ 6 <= 7
    OBVIOUS
  <2>4. Offsets(f)[3] = 6
    BY <1>4
  <2>5. Field(U(f), 7, 6) = f[3].bits
    BY <2>1, <2>2, <2>3, <2>4, FieldArrives, Zenon
  <2> QED
    BY <1>1, <1>3, <2>5
<1>8. Field(word, 10, 8) = phaseMaxShift
  <2>1. f[4].bits \subseteq 0 .. (10 - 8) /\ 4 \in 1 .. Len(f)
    BY <1>1, <1>2
  <2>2. ASSUME NEW j \in 1 .. Len(f), j # 4, NEW b \in 8 .. 10
        PROVE  b - Offsets(f)[j] \notin f[j].bits
    BY <1>1, <1>2, <1>4, <2>2, SMTT(30)
  <2>3. 8 \in 0 .. 31 /\ 10 \in 0 .. 31 /\ 8 <= 10
    OBVIOUS
  <2>4. Offsets(f)[4] = 8
    BY <1>4
  <2>5. Field(U(f), 10, 8) = f[4].bits
    BY <2>1, <2>2, <2>3, <2>4, FieldArrives, Zenon
  <2> QED
    BY <1>1, <1>3, <2>5
<1>9. Field(word, 13, 11) = phaseTime
  <2>1. f[5].bits \subseteq 0 .. (13 - 11) /\ 5 \in 1 .. Len(f)
    BY <1>1, <1>2
  <2>2. ASSUME NEW j \in 1 .. Len(f), j # 5, NEW b \in 11 .. 13
        PROVE  b - Offsets(f)[j] \notin f[j].bits
    BY <1>1, <1>2, <1>4, <2>2, SMTT(30)
  <2>3. 11 \in 0 .. 31 /\ 13 \in 0 .. 31 /\ 11 <= 13
    OBVIOUS
  <2>4. Offsets(f)[5] = 11
    BY <1>4
  <2>5. Field(U(f), 13, 11) = f[5].bits
    BY <2>1, <2>2, <2>3, <2>4, FieldArrives, Zenon
  <2> QED
    BY <1>1, <1>3, <2>5
<1> QED
  BY <1>5, <1>6, <1>7, <1>8, <1>9 DEF norm, phase_en, phaseInc, phaseMaxShift, phaseTime

(* A bit of a number, as a digit.                                            *)
LEMMA BitIs ==
  ASSUME NEW v, NEW w \in 1 .. 6
  PROVE  /\ 0 \in BitsOf(v, w) <=> (v \div 1) % 2 = 1
         /\ w > 1 => (1 \in BitsOf(v, w) <=> (v \div 2) % 2 = 1)
         /\ w > 2 => (2 \in BitsOf(v, w) <=> (v \div 4) % 2 = 1)
         /\ w > 3 => (3 \in BitsOf(v, w) <=> (v \div 8) % 2 = 1)
         /\ w > 4 => (4 \in BitsOf(v, w) <=> (v \div 16) % 2 = 1)
         /\ w > 5 => (5 \in BitsOf(v, w) <=> (v \div 32) % 2 = 1)
<1>1. 2 ^ 0 = 1 /\ 2 ^ 1 = 2 /\ 2 ^ 2 = 4 /\ 2 ^ 3 = 8 /\ 2 ^ 4 = 16 /\ 2 ^ 5 = 32
  BY SMT
<1>2. ASSUME NEW i \in 0 .. 5 PROVE w > i => (i \in BitsOf(v, w) <=> (v \div 2 ^ i) % 2 = 1)
  <2>1. w > i => i \in 0 .. (w - 1)
    OBVIOUS
  <2> QED
    BY <2>1, Zenon DEF BitsOf
<1>3. w > 0 /\ 0 \in 0 .. 5 /\ 1 \in 0 .. 5 /\ 2 \in 0 .. 5 /\ 3 \in 0 .. 5 /\ 4 \in 0 .. 5
      /\ 5 \in 0 .. 5
  OBVIOUS
<1>4. 0 \in BitsOf(v, w) <=> (v \div 1) % 2 = 1
  BY <1>1, <1>2, <1>3, Zenon
<1>5. w > 1 => (1 \in BitsOf(v, w) <=> (v \div 2) % 2 = 1)
  BY <1>1, <1>2, <1>3, Zenon
<1>6. w > 2 => (2 \in BitsOf(v, w) <=> (v \div 4) % 2 = 1)
  BY <1>1, <1>2, <1>3, Zenon
<1>7. w > 3 => (3 \in BitsOf(v, w) <=> (v \div 8) % 2 = 1)
  BY <1>1, <1>2, <1>3, Zenon
<1>8. w > 4 => (4 \in BitsOf(v, w) <=> (v \div 16) % 2 = 1)
  BY <1>1, <1>2, <1>3, Zenon
<1>9. w > 5 => (5 \in BitsOf(v, w) <=> (v \div 32) % 2 = 1)
  BY <1>1, <1>2, <1>3, Zenon
<1> QED
  BY <1>4, <1>5, <1>6, <1>7, <1>8, <1>9

(* The indexes and the step of the oscillator are the numbers put in.        *)
LEMMA NumberOfBits ==
  /\ \A v \in 0 .. 7 : Number(BitsOf(v, 3)) = v
  /\ \A v \in 0 .. 3 : Number(BitsOf(v, 2)) = v
<1>1. ASSUME NEW v \in 0 .. 7 PROVE Number(BitsOf(v, 3)) = v
  <2> DEFINE b == BitsOf(v, 3)
  <2>1. /\ 0 \in b <=> (v \div 1) % 2 = 1
        /\ 1 \in b <=> (v \div 2) % 2 = 1
        /\ 2 \in b <=> (v \div 4) % 2 = 1
    BY BitIs
  <2> HIDE DEF b
  <2>2. Number(b) = v
    BY <2>1 DEF Number, Digit
  <2> QED
    BY <2>2 DEF b
<1>2. ASSUME NEW v \in 0 .. 3 PROVE Number(BitsOf(v, 2)) = v
  <2> DEFINE b == BitsOf(v, 2)
  <2>0. 0 \in b <=> (v \div 1) % 2 = 1
    BY BitIs
  <2>1. 1 \in b <=> (v \div 2) % 2 = 1
    BY BitIs
  <2>2. 2 \notin b
    BY BitsInWidth
  <2> HIDE DEF b
  <2>3. Number(b) = v
    BY <2>0, <2>1, <2>2 DEF Number, Digit
  <2> QED
    BY <2>3 DEF b
<1> QED
  BY <1>1, <1>2

(* The core's gain register is the effect below four bits of gain.           *)
LEMMA GainAndMode ==
  ASSUME NEW m \in 0 .. 3, NEW g \in -128 .. 127
  PROVE  BitsOf(4 * g + m, 6) = BitsOf(m, 2) \cup {i + 2 : i \in BitsOf(g, 6) \cap (0 .. 3)}
<1> DEFINE all == BitsOf(4 * g + m, 6)
           low == BitsOf(m, 2)
           gain == BitsOf(g, 6)
<1>1. all \subseteq 0 .. 5 /\ low \subseteq 0 .. 1 /\ gain \subseteq 0 .. 5
  BY BitsInWidth
<1>2. /\ 0 \in all <=> ((4 * g + m) \div 1) % 2 = 1
      /\ 1 \in all <=> ((4 * g + m) \div 2) % 2 = 1
      /\ 2 \in all <=> ((4 * g + m) \div 4) % 2 = 1
      /\ 3 \in all <=> ((4 * g + m) \div 8) % 2 = 1
      /\ 4 \in all <=> ((4 * g + m) \div 16) % 2 = 1
      /\ 5 \in all <=> ((4 * g + m) \div 32) % 2 = 1
  <2>1. 0 \in all <=> ((4 * g + m) \div 1) % 2 = 1
    BY BitIs
  <2>2. 1 \in all <=> ((4 * g + m) \div 2) % 2 = 1
    BY BitIs
  <2>3. 2 \in all <=> ((4 * g + m) \div 4) % 2 = 1
    BY BitIs
  <2>4. 3 \in all <=> ((4 * g + m) \div 8) % 2 = 1
    BY BitIs
  <2>5. 4 \in all <=> ((4 * g + m) \div 16) % 2 = 1
    BY BitIs
  <2>6. 5 \in all <=> ((4 * g + m) \div 32) % 2 = 1
    BY BitIs
  <2> QED
    BY <2>1, <2>2, <2>3, <2>4, <2>5, <2>6, Zenon
<1>3. 0 \in low <=> (m \div 1) % 2 = 1
  BY BitIs
<1>4. 1 \in low <=> (m \div 2) % 2 = 1
  BY BitIs
<1>5. /\ 0 \in gain <=> (g \div 1) % 2 = 1
      /\ 1 \in gain <=> (g \div 2) % 2 = 1
      /\ 2 \in gain <=> (g \div 4) % 2 = 1
      /\ 3 \in gain <=> (g \div 8) % 2 = 1
  BY BitIs
<1> HIDE DEF all, low, gain
<1>6. /\ 0 \in all <=> 0 \in low
      /\ 1 \in all <=> 1 \in low
      /\ 2 \in all <=> 0 \in gain
      /\ 3 \in all <=> 1 \in gain
      /\ 4 \in all <=> 2 \in gain
      /\ 5 \in all <=> 3 \in gain
  <2>1. /\ ((4 * g + m) \div 1) % 2 = (m \div 1) % 2
        /\ ((4 * g + m) \div 2) % 2 = (m \div 2) % 2
        /\ (4 * g + m) \div 4 = g \div 1
        /\ (4 * g + m) \div 8 = g \div 2
        /\ (4 * g + m) \div 16 = g \div 4
        /\ (4 * g + m) \div 32 = g \div 8
    OBVIOUS
  <2> QED
    BY <1>2, <1>3, <1>4, <1>5, <2>1, Zenon
<1>7. ASSUME NEW j \in 0 .. 5
      PROVE  j \in all <=> j \in low \/ \E i \in gain \cap (0 .. 3) : j = i + 2
  BY <1>1, <1>6
<1>8. {i + 2 : i \in gain \cap (0 .. 3)} \subseteq 0 .. 5 /\ low \subseteq 0 .. 5
  BY <1>1
<1>9. all = low \cup {i + 2 : i \in gain \cap (0 .. 3)}
  BY <1>1, <1>7, <1>8, Zenon
<1> QED
  BY <1>9 DEF all, low, gain

(* Registers as the program computes them from a configuration that fits are *)
(* read by the core as that configuration, but for the high threshold.       *)
LEMMA EncodedIsObeyed ==
  ASSUME NEW c, Fits(c), \A r \in Registers : axi[r] = U(Fields(c)[r + 1])
  PROVE  Obeys(c)
<1>1. /\ axi[0] = U(Fields(c)[1]) /\ axi[1] = U(Fields(c)[2])
      /\ axi[2] = U(Fields(c)[3]) /\ axi[3] = U(Fields(c)[4])
  BY SMT DEF Registers
<1>0. /\ c.isStart \in BOOLEAN /\ c.enable \in BOOLEAN
      /\ c.mode \in 0 .. 3 /\ c.gain \in -128 .. 127
      /\ c.inc \in 0 .. 3 /\ c.max_value \in 0 .. 7 /\ c.max_time \in 0 .. 7
  BY Zenon DEF Fits
<1>2. enableReg = c.isStart /\ Is(gainReg, 4 * c.gain + c.mode, 6)
  <2>1. enableReg <=> 0 \in BitsOf(IF c.isStart THEN 1 ELSE 0, 1)
    BY <1>1, FirstRegister DEF enableReg
  <2>2. enableReg <=> c.isStart
    <3>1. 0 \in BitsOf(1, 1) /\ 0 \notin BitsOf(0, 1)
      <4>1. (1 \div 1) % 2 = 1 /\ (0 \div 1) % 2 = 0
        OBVIOUS
      <4> QED
        BY <4>1, BitIs
    <3> QED
      BY <2>1, <3>1
  <2>3. enableReg \in BOOLEAN /\ c.isStart \in BOOLEAN
    BY <1>0 DEF enableReg
  <2>4. gainReg = BitsOf(c.mode, 2) \cup {i + 2 : i \in BitsOf(c.gain, 6) \cap (0 .. 3)}
    BY <1>1, FirstRegister DEF gainReg
  <2>5. gainReg = BitsOf(4 * c.gain + c.mode, 6)
    BY <1>0, <2>4, GainAndMode
  <2> QED
    BY <2>2, <2>3, <2>5, Zenon DEF Is
<1>3. /\ Is(thresholdLow, Clamp(c.threshold_low, -8388608, 8388607), 24)
      /\ Is(highPassShift, Clamp(c.highpass, -8, 7), 4)
      /\ Is(lowPassShift, Clamp(c.lowpass, -8, 7), 4)
  BY <1>1, SecondRegister, SMT DEF Is, thresholdLow, highPassShift, lowPassShift
<1>4. Is(distortionShift, c.shift_qubic, 7) /\ Is(CompressorThresh, c.compressor, 24)
  <2>0. CompressorFits(c)
    BY Zenon DEF Fits
  <2>1. c.compressor % 8388608 = c.compressor
    BY <2>0, SMT DEF CompressorFits
  <2> QED
    BY <1>1, <2>1, ThirdRegister, SMT DEF Is, distortionShift, CompressorThresh
<1>5. Is(normalizer, Clamp(c.normalizer, 0, 15), 5)
  BY <1>1, FourthRegister DEF Is, normalizer
<1>6. phaseEnable = c.enable
  <2>1. Field(axi[3], 5, 5) = BitsOf(IF c.enable THEN 1 ELSE 0, 1)
    BY <1>1, FourthRegister
  <2>2. phaseEnable <=> 0 \in Field(axi[3], 5, 5)
    <3>1. \A i \in 5 .. 5 : i - 5 = 0 /\ i = 5
      OBVIOUS
    <3>2. 5 \in 5 .. 5 /\ 5 - 5 = 0
      OBVIOUS
    <3> QED
      BY <3>1, <3>2 DEF Field, phaseEnable
  <2>3. 0 \in BitsOf(1, 1) /\ 0 \notin BitsOf(0, 1)
    <3>1. (1 \div 1) % 2 = 1 /\ (0 \div 1) % 2 = 0
      OBVIOUS
    <3> QED
      BY <3>1, BitIs
  <2>4. phaseEnable <=> c.enable
    BY <2>1, <2>2, <2>3
  <2>5. phaseEnable \in BOOLEAN
    BY DEF phaseEnable
  <2> QED
    BY <1>0, <2>4, <2>5, Zenon
<1>7. /\ PhaseInc(axi[3]) = c.inc
      /\ PhaseMaxIdx(axi[3]) = c.max_value
      /\ PhaseTimeIdx(axi[3]) = c.max_time
  <2>1. /\ Field(axi[3], 7, 6) = BitsOf(c.inc, 2)
        /\ Field(axi[3], 10, 8) = BitsOf(c.max_value, 3)
        /\ Field(axi[3], 13, 11) = BitsOf(c.max_time, 3)
    BY <1>1, FourthRegister
  <2>2. c.inc \in 0 .. 3 /\ c.max_value \in 0 .. 7 /\ c.max_time \in 0 .. 7
    BY <1>0
  <2> QED
    BY <2>1, <2>2, NumberOfBits DEF PhaseInc, PhaseMaxIdx, PhaseTimeIdx
<1> QED
  BY <1>2, <1>3, <1>4, <1>5, <1>6, <1>7, SMT DEF Obeys

-----------------------------------------------------------------------------
(* What has been written of a round, which is of one configuration.          *)
Round ==
  /\ pc \in {"cfg1", "cfg2", "cfg3", "cfg4"} => regs = Encode[cfg]
  /\ pc = "sleep" => \E c \in Configs \cup {Started} : regs = Encode[c]
  /\ pc \in {"cfg2", "cfg3", "cfg4", "sleep"} => slv_reg[0] = regs[0]
  /\ pc \in {"cfg3", "cfg4", "sleep"} => slv_reg[1] = regs[1]
  /\ pc \in {"cfg4", "sleep"} => slv_reg[2] = regs[2]
  /\ pc = "sleep" => slv_reg[3] = regs[3]

(* A round writes the configuration it began with, and when the program      *)
(* wakes up the core obeys it in every field but one.                        *)
RoundArrives ==
  /\ pc \in {"cfg1", "cfg2", "cfg3", "cfg4"} => regs = Encode[cfg]
  /\ pc = "sleep" /\ Settled =>
       \E c \in Configs \cup {Started} : regs = Encode[c] /\ Obeys(c)

(* Whatever the program has written, the high threshold in the core is one   *)
(* bit, and not of the threshold.                                            *)
HighThresholdLost == pc = "sleep" /\ Settled => thresholdHigh \subseteq {0}

(* Each write of the round adds a register to those that agree.              *)
LEMMA RoundStep ==
  ASSUME PedalInv, Round, [PedalNext]_pedalVars
  PROVE  Round'
<1>1. slv_reg \in [Registers -> Word] /\ cfg \in Configs \cup {Default, Started}
  BY DEF PedalInv, CoreInv, CpuInv
<1>2. CASE I2c_Init \/ CodecWrite \/ ClearCore
  <2>1. pc' \in {"codec", "stopped", "zero1", "zero2", "set"}
    BY <1>2 DEF I2c_Init, CodecWrite, ClearCore, Zero, To
  <2> QED
    BY <2>1 DEF Round
<1>3. CASE Set
  <2>1. pc' = "cfg1" /\ regs' = Encode[cfg']
    BY <1>3 DEF Set
  <2> QED
    BY <2>1 DEF Round
<1>4. ASSUME NEW at, NEW r \in Registers, NEW next, WriteReg(at, r, next)
      PROVE  /\ UNCHANGED <<regs, cfg>> /\ pc = at /\ pc' = next
             /\ slv_reg'[r] = regs[r]
             /\ \A q \in Registers : q # r => slv_reg'[q] = slv_reg[q]
  BY <1>1, <1>4 DEF WriteReg, AxiWrite
<1>5. CASE WriteReg("cfg1", 0, "cfg2")
  BY <1>4, <1>5 DEF Round, Registers
<1>6. CASE WriteReg("cfg2", 1, "cfg3")
  <2>1. /\ UNCHANGED <<regs, cfg>> /\ pc = "cfg2" /\ pc' = "cfg3"
        /\ slv_reg'[1] = regs[1] /\ slv_reg'[0] = slv_reg[0]
    BY <1>4, <1>6 DEF Registers
  <2> QED
    BY <2>1 DEF Round
<1>7. CASE WriteReg("cfg3", 2, "cfg4")
  <2>1. /\ UNCHANGED <<regs, cfg>> /\ pc = "cfg3" /\ pc' = "cfg4"
        /\ slv_reg'[2] = regs[2] /\ slv_reg'[0] = slv_reg[0] /\ slv_reg'[1] = slv_reg[1]
    BY <1>4, <1>7 DEF Registers
  <2> QED
    BY <2>1 DEF Round
<1>8. CASE WriteReg("cfg4", 3, "sleep")
  <2>1. /\ UNCHANGED <<regs, cfg>> /\ pc = "cfg4" /\ pc' = "sleep"
        /\ slv_reg'[3] = regs[3] /\ slv_reg'[0] = slv_reg[0] /\ slv_reg'[1] = slv_reg[1]
        /\ slv_reg'[2] = slv_reg[2]
    <3>1. 3 \in Registers /\ \A q \in {0, 1, 2} : q \in Registers /\ q # 3
      BY DEF Registers
    <3> QED
      BY <1>4, <1>8, <3>1
  <2>2. cfg \in Configs \cup {Started}
    BY <2>1 DEF PedalInv, CpuInv
  <2> QED
    BY <2>1, <2>2 DEF Round
<1>9. CASE Configure
  <2>1. pc = "sleep" /\ UNCHANGED <<slv_reg, pc, regs>>
    BY <1>9 DEF Configure, coreVars
  <2> QED
    BY <2>1 DEF Round
<1>10. CASE \E sample \in BOOLEAN : CoreClock(sample)
  <2>1. UNCHANGED <<slv_reg, pc, regs, cfg>>
    BY <1>10 DEF CoreClock, Clock, cpuVars
  <2> QED
    BY <2>1 DEF Round
<1>11. CASE UNCHANGED pedalVars
  <2>1. UNCHANGED <<slv_reg, pc, regs, cfg>>
    BY <1>11 DEF pedalVars, cpuVars, coreVars
  <2> QED
    BY <2>1 DEF Round
<1> QED
  BY <1>2, <1>3, <1>5, <1>6, <1>7, <1>8, <1>9, <1>10, <1>11 DEF PedalNext, Cpu, WriteRegs

(* Rounds are whole at all times.                                            *)
LEMMA RoundsAreWhole == PedalSpec => [](PedalInv /\ Round)
<1>1. PedalInit => Round
  BY DEF PedalInit, Round
<1>2. PedalInv /\ Round /\ [PedalNext]_pedalVars => Round'
  BY RoundStep
<1> QED
  BY <1>1, <1>2, PedalInvariant, PTL DEF PedalSpec

(* At the end of a round that has settled, the core's registers are those of *)
(* a configuration.                                                          *)
LEMMA RoundEnds ==
  ASSUME PedalInv, Round, pc = "sleep", Settled
  PROVE  \E c \in Configs \cup {Started} :
           regs = Encode[c] /\ \A r \in Registers : axi[r] = U(Fields(c)[r + 1])
<1>1. PICK c \in Configs \cup {Started} : regs = Encode[c]
  BY DEF Round
<1>2. \A r \in Registers : axi[r] = regs[r]
  <2>1. \A r \in {0, 1, 2, 3} : axi[r] = regs[r]
    BY DEF Round, Settled
  <2> QED
    BY <2>1 DEF Registers
<1>3. \A r \in Registers : regs[r] = U(Fields(c)[r + 1])
  BY <1>1, Zenon DEF Encode
<1> QED
  BY <1>1, <1>2, <1>3

(* For every set of configurations that fit their bit fields: each round of  *)
(* PedalBoard_100ms delivers all fields but the high threshold to the places *)
(* the effects read them from (I2s.c's structures, GuitarPresets.vhd's       *)
(* slices), before the next round begins.                                    *)
THEOREM SettledCoreObeys ==
  ASSUME \A c \in Configs \cup {Started} : Fits(c)
  PROVE  PedalSpec => []RoundArrives
<1>1. PedalInv /\ Round => RoundArrives
  <2>1. ASSUME PedalInv, Round, pc = "sleep", Settled
        PROVE  \E c \in Configs \cup {Started} : regs = Encode[c] /\ Obeys(c)
    BY <2>1, RoundEnds, EncodedIsObeyed
  <2> QED
    BY <2>1, Zenon DEF RoundArrives, Round
<1> QED
  BY <1>1, RoundsAreWhole, PTL

(* For every configuration whatever, the high threshold is lost on the way:  *)
(* it starts a second word of Pedalboard_cfg1_Bits, which is not written.    *)
THEOREM HighThresholdIsLost == PedalSpec => []HighThresholdLost
<1>1. PedalInv /\ Round => HighThresholdLost
  <2> SUFFICES ASSUME PedalInv, Round, pc = "sleep", Settled PROVE thresholdHigh \subseteq {0}
    BY DEF HighThresholdLost
  <2>1. PICK c \in Configs \cup {Started} : \A r \in Registers : axi[r] = U(Fields(c)[r + 1])
    BY RoundEnds
  <2>2. axi[0] = U(Fields(c)[1])
    BY <2>1, SMT DEF Registers
  <2> QED
    BY <2>2, FirstRegister DEF thresholdHigh
<1> QED
  BY <1>1, RoundsAreWhole, PTL
=============================================================================
