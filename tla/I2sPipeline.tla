----------------------------- MODULE I2sPipeline -----------------------------
(***************************************************************************)
(* The sample path of the guitar pedal's FPGA core                         *)
(* (src/PedalBoardProject/PedalBoard): I2sRx.vhd collects the codec's left *)
(* and right words, the AXIS process of I2sTx.vhd takes each pair through  *)
(* the effects into a buffer of two, and its data process shifts the pairs *)
(* out again.  I2sTx also makes the bit clock and the left/right clock     *)
(* from mclk, and GuitarPresets.vhd brings the enable bit of register 0    *)
(* over from the AXI clock.                                                *)
(*                                                                         *)
(* One Tick is one rising edge of mclk: every process reads the signals as *)
(* they were before the edge, as in VHDL, so Tick is the conjunction of    *)
(* the processes.  The word the codec sends in frame n is named n (modulo  *)
(* Frames; 0 is silence), and the effects leave the name alone: they are   *)
(* arithmetic on values that the control below never looks at.  The edge   *)
(* registers of I2sRx and of I2sTx are the same and are kept once.         *)
(***************************************************************************)
EXTENDS Naturals

CONSTANTS
  SlotBits,     (* Bit clocks in half a frame: 32.                          *)
  WordBits,     (* Bits of a word: 24.                                      *)
  PadBits,      (* Last padding bit after a word: 6.                        *)
  Frames,       (* Names for frames before they repeat.                     *)
  HostGap       (* Bound: mclk cycles the host lets pass between changes of *)
                (* the enable bit.                                          *)

ASSUME SizesAssumption ==
  /\ SlotBits \in Nat /\ WordBits \in Nat \ {0} /\ PadBits \in Nat
  /\ PadBits >= 2 /\ WordBits + PadBits < SlotBits     (* A word fits in half a frame *)
  /\ Frames \in Nat /\ Frames > 2
  /\ HostGap \in Nat

VARIABLES
  sclk_cnt, sclk_out, lrclk_cnt, lrclk_out,         (* I2sTx: clocks        *)
  sclk_prev, sclk_curr, lrclk_prev, lrclk_cur       (* edge registers       *)

VARIABLES
  i2sRxStart,       (* I2sRx: the half being received, from its first edge  *)
  dataIdx_cnt,      (* I2sRx: bits of this half so far                      *)
  left_valid, right_valid, fifo_full,
  stream_left, stream_right,                        (* I2sRx: the words     *)
  frame             (* The codec: the frame it is sending                   *)

VARIABLES
  reg0,             (* Host: the enable bit of register 0                   *)
  sync1, sync2, configReg,                          (* GuitarPresets: CDC   *)
  sinceWrite        (* mclk cycles since it changed, counted to HostGap     *)

VARIABLES
  axis_control_state, axis_release_fifo,
  work,             (* The pair on its way through the effects              *)
  dataLoc,          (* i2sRx_dataLoc: the buffer of two pairs               *)
  readIdx,          (* i2sRx_dataLocReadIdx: where the next pair goes       *)
  i2sTx_Enable

VARIABLES
  i2sTx_State, dataIdx, paddingIdx,
  channelNum, dataTmp, changeCounter,
  writeIdx,         (* i2sRx_dataLocWriteIdx: where the next pair is taken  *)
  mute

clockVars == <<sclk_cnt, sclk_out, lrclk_cnt, lrclk_out>>
edgeVars  == <<sclk_prev, sclk_curr, lrclk_prev, lrclk_cur>>
rxVars    == <<i2sRxStart, dataIdx_cnt, left_valid, right_valid, fifo_full, stream_left, stream_right, frame>>
hostVars  == <<reg0, sinceWrite>>
syncVars  == <<sync1, sync2, configReg>>
axisVars  == <<axis_control_state, axis_release_fifo, work, dataLoc, readIdx, i2sTx_Enable>>
txVars    == <<i2sTx_State, dataIdx, paddingIdx, channelNum, dataTmp, changeCounter, writeIdx, mute>>
vars      == <<clockVars, edgeVars, rxVars, hostVars, syncVars, axisVars, txVars>>

Silence == <<0, 0>>
NextFrame(n) == IF n = Frames - 1 THEN 1 ELSE n + 1

SclkRises == ~sclk_prev /\ sclk_curr
LrRises   == ~lrclk_prev /\ lrclk_cur
LrFalls   == lrclk_prev /\ ~lrclk_cur

-----------------------------------------------------------------------------
(* Seeded fault: a half frame of one slot more.                              *)
ClockGenLong ==
  /\ IF sclk_cnt = 1
       THEN sclk_cnt' = 0 /\ sclk_out' = ~sclk_out
       ELSE sclk_cnt' = sclk_cnt + 1 /\ UNCHANGED sclk_out
  /\ IF sclk_cnt = 1 /\ sclk_out
       THEN IF lrclk_cnt = SlotBits
              THEN lrclk_cnt' = 0 /\ lrclk_out' = ~lrclk_out
              ELSE lrclk_cnt' = lrclk_cnt + 1 /\ UNCHANGED lrclk_out
       ELSE UNCHANGED <<lrclk_cnt, lrclk_out>>
  /\ frame' = IF ~lrclk_out /\ lrclk_out' THEN NextFrame(frame) ELSE frame

(* I2sTx: the bit clock toggles every second mclk; lrclk toggles with the    *)
(* last falling bit clock of a half.  The codec starts a frame with lrclk    *)
(* high.                                                                     *)
ClockGen ==
  /\ IF sclk_cnt = 1
       THEN sclk_cnt' = 0 /\ sclk_out' = ~sclk_out
       ELSE sclk_cnt' = sclk_cnt + 1 /\ UNCHANGED sclk_out
  /\ IF sclk_cnt = 1 /\ sclk_out
       THEN IF lrclk_cnt = SlotBits - 1
              THEN lrclk_cnt' = 0 /\ lrclk_out' = ~lrclk_out
              ELSE lrclk_cnt' = lrclk_cnt + 1 /\ UNCHANGED lrclk_out
       ELSE UNCHANGED <<lrclk_cnt, lrclk_out>>
  /\ frame' = IF ~lrclk_out /\ lrclk_out' THEN NextFrame(frame) ELSE frame

EdgeRegs ==
  /\ sclk_prev' = sclk_curr /\ sclk_curr' = sclk_out
  /\ lrclk_prev' = lrclk_cur /\ lrclk_cur' = lrclk_out

-----------------------------------------------------------------------------
(* Seeded fault: one word is enough for a pair.                              *)
ReceiveEither ==
  LET bit  == SclkRises /\ i2sRxStart # "none"
      word == bit /\ dataIdx_cnt = WordBits
      full == left_valid \/ right_valid
  IN
  /\ i2sRxStart' = IF LrRises THEN "left" ELSE IF LrFalls THEN "right" ELSE i2sRxStart
  /\ dataIdx_cnt' = IF bit THEN IF dataIdx_cnt = SlotBits - 1 THEN 0 ELSE dataIdx_cnt + 1
                           ELSE dataIdx_cnt
  /\ stream_left'  = IF word /\ i2sRxStart = "left"  THEN frame ELSE stream_left
  /\ stream_right' = IF word /\ i2sRxStart = "right" THEN frame ELSE stream_right
  /\ IF full /\ axis_release_fifo
       THEN left_valid' = FALSE /\ right_valid' = FALSE
       ELSE /\ left_valid'  = (left_valid  \/ (word /\ i2sRxStart = "left"))
            /\ right_valid' = (right_valid \/ (word /\ i2sRxStart = "right"))
  /\ fifo_full' = IF full THEN ~axis_release_fifo ELSE fifo_full

(* I2sRx: dataIdx_cnt counts the slots of a half and wraps on its own; the   *)
(* word is complete at its bit 24.                                           *)
Receive ==
  LET bit  == SclkRises /\ i2sRxStart # "none"
      word == bit /\ dataIdx_cnt = WordBits
      full == left_valid /\ right_valid
  IN
  /\ i2sRxStart' = IF LrRises THEN "left" ELSE IF LrFalls THEN "right" ELSE i2sRxStart
  /\ dataIdx_cnt' = IF bit THEN IF dataIdx_cnt = SlotBits - 1 THEN 0 ELSE dataIdx_cnt + 1
                           ELSE dataIdx_cnt
  /\ stream_left'  = IF word /\ i2sRxStart = "left"  THEN frame ELSE stream_left
  /\ stream_right' = IF word /\ i2sRxStart = "right" THEN frame ELSE stream_right
  /\ IF full /\ axis_release_fifo
       THEN left_valid' = FALSE /\ right_valid' = FALSE
       ELSE /\ left_valid'  = (left_valid  \/ (word /\ i2sRxStart = "left"))
            /\ right_valid' = (right_valid \/ (word /\ i2sRxStart = "right"))
  /\ fifo_full' = IF full THEN ~axis_release_fifo ELSE fifo_full

(* GuitarPresets: two synchronising registers and the one that is used.      *)
Synchronise ==
  /\ sync1' = reg0
  /\ sync2' = sync1
  /\ configReg' = sync2

-----------------------------------------------------------------------------
(* The AXIS process of I2sTx, one operator per state.                        *)

(* The branch every waiting state takes when the core is disabled.           *)
AxisDisable ==
  /\ dataLoc' = [i \in {0, 1} |-> Silence]
  /\ readIdx' = 0
  /\ i2sTx_Enable' = FALSE
  /\ axis_release_fifo' = TRUE
  /\ axis_control_state' = "IDLE_AXIS"
  /\ UNCHANGED work

AxisIdle ==
  /\ axis_control_state = "IDLE_AXIS"
  /\ IF configReg
       THEN axis_release_fifo' = FALSE /\ axis_control_state' = "WAIT_AXIS_FIFO_FULL"
       ELSE UNCHANGED <<axis_release_fifo, axis_control_state>>
  /\ UNCHANGED <<work, dataLoc, readIdx, i2sTx_Enable>>

(* Seeded faults: the receiver is not told to go on; a disabled core is not  *)
(* noticed here.                                                             *)
AxisWaitFullKeeps ==
  /\ axis_control_state = "WAIT_AXIS_FIFO_FULL"
  /\ IF fifo_full
       THEN /\ work' = <<stream_left, stream_right>>
            /\ axis_control_state' = "HIGH_PASS"
            /\ UNCHANGED <<axis_release_fifo, dataLoc, readIdx, i2sTx_Enable>>
       ELSE IF ~configReg THEN AxisDisable ELSE UNCHANGED axisVars

AxisWaitFullOnly ==
  /\ axis_control_state = "WAIT_AXIS_FIFO_FULL"
  /\ IF fifo_full
       THEN /\ work' = <<stream_left, stream_right>>
            /\ axis_release_fifo' = TRUE
            /\ axis_control_state' = "HIGH_PASS"
            /\ UNCHANGED <<dataLoc, readIdx, i2sTx_Enable>>
       ELSE UNCHANGED axisVars

AxisWaitFull ==
  /\ axis_control_state = "WAIT_AXIS_FIFO_FULL"
  /\ IF fifo_full
       THEN /\ work' = <<stream_left, stream_right>>
            /\ axis_release_fifo' = TRUE
            /\ axis_control_state' = "HIGH_PASS"
            /\ UNCHANGED <<dataLoc, readIdx, i2sTx_Enable>>
       ELSE IF ~configReg THEN AxisDisable ELSE UNCHANGED axisVars

HighPass ==
  /\ axis_control_state = "HIGH_PASS"
  /\ axis_control_state' = "CHECK_DISTORTION"
  /\ UNCHANGED <<axis_release_fifo, work, dataLoc, readIdx, i2sTx_Enable>>

CheckDistortion ==
  /\ axis_control_state = "CHECK_DISTORTION"
  /\ IF ~fifo_full
       THEN /\ axis_release_fifo' = FALSE
            /\ axis_control_state' = "LOW_PASS"
            /\ UNCHANGED <<work, dataLoc, readIdx, i2sTx_Enable>>
       ELSE IF ~configReg THEN AxisDisable ELSE UNCHANGED axisVars

LowPass ==
  /\ axis_control_state = "LOW_PASS"
  /\ axis_control_state' = "PHASE_CYCLE"
  /\ UNCHANGED <<axis_release_fifo, work, dataLoc, readIdx, i2sTx_Enable>>

PhaseCycle ==
  /\ axis_control_state = "PHASE_CYCLE"
  /\ dataLoc' = [dataLoc EXCEPT ![readIdx] = work]
  /\ IF i2sTx_Enable
       THEN axis_control_state' = "WAIT_RESTART" /\ UNCHANGED <<readIdx, i2sTx_Enable>>
       ELSE /\ readIdx' = 1 - readIdx
            /\ i2sTx_Enable' = TRUE
            /\ axis_control_state' = "WAIT_AXIS_FIFO_FULL"
  /\ UNCHANGED <<axis_release_fifo, work>>

WaitRestart ==
  /\ axis_control_state = "WAIT_RESTART"
  /\ IF readIdx = writeIdx
       THEN /\ readIdx' = 1 - readIdx
            /\ axis_control_state' = "WAIT_AXIS_FIFO_FULL"
            /\ UNCHANGED <<axis_release_fifo, work, dataLoc, i2sTx_Enable>>
       ELSE IF ~configReg THEN AxisDisable ELSE UNCHANGED axisVars

AxisControl ==
  AxisIdle \/ AxisWaitFull \/ HighPass \/ CheckDistortion \/ LowPass \/ PhaseCycle \/ WaitRestart

-----------------------------------------------------------------------------
(* The data process of I2sTx, one operator per state.                        *)

TxIdle ==
  /\ i2sTx_State = "IDLE_TX"
  /\ IF i2sTx_Enable
       THEN /\ changeCounter' = 0
            /\ paddingIdx' = PadBits
            /\ mute' = TRUE
            /\ i2sTx_State' = "DETECT_CHANNEL"
       ELSE UNCHANGED <<changeCounter, paddingIdx, mute, i2sTx_State>>
  /\ UNCHANGED <<dataIdx, channelNum, dataTmp, writeIdx>>

(* Of the two halves of a frame the first takes a pair (or silence, when     *)
(* there is none), the second moves the index on.                            *)
DetectChannel ==
  /\ i2sTx_State = "DETECT_CHANNEL"
  /\ IF LrRises \/ LrFalls
       THEN /\ channelNum' = IF LrRises THEN 0 ELSE 1
            /\ IF changeCounter = 1
                 THEN writeIdx' = 1 - writeIdx /\ UNCHANGED dataTmp
                 ELSE /\ dataTmp' = IF readIdx = writeIdx THEN Silence ELSE dataLoc[writeIdx]
                      /\ UNCHANGED writeIdx
            /\ changeCounter' = 1 - changeCounter
            /\ dataIdx' = 0
            /\ i2sTx_State' = "FILL_DATA"
       ELSE UNCHANGED <<channelNum, writeIdx, dataTmp, changeCounter, dataIdx, i2sTx_State>>
  /\ UNCHANGED <<paddingIdx, mute>>

FillData ==
  /\ i2sTx_State = "FILL_DATA"
  /\ IF SclkRises
       THEN IF dataIdx = WordBits - 1
              THEN dataIdx' = 0 /\ i2sTx_State' = "PADDING_DATA"
              ELSE dataIdx' = dataIdx + 1 /\ UNCHANGED i2sTx_State
       ELSE UNCHANGED <<dataIdx, i2sTx_State>>
  /\ UNCHANGED <<paddingIdx, channelNum, dataTmp, changeCounter, writeIdx, mute>>

(* Seeded faults: a stop leaves the index where it is; two slots too many.   *)
PaddingDataKeeps ==
  /\ i2sTx_State = "PADDING_DATA"
  /\ IF SclkRises
       THEN IF paddingIdx = PadBits
              THEN /\ paddingIdx' = 0
                   /\ IF i2sTx_Enable
                        THEN i2sTx_State' = "DETECT_CHANNEL" /\ UNCHANGED writeIdx
                        ELSE i2sTx_State' = "IDLE_TX" /\ UNCHANGED writeIdx
              ELSE paddingIdx' = paddingIdx + 1 /\ UNCHANGED <<i2sTx_State, writeIdx>>
       ELSE UNCHANGED <<paddingIdx, i2sTx_State, writeIdx>>
  /\ UNCHANGED <<dataIdx, channelNum, dataTmp, changeCounter, mute>>

PaddingDataLong ==
  /\ i2sTx_State = "PADDING_DATA"
  /\ IF SclkRises
       THEN IF paddingIdx = PadBits + 2
              THEN /\ paddingIdx' = 0
                   /\ IF i2sTx_Enable
                        THEN i2sTx_State' = "DETECT_CHANNEL" /\ UNCHANGED writeIdx
                        ELSE i2sTx_State' = "IDLE_TX" /\ writeIdx' = 0
              ELSE paddingIdx' = paddingIdx + 1 /\ UNCHANGED <<i2sTx_State, writeIdx>>
       ELSE UNCHANGED <<paddingIdx, i2sTx_State, writeIdx>>
  /\ UNCHANGED <<dataIdx, channelNum, dataTmp, changeCounter, mute>>

PaddingData ==
  /\ i2sTx_State = "PADDING_DATA"
  /\ IF SclkRises
       THEN IF paddingIdx = PadBits
              THEN /\ paddingIdx' = 0
                   /\ IF i2sTx_Enable
                        THEN i2sTx_State' = "DETECT_CHANNEL" /\ UNCHANGED writeIdx
                        ELSE i2sTx_State' = "IDLE_TX" /\ writeIdx' = 0
              ELSE paddingIdx' = paddingIdx + 1 /\ UNCHANGED <<i2sTx_State, writeIdx>>
       ELSE UNCHANGED <<paddingIdx, i2sTx_State, writeIdx>>
  /\ UNCHANGED <<dataIdx, channelNum, dataTmp, changeCounter, mute>>

DataControl == TxIdle \/ DetectChannel \/ FillData \/ PaddingData

-----------------------------------------------------------------------------
Tick ==
  /\ ClockGen /\ EdgeRegs /\ Receive /\ Synchronise /\ AxisControl /\ DataControl
  /\ sinceWrite' = IF sinceWrite = HostGap THEN HostGap ELSE sinceWrite + 1
  /\ UNCHANGED reg0

(* The host changes bit 0 of register 0: PedalBoard_Init clears it and sets  *)
(* it 100 ms later, PedalBoard_100ms writes isStart to it every 100 ms.      *)
WriteEnable ==
  /\ sinceWrite = HostGap
  /\ reg0' = ~reg0
  /\ sinceWrite' = 0
  /\ UNCHANGED <<clockVars, edgeVars, rxVars, syncVars, axisVars, txVars>>

Init ==
  /\ sclk_cnt = 0 /\ sclk_out = FALSE /\ lrclk_cnt = 0 /\ lrclk_out = TRUE
  /\ sclk_prev = FALSE /\ sclk_curr = FALSE /\ lrclk_prev = FALSE /\ lrclk_cur = FALSE
  /\ i2sRxStart = "none" /\ dataIdx_cnt = 0
  /\ left_valid = FALSE /\ right_valid = FALSE /\ fifo_full = FALSE
  /\ stream_left = 0 /\ stream_right = 0 /\ frame = 1
  /\ reg0 = FALSE /\ sync1 = FALSE /\ sync2 = FALSE /\ configReg = FALSE /\ sinceWrite = HostGap
  /\ axis_control_state = "IDLE_AXIS" /\ axis_release_fifo = TRUE
  /\ work = Silence /\ dataLoc = [i \in {0, 1} |-> Silence] /\ readIdx = 0 /\ i2sTx_Enable = FALSE
  /\ i2sTx_State = "IDLE_TX" /\ dataIdx = 0 /\ paddingIdx = 0 /\ channelNum = 0
  /\ dataTmp = Silence /\ changeCounter = 0 /\ writeIdx = 0 /\ mute = FALSE

Next == Tick \/ WriteEnable

Spec == Init /\ [][Next]_vars

(* The clock runs.                                                           *)
FairSpec == Spec /\ WF_vars(Tick)

-----------------------------------------------------------------------------
Words == 0 .. (Frames - 1)

PipelineTypeOK ==
  /\ sclk_cnt \in 0 .. 1 /\ lrclk_cnt \in 0 .. (SlotBits - 1)
  /\ {sclk_out, lrclk_out, sclk_prev, sclk_curr, lrclk_prev, lrclk_cur} \subseteq BOOLEAN
  /\ i2sRxStart \in {"none", "left", "right"}
  /\ dataIdx_cnt \in 0 .. (SlotBits - 1)
  /\ {left_valid, right_valid, fifo_full, reg0, sync1, sync2, configReg} \subseteq BOOLEAN
  /\ {frame, stream_left, stream_right} \subseteq Words
  /\ axis_control_state \in {"IDLE_AXIS", "WAIT_AXIS_FIFO_FULL", "HIGH_PASS", "CHECK_DISTORTION",
                             "LOW_PASS", "PHASE_CYCLE", "WAIT_RESTART"}
  /\ {axis_release_fifo, i2sTx_Enable, mute} \subseteq BOOLEAN
  /\ work \in Words \X Words /\ dataTmp \in Words \X Words
  /\ dataLoc \in [{0, 1} -> Words \X Words]
  /\ {readIdx, writeIdx, channelNum, changeCounter} \subseteq {0, 1}
  /\ i2sTx_State \in {"IDLE_TX", "DETECT_CHANNEL", "FILL_DATA", "PADDING_DATA"}
  /\ dataIdx \in 0 .. (WordBits - 1) /\ paddingIdx \in 0 .. PadBits

(* A word and its padding are out before the next half begins: the data      *)
(* process is never still busy when an edge of lrclk passes, so no half      *)
(* frame is skipped (24 bits, 7 of padding, 32 slots).                       *)
EdgesSeen ==
  i2sTx_State \in {"FILL_DATA", "PADDING_DATA"} => ~LrRises /\ ~LrFalls

(* Left and right of a pair are of one frame, from the receiver to the       *)
(* buffer, although the receiver's two words are overwritten whether or not  *)
(* they were taken.                                                          *)
PairsAligned ==
  /\ work[1] = work[2]
  /\ \A i \in {0, 1} : dataLoc[i][1] = dataLoc[i][2]
  /\ dataTmp[1] = dataTmp[2]

(* Every pair is played once and in its turn.  While the core is enabled,   *)
(* the data process never finds the buffer empty, and a pair it takes after  *)
(* another is that of the next frame: none is dropped, repeated or replaced  *)
(* by silence, across any number of stops and restarts.  (The padding index  *)
(* is PadBits only before the first pair of a start.)                        *)
TakesPair == i2sTx_State = "DETECT_CHANNEL" /\ i2sTx_State' = "FILL_DATA" /\ changeCounter = 0
Gapless ==
  [][ TakesPair /\ i2sTx_Enable =>
        /\ dataTmp' # Silence
        /\ paddingIdx # PadBits => dataTmp'[1] = NextFrame(dataTmp[1]) ]_vars

(* An enabled core plays: from some time on every half frame carries sound.  *)
Plays == <>[]reg0 => <>[](i2sTx_Enable /\ (i2sTx_State = "FILL_DATA" => dataTmp # Silence))

(* A disabled core comes to rest with its buffer indices equal, which is how *)
(* the next start must find them.                                            *)
Stops ==
  <>[]~reg0 => <>[](/\ axis_control_state = "IDLE_AXIS" /\ i2sTx_State = "IDLE_TX"
                    /\ readIdx = 0 /\ writeIdx = 0)
=============================================================================
