-------------------------- MODULE I2sPipeline_proofs --------------------------
(***************************************************************************)
(* The sample path for all sizes in which a word and its padding fit in    *)
(* half a frame, and for a host that changes the enable bit at any cycle:  *)
(* no edge of lrclk passes unseen, and left and right of a pair are of one *)
(* frame.  With a frame between two changes, every pair is played once and *)
(* in its turn.                                                            *)
(*                                                                         *)
(* The argument is one of position.  The clocks say at which cycle of      *)
(* which half of a frame the core is (cycle, lrclk_out); the invariants    *)
(* say for each process where in the frame it can be in which state.       *)
(***************************************************************************)
EXTENDS I2sPipeline, Integers, TLAPS

(* The cycle of this half: four to a bit clock.                              *)
cycle == 4 * lrclk_cnt + (IF sclk_out THEN 2 ELSE 0) + sclk_cnt
LastCycle == 4 * SlotBits - 1

(* The cycle in which a word is complete.                                    *)
W == 4 * WordBits + 3

(* The edge registers follow the clocks; an edge of lrclk is seen in cycle 1,*)
(* one of sclk in the last cycle of each bit.                                *)
Clocks ==
  /\ ~sclk_out /\ sclk_cnt = 0 => sclk_curr = sclk_prev
  /\ ~sclk_out /\ sclk_cnt = 1 => ~sclk_curr
  /\ sclk_out /\ sclk_cnt = 0 => ~sclk_curr /\ ~sclk_prev
  /\ sclk_out /\ sclk_cnt = 1 => sclk_curr /\ ~sclk_prev
  /\ cycle = 0 => (lrclk_cur <=> ~lrclk_out)
  /\ cycle # 0 => (lrclk_cur <=> lrclk_out)
  /\ cycle <= 1 => (lrclk_prev <=> ~lrclk_out)
  /\ cycle >= 2 => (lrclk_prev <=> lrclk_out)

(* The receiver counts with the clock generator, and its words are those of  *)
(* this frame from the cycle on in which they are complete.                  *)
Received ==
  /\ dataIdx_cnt = lrclk_cnt
  /\ cycle >= 2 => i2sRxStart = IF lrclk_out THEN "left" ELSE "right"
  /\ ~lrclk_out \/ cycle > W => stream_left = frame
  /\ ~lrclk_out /\ cycle > W => stream_right = frame

Empty == ~left_valid /\ ~right_valid /\ ~fifo_full
LeftOnly == left_valid /\ ~right_valid /\ ~fifo_full
BothWords == left_valid /\ right_valid

(* A pair is complete in cycle W of the right half and taken, or thrown      *)
(* away, within three cycles.                                                *)
Flags ==
  /\ lrclk_out /\ cycle <= W => Empty
  /\ lrclk_out /\ cycle > W => LeftOnly
  /\ ~lrclk_out /\ cycle <= W => LeftOnly
  /\ ~lrclk_out /\ cycle = W + 1 => BothWords /\ ~fifo_full
  /\ ~lrclk_out /\ cycle = W + 2 => Empty \/ (BothWords /\ fifo_full)
  /\ ~lrclk_out /\ cycle = W + 3 =>
       Empty \/ (BothWords /\ fifo_full /\ axis_control_state = "HIGH_PASS")
  /\ ~lrclk_out /\ cycle >= W + 4 => Empty

(* The effects run right after the pair; WAIT_RESTART, which waits for the   *)
(* data process to move its index, is over before the next pair is complete: *)
(* of two edges of lrclk, one moves it.                                      *)
InTime ==
  /\ axis_release_fifo <=> axis_control_state \in {"IDLE_AXIS", "HIGH_PASS", "CHECK_DISTORTION"}
  /\ axis_control_state = "HIGH_PASS" => ~lrclk_out /\ cycle = W + 3
  /\ axis_control_state = "CHECK_DISTORTION" => ~lrclk_out /\ cycle = W + 4
  /\ axis_control_state = "LOW_PASS" => ~lrclk_out /\ cycle = W + 5
  /\ axis_control_state = "PHASE_CYCLE" => ~lrclk_out /\ cycle = W + 6
  /\ axis_control_state = "WAIT_RESTART" =>
       /\ i2sTx_Enable
       /\ lrclk_out \/ cycle >= W + 7 \/ cycle <= 2
       /\ (lrclk_out /\ cycle >= 2) \/ (~lrclk_out /\ cycle <= 1) =>
            readIdx = writeIdx \/ changeCounter = 1
       /\ ~lrclk_out /\ cycle = 2 => readIdx = writeIdx
  /\ i2sTx_Enable /\ i2sTx_State = "IDLE_TX" => axis_control_state = "WAIT_AXIS_FIFO_FULL"

(* The data process counts with the clock generator too.                     *)
Sender ==
  /\ i2sTx_State \in {"DETECT_CHANNEL", "FILL_DATA"} => paddingIdx \in {0, PadBits}
  /\ i2sTx_State = "FILL_DATA" => dataIdx = lrclk_cnt /\ cycle >= 2
  /\ i2sTx_State = "PADDING_DATA" =>
       \/ paddingIdx = PadBits /\ lrclk_cnt = WordBits
       \/ lrclk_cnt = WordBits + paddingIdx

PipelineInv == PipelineTypeOK /\ Clocks /\ Received /\ Flags /\ InTime /\ Sender /\ PairsAligned

-----------------------------------------------------------------------------
(* Positions.                                                                *)

(* The sizes, as the numbers the provers need.                               *)
LEMMA Sizes ==
  /\ SlotBits \in Nat /\ WordBits \in Nat /\ PadBits \in Nat /\ Frames \in Nat
  /\ WordBits >= 1 /\ PadBits >= 2 /\ WordBits + PadBits < SlotBits /\ Frames > 2
  /\ W \in Nat /\ W >= 7 /\ LastCycle \in Nat /\ W + 8 <= LastCycle
BY SizesAssumption DEF W, LastCycle

(* The cycle within a half and the bit clock it belongs to.                  *)
LEMMA CycleOfSlot ==
  ASSUME PipelineTypeOK
  PROVE  /\ cycle \in 0 .. LastCycle
         /\ lrclk_cnt \in 0 .. (SlotBits - 1)
         /\ 4 * lrclk_cnt <= cycle /\ cycle <= 4 * lrclk_cnt + 3
         /\ cycle = 4 * lrclk_cnt + 3 <=> (sclk_out /\ sclk_cnt = 1)
<1>1. sclk_cnt \in 0 .. 1 /\ lrclk_cnt \in 0 .. (SlotBits - 1) /\ sclk_out \in BOOLEAN
  BY DEF PipelineTypeOK
<1>2. CASE sclk_out
  BY <1>1, <1>2, Sizes DEF cycle, LastCycle
<1>3. CASE ~sclk_out
  BY <1>1, <1>3, Sizes DEF cycle, LastCycle
<1> QED
  BY <1>1, <1>2, <1>3

(* What the edge registers show, and when.                                   *)
LEMMA EdgesInTime ==
  ASSUME PipelineTypeOK, Clocks
  PROVE  /\ SclkRises <=> cycle = 4 * lrclk_cnt + 3
         /\ LrRises <=> cycle = 1 /\ lrclk_out
         /\ LrFalls <=> cycle = 1 /\ ~lrclk_out
<1>1. /\ sclk_cnt \in 0 .. 1 /\ sclk_out \in BOOLEAN /\ lrclk_out \in BOOLEAN
      /\ sclk_prev \in BOOLEAN /\ sclk_curr \in BOOLEAN
      /\ lrclk_prev \in BOOLEAN /\ lrclk_cur \in BOOLEAN
  BY DEF PipelineTypeOK
<1>2. cycle \in Nat
  BY CycleOfSlot, Sizes
<1>3. SclkRises <=> sclk_out /\ sclk_cnt = 1
  BY <1>1 DEF Clocks, SclkRises
<1>4. LrRises <=> cycle = 1 /\ lrclk_out
  BY <1>1, <1>2 DEF Clocks, LrRises
<1>5. LrFalls <=> cycle = 1 /\ ~lrclk_out
  BY <1>1, <1>2 DEF Clocks, LrFalls
<1> QED
  BY <1>3, <1>4, <1>5, CycleOfSlot

(* One edge of mclk is one cycle further.                                    *)
LEMMA NextCycle ==
  ASSUME PipelineTypeOK, ClockGen
  PROVE  /\ cycle = LastCycle => cycle' = 0 /\ (lrclk_out' <=> ~lrclk_out)
         /\ cycle # LastCycle => cycle' = cycle + 1 /\ (lrclk_out' <=> lrclk_out)
         /\ lrclk_cnt' = IF cycle = 4 * lrclk_cnt + 3
                           THEN IF lrclk_cnt = SlotBits - 1 THEN 0 ELSE lrclk_cnt + 1
                           ELSE lrclk_cnt
         /\ sclk_cnt' \in 0 .. 1 /\ sclk_out' \in BOOLEAN /\ lrclk_out' \in BOOLEAN
         /\ lrclk_cnt' \in 0 .. (SlotBits - 1)
<1>1. sclk_cnt \in 0 .. 1 /\ lrclk_cnt \in 0 .. (SlotBits - 1) /\ sclk_out \in BOOLEAN /\ lrclk_out \in BOOLEAN
  BY DEF PipelineTypeOK
<1>2. lrclk_out' \in BOOLEAN /\ sclk_out' \in BOOLEAN
  BY <1>1, Zenon DEF ClockGen
<1>3. CASE sclk_cnt = 0
  <2>1. sclk_cnt' = 1 /\ sclk_out' = sclk_out /\ lrclk_cnt' = lrclk_cnt /\ (lrclk_out' <=> lrclk_out)
    BY <1>3 DEF ClockGen
  <2> QED
    BY <1>1, <1>2, <1>3, <2>1, Sizes DEF cycle, LastCycle
<1>4. CASE sclk_cnt = 1 /\ ~sclk_out
  <2>1. sclk_cnt' = 0 /\ sclk_out' = TRUE /\ lrclk_cnt' = lrclk_cnt /\ (lrclk_out' <=> lrclk_out)
    BY <1>4 DEF ClockGen
  <2> QED
    BY <1>1, <1>2, <1>4, <2>1, Sizes DEF cycle, LastCycle
<1>5. CASE sclk_cnt = 1 /\ sclk_out
  <2>1. /\ sclk_cnt' = 0 /\ sclk_out' = FALSE
        /\ lrclk_cnt' = IF lrclk_cnt = SlotBits - 1 THEN 0 ELSE lrclk_cnt + 1
        /\ lrclk_cnt = SlotBits - 1 => (lrclk_out' <=> ~lrclk_out)
        /\ lrclk_cnt # SlotBits - 1 => (lrclk_out' <=> lrclk_out)
    BY <1>1, <1>5 DEF ClockGen
  <2>2. cycle = 4 * lrclk_cnt + 3 /\ cycle' = 4 * lrclk_cnt'
    BY <1>1, <1>5, <2>1, Sizes DEF cycle
  <2>3. SlotBits \in Nat /\ SlotBits > 0
    BY Sizes
  <2>4. cycle = LastCycle <=> lrclk_cnt = SlotBits - 1
    BY <1>1, <2>2, <2>3 DEF LastCycle
  <2>5. lrclk_cnt = SlotBits - 1 => cycle' = 0
    BY <2>1, <2>2
  <2>6. lrclk_cnt # SlotBits - 1 => cycle' = cycle + 1
    BY <1>1, <2>1, <2>2
  <2>7. lrclk_cnt' \in 0 .. (SlotBits - 1)
    BY <1>1, <2>1, <2>3
  <2> QED
    BY <1>2, <2>1, <2>2, <2>4, <2>5, <2>6, <2>7
<1> QED
  BY <1>1, <1>3, <1>4, <1>5

(* The edge registers keep up with the clocks.                               *)
LEMMA ClocksStep ==
  ASSUME PipelineTypeOK, Clocks, ClockGen, EdgeRegs
  PROVE  Clocks'
<1>1. /\ sclk_cnt \in 0 .. 1 /\ sclk_out \in BOOLEAN /\ lrclk_out \in BOOLEAN
      /\ sclk_prev \in BOOLEAN /\ sclk_curr \in BOOLEAN
      /\ lrclk_prev \in BOOLEAN /\ lrclk_cur \in BOOLEAN
  BY DEF PipelineTypeOK
<1>2. cycle \in 0 .. LastCycle /\ LastCycle \in Nat /\ LastCycle >= 2
  BY CycleOfSlot, Sizes
<1>3. /\ cycle = LastCycle => cycle' = 0 /\ (lrclk_out' <=> ~lrclk_out)
      /\ cycle # LastCycle => cycle' = cycle + 1 /\ (lrclk_out' <=> lrclk_out)
  BY NextCycle
<1>4. /\ sclk_prev' = sclk_curr /\ sclk_curr' = sclk_out
      /\ lrclk_prev' = lrclk_cur /\ lrclk_cur' = lrclk_out
  BY DEF EdgeRegs
<1>5. IF sclk_cnt = 1 THEN sclk_cnt' = 0 /\ sclk_out' = ~sclk_out
                      ELSE sclk_cnt' = 1 /\ sclk_out' = sclk_out
  BY <1>1 DEF ClockGen
<1>6. /\ ~sclk_out' /\ sclk_cnt' = 0 => sclk_curr' = sclk_prev'
      /\ ~sclk_out' /\ sclk_cnt' = 1 => ~sclk_curr'
      /\ sclk_out' /\ sclk_cnt' = 0 => ~sclk_curr' /\ ~sclk_prev'
      /\ sclk_out' /\ sclk_cnt' = 1 => sclk_curr' /\ ~sclk_prev'
  <2>1. CASE sclk_cnt = 1
    BY <1>1, <1>4, <1>5, <2>1 DEF Clocks
  <2>2. CASE sclk_cnt = 0
    BY <1>1, <1>4, <1>5, <2>2 DEF Clocks
  <2> QED
    BY <1>1, <2>1, <2>2
<1>7. /\ cycle' = 0 => (lrclk_cur' <=> ~lrclk_out')
      /\ cycle' # 0 => (lrclk_cur' <=> lrclk_out')
      /\ cycle' <= 1 => (lrclk_prev' <=> ~lrclk_out')
      /\ cycle' >= 2 => (lrclk_prev' <=> lrclk_out')
  <2>1. CASE cycle = LastCycle
    BY <1>1, <1>2, <1>3, <1>4, <2>1 DEF Clocks
  <2>2. CASE cycle # LastCycle /\ cycle = 0
    BY <1>1, <1>2, <1>3, <1>4, <2>2 DEF Clocks
  <2>3. CASE cycle # LastCycle /\ cycle # 0
    <3>1. (lrclk_cur <=> lrclk_out) /\ cycle' = cycle + 1 /\ cycle' >= 2 /\ (lrclk_out' <=> lrclk_out)
      BY <1>1, <1>2, <1>3, <2>3 DEF Clocks
    <3> QED
      BY <1>1, <1>4, <3>1
  <2> QED
    BY <2>1, <2>2, <2>3
<1> QED
  BY <1>6, <1>7 DEF Clocks

-----------------------------------------------------------------------------
(* The receiver.                                                             *)

(* The receiver's counter stays with the clock generator's, so that its word *)
(* is complete in cycle W, and the stream registers hold this frame's words. *)
LEMMA ReceivedStep ==
  ASSUME PipelineTypeOK, Clocks, Received, ClockGen, EdgeRegs, Receive
  PROVE  Received'
<1> DEFINE bit == SclkRises /\ i2sRxStart # "none"
           word == bit /\ dataIdx_cnt = WordBits
<1>1. lrclk_out \in BOOLEAN /\ dataIdx_cnt = lrclk_cnt
  BY DEF PipelineTypeOK, Received
<1>2. /\ cycle \in 0 .. LastCycle /\ lrclk_cnt \in 0 .. (SlotBits - 1)
      /\ 4 * lrclk_cnt <= cycle /\ cycle <= 4 * lrclk_cnt + 3
      /\ WordBits \in Nat /\ LastCycle \in Nat /\ W = 4 * WordBits + 3 /\ W >= 7 /\ W + 8 <= LastCycle
  BY CycleOfSlot, Sizes DEF W
<1>3. /\ cycle = LastCycle => cycle' = 0 /\ (lrclk_out' <=> ~lrclk_out)
      /\ cycle # LastCycle => cycle' = cycle + 1 /\ (lrclk_out' <=> lrclk_out)
      /\ lrclk_cnt' = IF cycle = 4 * lrclk_cnt + 3
                        THEN IF lrclk_cnt = SlotBits - 1 THEN 0 ELSE lrclk_cnt + 1
                        ELSE lrclk_cnt
  BY NextCycle
<1>4. /\ SclkRises <=> cycle = 4 * lrclk_cnt + 3
      /\ LrRises <=> cycle = 1 /\ lrclk_out
      /\ LrFalls <=> cycle = 1 /\ ~lrclk_out
  BY EdgesInTime
<1>5. cycle >= 2 => i2sRxStart = IF lrclk_out THEN "left" ELSE "right"
  BY DEF Received
<1>6. bit <=> cycle = 4 * lrclk_cnt + 3
  BY <1>2, <1>4, <1>5
<1>7. word <=> cycle = W
  BY <1>1, <1>2, <1>6
<1>8. dataIdx_cnt' = lrclk_cnt'
  BY <1>1, <1>3, <1>6 DEF Receive
<1>9. cycle' >= 2 => i2sRxStart' = IF lrclk_out' THEN "left" ELSE "right"
  <2>1. i2sRxStart' = IF LrRises THEN "left" ELSE IF LrFalls THEN "right" ELSE i2sRxStart
    BY DEF Receive
  <2> QED
    BY <1>1, <1>2, <1>3, <1>4, <1>5, <2>1
<1>10. /\ stream_left'  = IF word /\ i2sRxStart = "left"  THEN frame ELSE stream_left
       /\ stream_right' = IF word /\ i2sRxStart = "right" THEN frame ELSE stream_right
  BY DEF Receive
<1>11. frame' = IF ~lrclk_out /\ lrclk_out' THEN NextFrame(frame) ELSE frame
  BY DEF ClockGen
<1> HIDE DEF bit, word
<1>12. ~lrclk_out' \/ cycle' > W => stream_left' = frame'
  BY <1>1, <1>2, <1>3, <1>5, <1>7, <1>10, <1>11 DEF Received
<1>13. ~lrclk_out' /\ cycle' > W => stream_right' = frame'
  BY <1>1, <1>2, <1>3, <1>5, <1>7, <1>10, <1>11 DEF Received
<1> QED
  BY <1>8, <1>9, <1>12, <1>13 DEF Received

(* A pair of words goes from empty to empty within the frame.                *)
LEMMA FlagsStep ==
  ASSUME PipelineTypeOK, Clocks, Received, Flags, InTime,
         ClockGen, EdgeRegs, Receive, AxisControl
  PROVE  Flags'
<1> DEFINE bit == SclkRises /\ i2sRxStart # "none"
           word == bit /\ dataIdx_cnt = WordBits
           full == left_valid /\ right_valid
<1>1. /\ lrclk_out \in BOOLEAN /\ left_valid \in BOOLEAN /\ right_valid \in BOOLEAN
      /\ fifo_full \in BOOLEAN /\ axis_release_fifo \in BOOLEAN /\ dataIdx_cnt = lrclk_cnt
  BY DEF PipelineTypeOK, Received
<1>2. /\ cycle \in 0 .. LastCycle /\ lrclk_cnt \in 0 .. (SlotBits - 1)
      /\ 4 * lrclk_cnt <= cycle /\ cycle <= 4 * lrclk_cnt + 3
      /\ WordBits \in Nat /\ LastCycle \in Nat /\ W = 4 * WordBits + 3 /\ W >= 7 /\ W + 8 <= LastCycle
  BY CycleOfSlot, Sizes DEF W
<1>3. /\ cycle = LastCycle => cycle' = 0 /\ (lrclk_out' <=> ~lrclk_out)
      /\ cycle # LastCycle => cycle' = cycle + 1 /\ (lrclk_out' <=> lrclk_out)
  BY NextCycle
<1>4. SclkRises <=> cycle = 4 * lrclk_cnt + 3
  BY EdgesInTime
<1>5. cycle >= 2 => i2sRxStart = IF lrclk_out THEN "left" ELSE "right"
  BY DEF Received
<1>6. word <=> cycle = W
  BY <1>1, <1>2, <1>4, <1>5
<1>7. /\ full /\ axis_release_fifo => ~left_valid' /\ ~right_valid'
      /\ ~(full /\ axis_release_fifo) =>
           /\ left_valid'  <=> left_valid  \/ (word /\ i2sRxStart = "left")
           /\ right_valid' <=> right_valid \/ (word /\ i2sRxStart = "right")
      /\ full => (fifo_full' <=> ~axis_release_fifo)
      /\ ~full => (fifo_full' <=> fifo_full)
  BY <1>1, Zenon DEF Receive
<1> HIDE DEF bit, word
<1>8. CASE cycle < W \/ cycle = LastCycle
  <2>1. ~full /\ ~word
    BY <1>2, <1>6, <1>8 DEF Flags, Empty, LeftOnly
  <2>2. (left_valid' <=> left_valid) /\ (right_valid' <=> right_valid) /\ (fifo_full' <=> fifo_full)
    BY <1>1, <1>7, <2>1
  <2> QED
    BY <1>1, <1>2, <1>3, <1>8, <2>2 DEF Flags, Empty, LeftOnly
<1>9. CASE lrclk_out /\ cycle = W
  BY <1>1, <1>2, <1>3, <1>5, <1>6, <1>7, <1>9 DEF Flags, Empty, LeftOnly
<1>10. CASE lrclk_out /\ cycle > W /\ cycle # LastCycle
  BY <1>1, <1>2, <1>3, <1>6, <1>7, <1>10 DEF Flags, LeftOnly
<1>11. CASE ~lrclk_out /\ cycle = W
  BY <1>1, <1>2, <1>3, <1>5, <1>6, <1>7, <1>11 DEF Flags, LeftOnly, BothWords
<1>12. CASE ~lrclk_out /\ cycle = W + 1
  BY <1>1, <1>2, <1>3, <1>6, <1>7, <1>12 DEF Flags, Empty, BothWords
<1>13. CASE ~lrclk_out /\ cycle = W + 2
  <2>1. CASE Empty
    BY <1>1, <1>2, <1>3, <1>6, <1>7, <1>13, <2>1 DEF Flags, Empty
  <2>2. CASE BothWords /\ fifo_full /\ axis_control_state = "IDLE_AXIS"
    BY <1>1, <1>2, <1>3, <1>6, <1>7, <1>13, <2>2 DEF Flags, InTime, Empty, BothWords
  <2>3. CASE BothWords /\ fifo_full /\ axis_control_state = "WAIT_AXIS_FIFO_FULL"
    <3>1. axis_control_state' = "HIGH_PASS" /\ ~axis_release_fifo
      BY <2>3 DEF InTime, AxisControl, AxisIdle, AxisWaitFull, HighPass, CheckDistortion,
                  LowPass, PhaseCycle, WaitRestart
    <3> QED
      BY <1>1, <1>2, <1>3, <1>6, <1>7, <1>13, <2>3, <3>1 DEF Flags, BothWords
  <2>4. axis_control_state \in {"IDLE_AXIS", "WAIT_AXIS_FIFO_FULL"}
    BY <1>2, <1>13 DEF PipelineTypeOK, InTime
  <2> QED
    BY <1>13, <2>1, <2>2, <2>3, <2>4 DEF Flags
<1>14. CASE ~lrclk_out /\ cycle = W + 3
  BY <1>1, <1>2, <1>3, <1>6, <1>7, <1>14 DEF Flags, InTime, Empty, BothWords
<1>15. CASE ~lrclk_out /\ cycle >= W + 4 /\ cycle # LastCycle
  BY <1>1, <1>2, <1>3, <1>6, <1>7, <1>15 DEF Flags, Empty
<1> QED
  BY <1>1, <1>2, <1>8, <1>9, <1>10, <1>11, <1>12, <1>13, <1>14, <1>15

-----------------------------------------------------------------------------
(* The data process and the effects.                                         *)

(* What is known of an edge of mclk: cycle and slot, and when edges show.    *)
LEMMA Position ==
  ASSUME PipelineTypeOK, Clocks, ClockGen
  PROVE  /\ cycle \in 0 .. LastCycle /\ lrclk_cnt \in 0 .. (SlotBits - 1) /\ lrclk_out \in BOOLEAN
         /\ 4 * lrclk_cnt <= cycle /\ cycle <= 4 * lrclk_cnt + 3
         /\ cycle = LastCycle => cycle' = 0 /\ (lrclk_out' <=> ~lrclk_out)
         /\ cycle # LastCycle => cycle' = cycle + 1 /\ (lrclk_out' <=> lrclk_out)
         /\ lrclk_cnt' = IF cycle = 4 * lrclk_cnt + 3
                           THEN IF lrclk_cnt = SlotBits - 1 THEN 0 ELSE lrclk_cnt + 1
                           ELSE lrclk_cnt
         /\ SclkRises <=> cycle = 4 * lrclk_cnt + 3
         /\ LrRises \/ LrFalls <=> cycle = 1
BY CycleOfSlot, NextCycle, EdgesInTime DEF PipelineTypeOK

(* The data process counts bits and padding in step with the slots.          *)
LEMMA SenderStep ==
  ASSUME PipelineTypeOK, Clocks, Sender, ClockGen, DataControl
  PROVE  Sender'
<1>1. /\ cycle \in 0 .. LastCycle /\ lrclk_cnt \in 0 .. (SlotBits - 1)
      /\ 4 * lrclk_cnt <= cycle /\ cycle <= 4 * lrclk_cnt + 3
      /\ cycle # LastCycle => cycle' = cycle + 1
      /\ lrclk_cnt' = IF cycle = 4 * lrclk_cnt + 3
                        THEN IF lrclk_cnt = SlotBits - 1 THEN 0 ELSE lrclk_cnt + 1
                        ELSE lrclk_cnt
      /\ SclkRises <=> cycle = 4 * lrclk_cnt + 3
      /\ LrRises \/ LrFalls <=> cycle = 1
  BY Position
<1>2. /\ SlotBits \in Nat /\ WordBits \in Nat /\ PadBits \in Nat /\ WordBits >= 1 /\ PadBits >= 2
      /\ WordBits + PadBits < SlotBits /\ LastCycle = 4 * SlotBits - 1
  BY Sizes DEF LastCycle
<1>3. dataIdx \in 0 .. (WordBits - 1) /\ paddingIdx \in 0 .. PadBits
  BY DEF PipelineTypeOK
<1>4. CASE TxIdle
  BY <1>4 DEF TxIdle, Sender
<1>5. CASE DetectChannel
  <2>1. CASE cycle = 1
    <3>1. /\ i2sTx_State' = "FILL_DATA" /\ dataIdx' = 0 /\ paddingIdx' = paddingIdx
          /\ paddingIdx \in {0, PadBits}
      BY <1>1, <1>5, <2>1 DEF DetectChannel, Sender
    <3>2. lrclk_cnt' = 0 /\ cycle' = 2
      BY <1>1, <1>2, <2>1
    <3> QED
      BY <3>1, <3>2 DEF Sender
  <2>2. CASE cycle # 1
    BY <1>1, <1>5, <2>2 DEF DetectChannel, Sender
  <2> QED
    BY <2>1, <2>2
<1>6. CASE FillData
  <2>1. /\ i2sTx_State = "FILL_DATA" /\ dataIdx = lrclk_cnt /\ cycle >= 2
        /\ paddingIdx' = paddingIdx /\ paddingIdx \in {0, PadBits}
    BY <1>6 DEF FillData, Sender
  <2>2. cycle' = cycle + 1
    BY <1>1, <1>2, <1>3, <2>1
  <2>3. CASE cycle = 4 * lrclk_cnt + 3
    <3>1. lrclk_cnt' = dataIdx + 1
      BY <1>1, <1>2, <1>3, <2>1, <2>3
    <3>2. IF dataIdx = WordBits - 1 THEN i2sTx_State' = "PADDING_DATA"
                                    ELSE dataIdx' = dataIdx + 1 /\ i2sTx_State' = "FILL_DATA"
      BY <1>1, <1>6, <2>1, <2>3 DEF FillData
    <3> QED
      BY <1>1, <1>2, <1>3, <2>1, <2>2, <3>1, <3>2 DEF Sender
  <2>4. CASE cycle # 4 * lrclk_cnt + 3
    <3>1. dataIdx' = dataIdx /\ i2sTx_State' = "FILL_DATA" /\ lrclk_cnt' = lrclk_cnt
      BY <1>1, <1>6, <2>1, <2>4 DEF FillData
    <3> QED
      BY <1>1, <2>1, <2>2, <3>1 DEF Sender
  <2> QED
    BY <2>3, <2>4
<1>7. CASE PaddingData
  <2>1. /\ i2sTx_State = "PADDING_DATA"
        /\ \/ paddingIdx = PadBits /\ lrclk_cnt = WordBits
           \/ lrclk_cnt = WordBits + paddingIdx
    BY <1>7 DEF PaddingData, Sender
  <2>2. CASE cycle = 4 * lrclk_cnt + 3 /\ paddingIdx = PadBits
    BY <1>1, <1>7, <2>2 DEF PaddingData, Sender
  <2>3. CASE cycle = 4 * lrclk_cnt + 3 /\ paddingIdx # PadBits
    <3>1. lrclk_cnt' = lrclk_cnt + 1
      BY <1>1, <1>2, <1>3, <2>1, <2>3
    <3>2. paddingIdx' = paddingIdx + 1 /\ i2sTx_State' = "PADDING_DATA"
      BY <1>1, <1>7, <2>3 DEF PaddingData
    <3> QED
      BY <1>2, <1>3, <2>1, <2>3, <3>1, <3>2 DEF Sender
  <2>4. CASE cycle # 4 * lrclk_cnt + 3
    BY <1>1, <1>7, <2>1, <2>4 DEF PaddingData, Sender
  <2> QED
    BY <2>2, <2>3, <2>4
<1> QED
  BY <1>4, <1>5, <1>6, <1>7 DEF DataControl

(* The data process is ready for every edge.                                 *)
LEMMA ReadyForEdge ==
  ASSUME PipelineTypeOK, Sender, cycle <= 1
  PROVE  i2sTx_State \in {"IDLE_TX", "DETECT_CHANNEL"}
<1>1. /\ 4 * lrclk_cnt <= cycle /\ lrclk_cnt \in Nat /\ cycle \in Nat
      /\ WordBits \in Nat /\ WordBits >= 1 /\ paddingIdx \in Nat
  BY CycleOfSlot, Sizes DEF PipelineTypeOK
<1>2. i2sTx_State # "FILL_DATA" /\ i2sTx_State # "PADDING_DATA"
  BY <1>1 DEF Sender
<1> QED
  BY <1>2 DEF PipelineTypeOK

(* Of the two edges of a frame, one moves the index: what the data process   *)
(* does while WAIT_RESTART waits for it.                                     *)
LEMMA IndexMoves ==
  ASSUME PipelineTypeOK, Clocks, Sender, ClockGen, DataControl, i2sTx_Enable, i2sTx_State # "IDLE_TX"
  PROVE  /\ cycle # 1 => changeCounter' = changeCounter /\ writeIdx' = writeIdx
         /\ cycle = 1 /\ changeCounter = 1 => writeIdx' = 1 - writeIdx
         /\ cycle = 1 /\ changeCounter # 1 => changeCounter' = 1
<1>1. LrRises \/ LrFalls <=> cycle = 1
  BY Position
<1>2. changeCounter \in {0, 1}
  BY DEF PipelineTypeOK
<1>3. CASE DetectChannel
  BY <1>1, <1>2, <1>3 DEF DetectChannel
<1>4. CASE FillData
  <2>1. cycle # 1
    BY <1>4, ReadyForEdge DEF FillData
  <2> QED
    BY <1>4, <2>1 DEF FillData
<1>5. CASE PaddingData
  <2>1. cycle # 1
    BY <1>5, ReadyForEdge DEF PaddingData
  <2>2. changeCounter' = changeCounter /\ writeIdx' = writeIdx
    BY <1>5 DEF PaddingData
  <2> QED
    BY <2>1, <2>2
<1> QED
  BY <1>3, <1>4, <1>5 DEF DataControl, TxIdle

(* The effects keep their places: they start in the cycle in which the       *)
(* receiver is full, and WAIT_RESTART ends before it is full again.          *)
LEMMA InTimeStep ==
  ASSUME PipelineTypeOK, Clocks, Flags, InTime, Sender, ClockGen, AxisControl, DataControl
  PROVE  InTime'
<1>1. /\ cycle \in 0 .. LastCycle /\ lrclk_out \in BOOLEAN
      /\ cycle = LastCycle => cycle' = 0 /\ (lrclk_out' <=> ~lrclk_out)
      /\ cycle # LastCycle => cycle' = cycle + 1 /\ (lrclk_out' <=> lrclk_out)
  BY Position
<1>2. W \in Nat /\ W >= 7 /\ LastCycle \in Nat /\ W + 8 <= LastCycle
  BY Sizes
<1>3. /\ axis_release_fifo \in BOOLEAN /\ i2sTx_Enable \in BOOLEAN
      /\ readIdx \in {0, 1} /\ writeIdx \in {0, 1} /\ changeCounter \in {0, 1}
  BY DEF PipelineTypeOK
<1>4. i2sTx_Enable => i2sTx_State' # "IDLE_TX"
  BY DEF DataControl, TxIdle, DetectChannel, FillData, PaddingData
<1>5. ~i2sTx_Enable /\ i2sTx_Enable' => axis_control_state' = "WAIT_AXIS_FIFO_FULL"
  BY DEF AxisControl, AxisIdle, AxisWaitFull, HighPass, CheckDistortion, LowPass, PhaseCycle,
         WaitRestart, AxisDisable, axisVars
<1>6. i2sTx_Enable' /\ i2sTx_State' = "IDLE_TX" => axis_control_state' = "WAIT_AXIS_FIFO_FULL"
  BY <1>3, <1>4, <1>5
<1>7. CASE AxisIdle
  BY <1>3, <1>6, <1>7 DEF AxisIdle, InTime
<1>8. CASE AxisWaitFull
  <2>1. CASE fifo_full
    <3>1. ~lrclk_out /\ cycle = W + 2
      BY <1>1, <1>2, <1>8, <2>1 DEF AxisWaitFull, Flags, Empty, LeftOnly
    <3>2. axis_control_state' = "HIGH_PASS" /\ axis_release_fifo' = TRUE
      BY <1>8, <2>1 DEF AxisWaitFull
    <3> QED
      BY <1>1, <1>2, <1>6, <3>1, <3>2 DEF InTime
  <2>2. CASE ~fifo_full
    BY <1>3, <1>6, <1>8, <2>2 DEF AxisWaitFull, AxisDisable, axisVars, InTime
  <2> QED
    BY <2>1, <2>2
<1>9. CASE HighPass
  <2>1. /\ axis_control_state' = "CHECK_DISTORTION" /\ axis_release_fifo'
        /\ ~lrclk_out /\ cycle = W + 3
    BY <1>9 DEF HighPass, InTime
  <2> QED
    BY <1>1, <1>2, <1>6, <2>1 DEF InTime
<1>10. CASE CheckDistortion
  <2>1. ~lrclk_out /\ cycle = W + 4 /\ ~fifo_full
    BY <1>1, <1>2, <1>10 DEF CheckDistortion, InTime, Flags, Empty
  <2>2. axis_control_state' = "LOW_PASS" /\ ~axis_release_fifo'
    BY <1>10, <2>1 DEF CheckDistortion
  <2> QED
    BY <1>1, <1>2, <1>6, <2>1, <2>2 DEF InTime
<1>11. CASE LowPass
  <2>1. /\ axis_control_state' = "PHASE_CYCLE" /\ ~axis_release_fifo'
        /\ ~lrclk_out /\ cycle = W + 5
    BY <1>3, <1>11 DEF LowPass, InTime
  <2> QED
    BY <1>1, <1>2, <1>6, <2>1 DEF InTime
<1>12. CASE PhaseCycle
  <2>1. ~axis_release_fifo' /\ ~lrclk_out /\ cycle = W + 6
    BY <1>3, <1>12 DEF PhaseCycle, InTime
  <2>2. \/ axis_control_state' = "WAIT_AXIS_FIFO_FULL"
        \/ axis_control_state' = "WAIT_RESTART" /\ i2sTx_Enable'
    BY <1>12 DEF PhaseCycle
  <2> QED
    BY <1>1, <1>2, <1>6, <2>1, <2>2 DEF InTime
<1>13. CASE WaitRestart
  <2>0. i2sTx_Enable /\ i2sTx_State # "IDLE_TX"
    BY <1>13 DEF WaitRestart, InTime
  <2>1. CASE readIdx = writeIdx \/ ~configReg
    <3>1. \/ axis_control_state' = "WAIT_AXIS_FIFO_FULL" /\ ~axis_release_fifo'
          \/ axis_control_state' = "IDLE_AXIS" /\ axis_release_fifo'
      BY <1>3, <1>13, <2>1 DEF WaitRestart, AxisDisable, InTime
    <3> QED
      BY <1>6, <3>1 DEF InTime
  <2>2. CASE readIdx # writeIdx /\ configReg
    <3>1. UNCHANGED axisVars /\ axis_control_state = "WAIT_RESTART"
      BY <1>13, <2>2 DEF WaitRestart
    <3>2. /\ axis_control_state' = "WAIT_RESTART" /\ i2sTx_Enable' /\ readIdx' = readIdx
          /\ ~axis_release_fifo'
      BY <1>3, <2>0, <3>1 DEF axisVars, InTime
    <3>3. lrclk_out \/ cycle >= W + 7 \/ cycle <= 1
      BY <1>1, <2>2, <3>1 DEF InTime
    <3>4. lrclk_out' \/ cycle' >= W + 7 \/ cycle' <= 2
      BY <1>1, <1>2, <3>3
    <3>5. /\ cycle # 1 => changeCounter' = changeCounter /\ writeIdx' = writeIdx
          /\ cycle = 1 /\ changeCounter = 1 => writeIdx' = 1 - writeIdx
          /\ cycle = 1 /\ changeCounter # 1 => changeCounter' = 1
      BY <2>0, IndexMoves
    <3>6. cycle = 1 => readIdx' = writeIdx' \/ changeCounter' = 1
      BY <1>3, <2>2, <3>2, <3>5
    <3>7. (lrclk_out /\ cycle >= 2) \/ (~lrclk_out /\ cycle <= 1) => changeCounter = 1
      BY <2>2, <3>1 DEF InTime
    <3>8. (lrclk_out' /\ cycle' >= 2) \/ (~lrclk_out' /\ cycle' <= 1) =>
            readIdx' = writeIdx' \/ changeCounter' = 1
      BY <1>1, <1>2, <3>3, <3>5, <3>6, <3>7
    <3>9. ~lrclk_out' /\ cycle' = 2 => readIdx' = writeIdx'
      BY <1>1, <1>2, <1>3, <2>2, <3>2, <3>5, <3>7
    <3> QED
      BY <1>6, <3>2, <3>4, <3>8, <3>9 DEF InTime
  <2> QED
    BY <2>1, <2>2
<1> QED
  BY <1>7, <1>8, <1>9, <1>10, <1>11, <1>12, <1>13 DEF AxisControl

(* The effects take the two words of one frame, and everything behind them   *)
(* is a copy of what they take.                                              *)
LEMMA AlignedStep ==
  ASSUME PipelineTypeOK, Clocks, Received, Flags, InTime, PairsAligned, AxisControl, DataControl
  PROVE  PairsAligned'
<1>1. dataLoc \in [{0, 1} -> Words \X Words] /\ readIdx \in {0, 1} /\ writeIdx \in {0, 1}
  BY DEF PipelineTypeOK
<1>2. /\ \A i \in {0, 1} : dataLoc'[i] \in {dataLoc[i], work, Silence}
      /\ work' = work \/ (axis_control_state = "WAIT_AXIS_FIFO_FULL" /\ fifo_full
                            /\ work' = <<stream_left, stream_right>>)
  BY <1>1 DEF AxisControl, AxisIdle, AxisWaitFull, HighPass, CheckDistortion, LowPass, PhaseCycle,
              WaitRestart, AxisDisable, axisVars
<1>3. axis_control_state = "WAIT_AXIS_FIFO_FULL" /\ fifo_full => stream_left = stream_right
  <2>1. cycle \in 0 .. LastCycle /\ W \in Nat /\ LastCycle \in Nat
    BY CycleOfSlot, Sizes
  <2> QED
    BY <2>1 DEF Flags, Empty, LeftOnly, Received
<1>4. work'[1] = work'[2]
  BY <1>2, <1>3 DEF PairsAligned
<1>5. \A i \in {0, 1} : dataLoc'[i][1] = dataLoc'[i][2]
  BY <1>2 DEF PairsAligned, Silence
<1>6. dataTmp' \in {dataTmp, Silence, dataLoc[writeIdx]}
  BY DEF DataControl, TxIdle, DetectChannel, FillData, PaddingData
<1>7. dataTmp'[1] = dataTmp'[2]
  BY <1>1, <1>6 DEF PairsAligned, Silence
<1> QED
  BY <1>4, <1>5, <1>7 DEF PairsAligned

-----------------------------------------------------------------------------
(* Types.                                                                    *)

(* Every process keeps its signals' types.                                   *)
LEMMA TypesStep ==
  ASSUME PipelineTypeOK, Received, Tick
  PROVE  PipelineTypeOK'
<1>1. Words \subseteq Nat /\ 0 \in Words /\ frame \in Words /\ NextFrame(frame) \in Words
  BY Sizes DEF PipelineTypeOK, Words, NextFrame
<1>2. /\ sclk_cnt' \in 0 .. 1 /\ lrclk_cnt' \in 0 .. (SlotBits - 1)
      /\ sclk_out' \in BOOLEAN /\ lrclk_out' \in BOOLEAN
  BY NextCycle DEF Tick
<1>3. frame' \in Words
  BY <1>1 DEF Tick, ClockGen
<1>4. {sclk_prev, sclk_curr, lrclk_prev, lrclk_cur}' \subseteq BOOLEAN
  BY DEF PipelineTypeOK, Tick, EdgeRegs
<1>5. i2sRxStart' \in {"none", "left", "right"}
  BY DEF PipelineTypeOK, Tick, Receive
<1>6. dataIdx_cnt' \in 0 .. (SlotBits - 1)
  <2>1. dataIdx_cnt \in 0 .. (SlotBits - 1) /\ SlotBits \in Nat /\ SlotBits > 0
    BY Sizes DEF PipelineTypeOK
  <2> QED
    BY <2>1 DEF Tick, Receive
<1>7. {left_valid, right_valid, fifo_full}' \subseteq BOOLEAN
  <2>1. left_valid' \in BOOLEAN /\ right_valid' \in BOOLEAN /\ fifo_full' \in BOOLEAN
    BY Zenon DEF PipelineTypeOK, Tick, Receive
  <2> QED
    BY <2>1
<1>8. {stream_left, stream_right}' \subseteq Words
  BY <1>1 DEF PipelineTypeOK, Tick, Receive
<1>9. {reg0, sync1, sync2, configReg}' \subseteq BOOLEAN
  BY DEF PipelineTypeOK, Tick, Synchronise
<1>10. /\ axis_control_state' \in {"IDLE_AXIS", "WAIT_AXIS_FIFO_FULL", "HIGH_PASS", "CHECK_DISTORTION",
                                   "LOW_PASS", "PHASE_CYCLE", "WAIT_RESTART"}
       /\ axis_release_fifo' \in BOOLEAN /\ i2sTx_Enable' \in BOOLEAN
       /\ readIdx' \in {0, 1}
  <2>1. /\ axis_release_fifo \in BOOLEAN /\ i2sTx_Enable \in BOOLEAN /\ readIdx \in {0, 1}
        /\ axis_control_state \in {"IDLE_AXIS", "WAIT_AXIS_FIFO_FULL", "HIGH_PASS", "CHECK_DISTORTION",
                                   "LOW_PASS", "PHASE_CYCLE", "WAIT_RESTART"}
    BY DEF PipelineTypeOK
  <2>2. readIdx' \in {readIdx, 0, 1 - readIdx}
    BY DEF Tick, AxisControl, AxisIdle, AxisWaitFull, HighPass, CheckDistortion, LowPass, PhaseCycle,
           WaitRestart, AxisDisable, axisVars
  <2>3. axis_release_fifo' \in BOOLEAN /\ i2sTx_Enable' \in BOOLEAN
    BY <2>1, Zenon DEF Tick, AxisControl, AxisIdle, AxisWaitFull, HighPass, CheckDistortion, LowPass,
                       PhaseCycle, WaitRestart, AxisDisable, axisVars
  <2>4. axis_control_state' \in {axis_control_state, "IDLE_AXIS", "WAIT_AXIS_FIFO_FULL", "HIGH_PASS",
                                 "CHECK_DISTORTION", "LOW_PASS", "PHASE_CYCLE", "WAIT_RESTART"}
    BY DEF Tick, AxisControl, AxisIdle, AxisWaitFull, HighPass, CheckDistortion, LowPass, PhaseCycle,
           WaitRestart, AxisDisable, axisVars
  <2> QED
    BY <2>1, <2>2, <2>3, <2>4
<1>11. work' \in Words \X Words
  BY DEF PipelineTypeOK, Tick, AxisControl, AxisIdle, AxisWaitFull, HighPass, CheckDistortion, LowPass,
         PhaseCycle, WaitRestart, AxisDisable, axisVars
<1>12. Silence \in Words \X Words
  BY <1>1 DEF Silence
<1>13. dataLoc' \in [{0, 1} -> Words \X Words]
  BY <1>12 DEF PipelineTypeOK, Tick, AxisControl, AxisIdle, AxisWaitFull, HighPass, CheckDistortion,
               LowPass, PhaseCycle, WaitRestart, AxisDisable, axisVars
<1>14. /\ i2sTx_State' \in {"IDLE_TX", "DETECT_CHANNEL", "FILL_DATA", "PADDING_DATA"}
       /\ mute' \in BOOLEAN /\ channelNum' \in {0, 1}
       /\ writeIdx' \in {0, 1} /\ changeCounter' \in {0, 1}
  <2>1. /\ i2sTx_State \in {"IDLE_TX", "DETECT_CHANNEL", "FILL_DATA", "PADDING_DATA"}
        /\ mute \in BOOLEAN /\ channelNum \in {0, 1}
        /\ writeIdx \in {0, 1} /\ changeCounter \in {0, 1}
    BY DEF PipelineTypeOK
  <2>2. i2sTx_State' \in {i2sTx_State, "IDLE_TX", "DETECT_CHANNEL", "FILL_DATA", "PADDING_DATA"}
    BY DEF Tick, DataControl, TxIdle, DetectChannel, FillData, PaddingData
  <2>3. mute' \in BOOLEAN
    BY <2>1, Zenon DEF Tick, DataControl, TxIdle, DetectChannel, FillData, PaddingData
  <2>4. channelNum' \in {channelNum, 0, 1}
    BY DEF Tick, DataControl, TxIdle, DetectChannel, FillData, PaddingData
  <2>5. writeIdx' \in {writeIdx, 0, 1 - writeIdx}
    BY DEF Tick, DataControl, TxIdle, DetectChannel, FillData, PaddingData
  <2>6. changeCounter' \in {changeCounter, 0, 1 - changeCounter}
    BY DEF Tick, DataControl, TxIdle, DetectChannel, FillData, PaddingData
  <2> QED
    BY <2>1, <2>2, <2>3, <2>4, <2>5, <2>6
<1>15. dataTmp' \in Words \X Words
  BY <1>12 DEF PipelineTypeOK, Tick, DataControl, TxIdle, DetectChannel, FillData, PaddingData
<1>16. dataIdx' \in 0 .. (WordBits - 1) /\ paddingIdx' \in 0 .. PadBits
  <2>1. /\ dataIdx \in 0 .. (WordBits - 1) /\ paddingIdx \in 0 .. PadBits
        /\ WordBits \in Nat /\ WordBits >= 1 /\ PadBits \in Nat
    BY Sizes DEF PipelineTypeOK
  <2> QED
    BY <2>1 DEF Tick, DataControl, TxIdle, DetectChannel, FillData, PaddingData
<1> QED
  BY <1>2, <1>3, <1>4, <1>5, <1>6, <1>7, <1>8, <1>9, <1>10, <1>11, <1>13, <1>14, <1>15, <1>16
     DEF PipelineTypeOK

-----------------------------------------------------------------------------
(* The whole.                                                                *)

(* At power-up.                                                              *)
LEMMA InitInv == Init => PipelineInv
<1> SUFFICES ASSUME Init PROVE PipelineInv
  OBVIOUS
<1>1. PipelineTypeOK
  <2>1. 0 \in Words /\ 1 \in Words /\ Silence \in Words \X Words
    BY Sizes DEF Words, Silence
  <2>2. /\ 0 \in 0 .. 1 /\ 0 \in 0 .. (SlotBits - 1)
        /\ 0 \in 0 .. (WordBits - 1) /\ 0 \in 0 .. PadBits
    BY Sizes
  <2>3. dataLoc \in [{0, 1} -> Words \X Words]
    BY <2>1 DEF Init
  <2> HIDE DEF Words, Silence
  <2> QED
    BY <2>1, <2>2, <2>3 DEF Init, PipelineTypeOK
<1>2. cycle = 0 /\ lrclk_out = TRUE
  BY DEF Init, cycle
<1>3. Clocks
  <2>1. ~sclk_out /\ ~sclk_curr /\ ~sclk_prev /\ lrclk_out /\ ~lrclk_cur /\ ~lrclk_prev
    BY Zenon DEF Init
  <2>2. sclk_cnt = 0 /\ ~(cycle # 0) /\ ~(cycle >= 2)
    BY <1>2 DEF Init
  <2>3. sclk_curr = sclk_prev
    BY DEF Init
  <2> QED
    BY <2>1, <2>2, <2>3 DEF Clocks
<1>4. Received
  <2>1. ~(0 >= 2) /\ ~(0 > W)
    BY Sizes
  <2> QED
    BY <1>2, <2>1 DEF Init, Received
<1>5. Flags
  <2>1. ~(0 > W)
    BY Sizes
  <2> QED
    BY <1>2, <2>1 DEF Init, Flags, Empty, LeftOnly
<1>6. InTime /\ Sender
  BY DEF Init, InTime, Sender
<1>7. PairsAligned
  BY DEF Init, PairsAligned, Silence
<1> QED
  BY <1>1, <1>3, <1>4, <1>5, <1>6, <1>7 DEF PipelineInv

(* An edge of mclk, or a write by the host, which touches nothing but the    *)
(* enable bit.                                                               *)
LEMMA StepInv == PipelineInv /\ [Next]_vars => PipelineInv'
<1> SUFFICES ASSUME PipelineInv, [Next]_vars PROVE PipelineInv'
  OBVIOUS
<1>1. CASE Tick
  BY <1>1, ClocksStep, ReceivedStep, FlagsStep, InTimeStep, SenderStep, AlignedStep, TypesStep
     DEF Tick, PipelineInv
<1>2. CASE WriteEnable \/ UNCHANGED vars
  <2>1. UNCHANGED <<clockVars, edgeVars, rxVars, syncVars, axisVars, txVars>> /\ reg0' \in BOOLEAN
    BY <1>2, Zenon DEF WriteEnable, vars, hostVars, PipelineInv, PipelineTypeOK
  <2>2. PipelineTypeOK'
    BY <2>1 DEF PipelineInv, PipelineTypeOK, clockVars, edgeVars, rxVars, syncVars, axisVars, txVars
  <2>3. Clocks'
    BY <2>1 DEF PipelineInv, Clocks, cycle, clockVars, edgeVars
  <2>4. Received' /\ Flags' /\ InTime' /\ Sender'
    BY <2>1 DEF PipelineInv, Received, Flags, Empty, LeftOnly, BothWords, InTime, Sender, cycle, W,
                clockVars, rxVars, axisVars, txVars
  <2>5. PairsAligned'
    BY <2>1 DEF PipelineInv, PairsAligned, axisVars, txVars
  <2> QED
    BY <2>2, <2>3, <2>4, <2>5 DEF PipelineInv
<1> QED
  BY <1>1, <1>2 DEF Next

(* Every signal keeps its type, the buffer's indices and names among them.   *)
THEOREM PipelineTypes == Spec => []PipelineTypeOK
<1>1. PipelineInv => PipelineTypeOK
  BY DEF PipelineInv
<1> QED
  BY <1>1, InitInv, StepInv, PTL DEF Spec

(* A word and its padding are out before the next edge of lrclk, whenever    *)
(* the core is started or stopped (I2sTx.vhd, data process).                 *)
THEOREM NoEdgeIsMissed == Spec => []EdgesSeen
<1>1. PipelineInv => EdgesSeen
  <2> SUFFICES ASSUME PipelineInv, LrRises \/ LrFalls
               PROVE  i2sTx_State \notin {"FILL_DATA", "PADDING_DATA"}
    BY DEF EdgesSeen
  <2>1. cycle = 1
    BY EdgesInTime DEF PipelineInv
  <2> QED
    BY <2>1, ReadyForEdge DEF PipelineInv
<1> QED
  BY <1>1, InitInv, StepInv, PTL DEF Spec

(* Left and right are of one frame wherever a pair is, although the receiver *)
(* overwrites its words whether they were taken or not.                      *)
THEOREM LeftGoesWithRight == Spec => []PairsAligned
<1>1. PipelineInv => PairsAligned
  BY DEF PipelineInv
<1> QED
  BY <1>1, InitInv, StepInv, PTL DEF Spec

-----------------------------------------------------------------------------
(* Every pair in its turn, if the host leaves a frame between its writes.    *)

(* A frame is two halves of SlotBits bit clocks, of four mclk cycles each.   *)
LongGap == HostGap >= 8 * SlotBits

(* The enable bit reaches the core three cycles after it was written.        *)
EnableBit ==
  /\ sinceWrite \in 0 .. HostGap
  /\ sinceWrite >= 1 => (sync1 <=> reg0)
  /\ sinceWrite < 1 => (sync1 <=> ~reg0)
  /\ sinceWrite >= 2 => (sync2 <=> reg0)
  /\ sinceWrite < 2 => (sync2 <=> ~reg0)
  /\ sinceWrite >= 3 => (configReg <=> reg0)
  /\ sinceWrite < 3 => (configReg <=> ~reg0)

(* How many cycles a data process that is not idle can still be busy after   *)
(* a stop: to the end of this half, and to the end of the next if it still   *)
(* waits for the edge between them.                                          *)
BusyFor ==
  LastCycle + 1 - cycle
    + (IF i2sTx_State = "DETECT_CHANNEL" /\ cycle >= 2 THEN LastCycle + 1 ELSE 0)

(* A stop reaches the effects in the fourth cycle after the write, or after  *)
(* the pair they are at; the data process has come to rest, with its index   *)
(* reset, a frame after the write, so each start finds it at rest.           *)
Stopped ==
  /\ ~i2sTx_Enable /\ readIdx = 0
  /\ reg0 <=> sinceWrite <= 3
  /\ i2sTx_State # "IDLE_TX" => ~reg0 /\ sinceWrite + BusyFor < 2 * LastCycle + 2

Started ==
  /\ reg0 => sinceWrite >= 4
  /\ ~reg0 /\ sinceWrite > 3 =>
       ~lrclk_out /\ W + 3 <= cycle /\ cycle <= W + 8 /\ sinceWrite <= cycle - W + 1
  /\ ~i2sTx_Enable => i2sTx_State = "IDLE_TX" /\ readIdx = 0

StartStop ==
  /\ axis_control_state = "IDLE_AXIS" => Stopped
  /\ axis_control_state # "IDLE_AXIS" => Started
  /\ i2sTx_State = "IDLE_TX" => writeIdx = 0
  /\ i2sTx_State = "IDLE_TX" /\ i2sTx_Enable => ~lrclk_out /\ cycle = W + 7
  /\ i2sTx_State = "DETECT_CHANNEL" => cycle <= 1 \/ cycle > W

(* Where the two indices stand while the core runs, and which frame's pairs  *)
(* are in the buffer and with the data process.  The effects write a pair in *)
(* cycle W + 6 of the right half, the data process takes it at the start of  *)
(* the left half and moves its index at the start of the right half.         *)
Running ==
  /\ ~lrclk_out /\ cycle = W + 2 => fifo_full
  /\ ~lrclk_out /\ cycle = W + 3 => axis_control_state = "HIGH_PASS"
  /\ ~lrclk_out /\ cycle = W + 4 => axis_control_state = "CHECK_DISTORTION"
  /\ ~lrclk_out /\ cycle = W + 5 => axis_control_state = "LOW_PASS"
  /\ ~lrclk_out /\ cycle = W + 6 => axis_control_state = "PHASE_CYCLE"
  /\ ~lrclk_out /\ cycle = W + 7 => axis_control_state = "WAIT_RESTART"
  /\ changeCounter = 1 <=> (lrclk_out /\ cycle >= 2) \/ (~lrclk_out /\ cycle <= 1)
  /\ readIdx = writeIdx <=> ~lrclk_out /\ 2 <= cycle /\ cycle <= W + 7

Contents ==
  /\ ~lrclk_out /\ cycle >= W + 7 =>
       /\ dataLoc[writeIdx][1] = frame
       /\ \/ i2sTx_State = "DETECT_CHANNEL" /\ paddingIdx = PadBits
          \/ NextFrame(dataTmp[1]) = frame
  /\ lrclk_out /\ cycle <= 1 =>
       /\ dataLoc[writeIdx][1] # 0 /\ NextFrame(dataLoc[writeIdx][1]) = frame
       /\ paddingIdx = PadBits \/ NextFrame(dataTmp[1]) = dataLoc[writeIdx][1]
  /\ (lrclk_out /\ cycle >= 2) \/ (~lrclk_out /\ cycle <= W + 6) => NextFrame(dataTmp[1]) = frame

Turns ==
  /\ frame # 0
  /\ axis_control_state \in {"HIGH_PASS", "CHECK_DISTORTION", "LOW_PASS", "PHASE_CYCLE"} => work[1] = frame
  /\ axis_control_state = "WAIT_RESTART" => ~lrclk_out /\ cycle = W + 7
  /\ i2sTx_Enable /\ i2sTx_State = "IDLE_TX" => readIdx = 1 /\ dataLoc[0][1] = frame
  /\ i2sTx_Enable /\ i2sTx_State # "IDLE_TX" => Running /\ Contents

GapInv == PipelineInv /\ EnableBit /\ StartStop /\ Turns

(* The sizes once more, with the gap.                                        *)
LEMMA Gap ==
  ASSUME LongGap
  PROVE  HostGap \in Nat /\ HostGap >= 2 * LastCycle + 2 /\ HostGap >= 32
BY Sizes, SizesAssumption DEF LongGap, LastCycle

(* The synchroniser shifts the bit on.                                       *)
LEMMA EnableBitStep ==
  ASSUME LongGap, PipelineTypeOK, EnableBit, Tick
  PROVE  /\ EnableBit' /\ (reg0' <=> reg0)
         /\ sinceWrite' = IF sinceWrite = HostGap THEN HostGap ELSE sinceWrite + 1
<1>1. (sync1' <=> reg0) /\ (sync2' <=> sync1) /\ (configReg' <=> sync2) /\ (reg0' <=> reg0)
  BY Zenon DEF Tick, Synchronise
<1>2. sinceWrite' = IF sinceWrite = HostGap THEN HostGap ELSE sinceWrite + 1
  BY DEF Tick
<1> QED
  BY <1>1, <1>2, Gap DEF EnableBit

(* What a step of the data process does to the pair it sends and its index.  *)
LEMMA SenderMoves ==
  ASSUME PipelineTypeOK, Clocks, Sender, ClockGen, DataControl
  PROVE  /\ i2sTx_State = "IDLE_TX" =>
              /\ writeIdx' = writeIdx /\ dataTmp' = dataTmp
              /\ ~i2sTx_Enable => i2sTx_State' = "IDLE_TX"
              /\ i2sTx_Enable => i2sTx_State' = "DETECT_CHANNEL" /\ changeCounter' = 0 /\ paddingIdx' = PadBits
         /\ i2sTx_State # "IDLE_TX" /\ cycle = 1 =>
              /\ i2sTx_State = "DETECT_CHANNEL" /\ i2sTx_State' = "FILL_DATA"
              /\ changeCounter' = 1 - changeCounter
              /\ changeCounter = 1 => writeIdx' = 1 - writeIdx /\ dataTmp' = dataTmp
              /\ changeCounter # 1 =>
                   /\ writeIdx' = writeIdx
                   /\ readIdx # writeIdx => dataTmp' = dataLoc[writeIdx]
         /\ i2sTx_State # "IDLE_TX" /\ cycle # 1 =>
              /\ changeCounter' = changeCounter /\ dataTmp' = dataTmp
              /\ i2sTx_State' # "IDLE_TX" => writeIdx' = writeIdx
              /\ i2sTx_State' = "IDLE_TX" => writeIdx' = 0 /\ ~i2sTx_Enable
              /\ i2sTx_State = "DETECT_CHANNEL" => i2sTx_State' = "DETECT_CHANNEL" /\ paddingIdx' = paddingIdx
              /\ i2sTx_State' = "DETECT_CHANNEL" =>
                   i2sTx_State = "DETECT_CHANNEL" \/ (i2sTx_Enable /\ cycle >= W)
<1>1. (LrRises \/ LrFalls <=> cycle = 1) /\ (SclkRises <=> cycle = 4 * lrclk_cnt + 3)
  BY Position
<1>2. CASE TxIdle
  BY <1>2, Sizes DEF TxIdle
<1>3. CASE DetectChannel
  BY <1>1, <1>3 DEF DetectChannel
<1>4. CASE FillData
  <2>1. ~(cycle <= 1)
    BY <1>4, ReadyForEdge DEF FillData
  <2>2. cycle # 1
    BY <2>1
  <2> QED
    BY <1>4, <2>2 DEF FillData
<1>5. CASE PaddingData
  <2>1. ~(cycle <= 1)
    BY <1>5, ReadyForEdge DEF PaddingData
  <2>2. cycle # 1
    BY <2>1
  <2>3. SclkRises => cycle >= W
    <3>1. /\ lrclk_cnt = WordBits \/ lrclk_cnt = WordBits + paddingIdx
          /\ paddingIdx \in Nat /\ WordBits \in Nat
      BY <1>5, Sizes DEF PaddingData, Sender, PipelineTypeOK
    <3> QED
      BY <1>1, <3>1 DEF W
  <2>4. /\ changeCounter' = changeCounter /\ dataTmp' = dataTmp
        /\ i2sTx_State = "PADDING_DATA"
        /\ i2sTx_State' # "IDLE_TX" => writeIdx' = writeIdx
        /\ i2sTx_State' = "IDLE_TX" => writeIdx' = 0 /\ ~i2sTx_Enable
        /\ i2sTx_State' = "DETECT_CHANNEL" => SclkRises /\ i2sTx_Enable
    BY <1>5 DEF PaddingData
  <2> QED
    BY <2>2, <2>3, <2>4
<1> QED
  BY <1>2, <1>3, <1>4, <1>5 DEF DataControl

(* A stopped data process comes to rest by itself, a cycle at a time.        *)
LEMMA BusyForLess ==
  ASSUME PipelineTypeOK, Clocks, Sender, ClockGen, DataControl,
         ~i2sTx_Enable, i2sTx_State # "IDLE_TX", i2sTx_State' # "IDLE_TX"
  PROVE  BusyFor \in Nat /\ BusyFor >= 1 /\ BusyFor' = BusyFor - 1
<1>1. /\ cycle \in 0 .. LastCycle /\ LastCycle \in Nat /\ LastCycle >= 2
      /\ cycle = LastCycle => cycle' = 0
      /\ cycle # LastCycle => cycle' = cycle + 1
  BY Position, Sizes
<1>2. cycle = 1 => i2sTx_State = "DETECT_CHANNEL" /\ i2sTx_State' = "FILL_DATA"
  BY SenderMoves
<1>3. cycle # 1 => (i2sTx_State = "DETECT_CHANNEL" <=> i2sTx_State' = "DETECT_CHANNEL")
  BY SenderMoves
<1>4. cycle = LastCycle => i2sTx_State = "DETECT_CHANNEL"
  <2> SUFFICES ASSUME cycle = LastCycle PROVE i2sTx_State = "DETECT_CHANNEL"
    OBVIOUS
  <2>1. /\ lrclk_cnt = SlotBits - 1 /\ SclkRises /\ SlotBits \in Nat
        /\ WordBits \in Nat /\ PadBits \in Nat /\ PadBits >= 2 /\ WordBits + PadBits < SlotBits
        /\ dataIdx \in 0 .. (WordBits - 1) /\ paddingIdx \in 0 .. PadBits
    BY Position, Sizes DEF LastCycle, PipelineTypeOK
  <2>2. i2sTx_State # "FILL_DATA"
    BY <2>1 DEF Sender
  <2>3. i2sTx_State = "PADDING_DATA" => paddingIdx = PadBits
    BY <2>1 DEF Sender
  <2>4. i2sTx_State # "PADDING_DATA"
    BY <2>1, <2>3 DEF DataControl, TxIdle, DetectChannel, FillData, PaddingData
  <2> QED
    BY <2>2, <2>4 DEF PipelineTypeOK
<1>5. CASE cycle = LastCycle
  <2>1. i2sTx_State = "DETECT_CHANNEL" /\ i2sTx_State' = "DETECT_CHANNEL" /\ cycle' = 0
    BY <1>1, <1>3, <1>4, <1>5
  <2> QED
    BY <1>1, <1>5, <2>1 DEF BusyFor
<1>6. CASE cycle # LastCycle
  BY <1>1, <1>2, <1>3, <1>6 DEF BusyFor
<1> QED
  BY <1>5, <1>6

(* The effects' control, by place: it waits for the next pair unless it is   *)
(* in the six cycles after the last, and only a waiting one stops.           *)
LEMMA EffectsMove ==
  ASSUME PipelineTypeOK, Clocks, Flags, InTime, StartStop, Turns, ClockGen, AxisControl
  PROVE  /\ axis_control_state = "IDLE_AXIS" =>
              /\ i2sTx_Enable' = i2sTx_Enable /\ readIdx' = readIdx
              /\ axis_control_state' = IF configReg THEN "WAIT_AXIS_FIFO_FULL" ELSE "IDLE_AXIS"
         /\ axis_control_state = "WAIT_AXIS_FIFO_FULL" /\ fifo_full =>
              /\ ~lrclk_out /\ cycle = W + 2
              /\ axis_control_state' = "HIGH_PASS" /\ work' = <<stream_left, stream_right>>
              /\ i2sTx_Enable' = i2sTx_Enable /\ readIdx' = readIdx /\ dataLoc' = dataLoc
         /\ axis_control_state = "WAIT_AXIS_FIFO_FULL" /\ ~fifo_full /\ ~configReg =>
              axis_control_state' = "IDLE_AXIS" /\ i2sTx_Enable' = FALSE /\ readIdx' = 0
         /\ axis_control_state = "WAIT_AXIS_FIFO_FULL" /\ ~fifo_full /\ configReg =>
              UNCHANGED axisVars
         /\ axis_control_state \in {"HIGH_PASS", "CHECK_DISTORTION", "LOW_PASS"} =>
              /\ ~lrclk_out /\ W + 3 <= cycle /\ cycle <= W + 5
              /\ axis_control_state' \in {"CHECK_DISTORTION", "LOW_PASS", "PHASE_CYCLE"}
              /\ axis_control_state = "HIGH_PASS" => axis_control_state' = "CHECK_DISTORTION"
              /\ axis_control_state = "CHECK_DISTORTION" => axis_control_state' = "LOW_PASS"
              /\ axis_control_state = "LOW_PASS" => axis_control_state' = "PHASE_CYCLE"
              /\ work' = work /\ i2sTx_Enable' = i2sTx_Enable /\ readIdx' = readIdx /\ dataLoc' = dataLoc
         /\ axis_control_state = "PHASE_CYCLE" =>
              /\ ~lrclk_out /\ cycle = W + 6
              /\ i2sTx_Enable' = TRUE /\ work' = work
              /\ dataLoc' = [dataLoc EXCEPT ![readIdx] = work]
              /\ i2sTx_Enable => axis_control_state' = "WAIT_RESTART" /\ readIdx' = readIdx
              /\ ~i2sTx_Enable => axis_control_state' = "WAIT_AXIS_FIFO_FULL" /\ readIdx' = 1 - readIdx
         /\ axis_control_state = "WAIT_RESTART" =>
              /\ ~lrclk_out /\ cycle = W + 7 /\ i2sTx_Enable /\ i2sTx_Enable' = i2sTx_Enable
              /\ axis_control_state' = "WAIT_AXIS_FIFO_FULL" /\ readIdx' = 1 - readIdx /\ dataLoc' = dataLoc
<1>1. /\ cycle \in 0 .. LastCycle /\ lrclk_out \in BOOLEAN /\ LastCycle \in Nat /\ W \in Nat /\ W >= 7
  BY Position, Sizes
<1>2. fifo_full => ~lrclk_out /\ (cycle = W + 2 \/ (cycle = W + 3 /\ axis_control_state = "HIGH_PASS"))
  BY <1>1 DEF Flags, Empty, LeftOnly
<1>3. CASE AxisIdle
  BY <1>3, Zenon DEF AxisIdle
<1>4. CASE AxisWaitFull
  BY <1>2, <1>4 DEF AxisWaitFull, AxisDisable
<1>5. CASE HighPass
  BY <1>1, <1>5 DEF HighPass, InTime
<1>6. CASE CheckDistortion
  <2>1. ~lrclk_out /\ cycle = W + 4 /\ ~fifo_full
    BY <1>1, <1>2, <1>6 DEF CheckDistortion, InTime
  <2> QED
    BY <1>1, <1>6, <2>1 DEF CheckDistortion
<1>7. CASE LowPass
  BY <1>1, <1>7 DEF LowPass, InTime
<1>8. CASE PhaseCycle
  BY <1>1, <1>8 DEF PhaseCycle, InTime
<1>9. CASE WaitRestart
  <2>1. /\ i2sTx_Enable /\ ~lrclk_out /\ cycle = W + 7 /\ axis_control_state = "WAIT_RESTART"
        /\ i2sTx_State # "IDLE_TX"
    BY <1>9 DEF WaitRestart, InTime, Turns
  <2>2. readIdx = writeIdx
    BY <1>1, <2>1 DEF Turns, Running
  <2> QED
    BY <1>9, <2>1, <2>2 DEF WaitRestart
<1> QED
  BY <1>3, <1>4, <1>5, <1>6, <1>7, <1>8, <1>9 DEF AxisControl

(* Starts and stops keep their distance.                                     *)
LEMMA StartStopStep ==
  ASSUME LongGap, PipelineTypeOK, Clocks, Flags, InTime, Sender, EnableBit, StartStop, Turns, Tick
  PROVE  StartStop'
<1>1. /\ cycle \in 0 .. LastCycle /\ lrclk_out \in BOOLEAN
      /\ cycle = LastCycle => cycle' = 0 /\ (lrclk_out' <=> ~lrclk_out)
      /\ cycle # LastCycle => cycle' = cycle + 1 /\ (lrclk_out' <=> lrclk_out)
      /\ W \in Nat /\ W >= 7 /\ LastCycle \in Nat /\ W + 8 <= LastCycle
  BY Position, Sizes DEF Tick
<1>2. /\ sinceWrite \in 0 .. HostGap /\ (reg0' <=> reg0)
      /\ sinceWrite' = IF sinceWrite = HostGap THEN HostGap ELSE sinceWrite + 1
      /\ sinceWrite >= 3 => (configReg <=> reg0)
      /\ sinceWrite < 3 => (configReg <=> ~reg0)
      /\ HostGap \in Nat /\ HostGap >= 2 * LastCycle + 2 /\ HostGap >= 32
  BY EnableBitStep, Gap DEF EnableBit
<1>3. /\ i2sTx_State = "IDLE_TX" /\ ~i2sTx_Enable => i2sTx_State' = "IDLE_TX"
      /\ i2sTx_Enable => i2sTx_State' # "IDLE_TX"
  BY SenderMoves DEF Tick
<1>4. i2sTx_State' = "IDLE_TX" => writeIdx' = 0
  BY SenderMoves DEF Tick, StartStop
<1>5. i2sTx_State' = "DETECT_CHANNEL" => cycle' <= 1 \/ cycle' > W
  BY <1>1, SenderMoves DEF Tick, StartStop
<1>6. i2sTx_State' = "IDLE_TX" /\ i2sTx_Enable' => ~lrclk_out' /\ cycle' = W + 7
  <2>1. ~i2sTx_Enable /\ i2sTx_Enable' => ~lrclk_out /\ cycle = W + 6
    BY EffectsMove DEF Tick, PipelineTypeOK, axisVars
  <2> QED
    BY <1>1, <1>3, <2>1
<1>7. CASE axis_control_state = "IDLE_AXIS"
  <2>1. Stopped /\ axis_control_state' = IF configReg THEN "WAIT_AXIS_FIFO_FULL" ELSE "IDLE_AXIS"
    BY <1>7, EffectsMove DEF StartStop, Tick
  <2>2. (i2sTx_Enable' <=> i2sTx_Enable) /\ ~i2sTx_Enable' /\ readIdx' = 0
    BY <1>7, EffectsMove DEF StartStop, Stopped, Tick
  <2>3. CASE configReg
    <3>1. reg0 /\ sinceWrite = 3 /\ i2sTx_State = "IDLE_TX"
      BY <1>2, <2>1, <2>3 DEF Stopped
    <3>2. i2sTx_State' = "IDLE_TX" /\ sinceWrite' = 4
      BY <1>2, <1>3, <2>1, <3>1 DEF Stopped
    <3>3. Started'
      BY <1>2, <2>2, <3>1, <3>2 DEF Started
    <3> QED
      BY <1>4, <1>5, <1>6, <2>1, <2>3, <3>3 DEF StartStop
  <2>4. CASE ~configReg
    <3>1. reg0' <=> sinceWrite' <= 3
      BY <1>2, <2>1, <2>4 DEF Stopped
    <3>2. i2sTx_State' # "IDLE_TX" => ~reg0' /\ sinceWrite' + BusyFor' < 2 * LastCycle + 2
      <4> SUFFICES ASSUME i2sTx_State' # "IDLE_TX" PROVE ~reg0' /\ sinceWrite' + BusyFor' < 2 * LastCycle + 2
        OBVIOUS
      <4>1. i2sTx_State # "IDLE_TX" /\ ~reg0 /\ sinceWrite + BusyFor < 2 * LastCycle + 2 /\ ~i2sTx_Enable
        BY <1>3, <2>1 DEF Stopped
      <4>2. BusyFor \in Nat /\ BusyFor >= 1 /\ BusyFor' = BusyFor - 1
        BY <4>1, BusyForLess DEF Tick
      <4> QED
        BY <1>1, <1>2, <4>1, <4>2
    <3>3. Stopped'
      BY <2>2, <3>1, <3>2 DEF Stopped
    <3> QED
      BY <1>4, <1>5, <1>6, <2>1, <2>4, <3>3 DEF StartStop
  <2> QED
    BY <2>3, <2>4
<1>8. CASE axis_control_state # "IDLE_AXIS" /\ axis_control_state' = "IDLE_AXIS"
  <2>1. Started
    BY <1>8 DEF StartStop
  <2>2. ~configReg /\ ~i2sTx_Enable' /\ readIdx' = 0
    BY <1>8, EffectsMove DEF Tick, PipelineTypeOK, axisVars
  <2>3. ~reg0 /\ sinceWrite >= 3 /\ sinceWrite' >= 4
    BY <1>2, <2>1, <2>2 DEF Started
  <2>4. i2sTx_State' # "IDLE_TX" => sinceWrite' + BusyFor' < 2 * LastCycle + 2
    <3>1. BusyFor' <= LastCycle + 1 - cycle' \/ (cycle' > W /\ BusyFor' = 2 * LastCycle + 2 - cycle')
      BY <1>1, <1>5 DEF BusyFor
    <3>2. CASE sinceWrite = 3
      BY <1>1, <1>2, <3>1, <3>2 DEF BusyFor
    <3>3. CASE sinceWrite > 3
      <4>1. W + 3 <= cycle /\ cycle <= W + 8 /\ sinceWrite <= cycle - W + 1
        BY <2>1, <2>3, <3>3 DEF Started
      <4> QED
        BY <1>1, <1>2, <3>1, <4>1 DEF BusyFor
    <3> QED
      BY <1>2, <2>3, <3>2, <3>3
  <2>5. Stopped'
    BY <1>2, <2>2, <2>3, <2>4 DEF Stopped
  <2> QED
    BY <1>4, <1>5, <1>6, <1>8, <2>5 DEF StartStop
<1>9. CASE axis_control_state # "IDLE_AXIS" /\ axis_control_state' # "IDLE_AXIS"
  <2>1. Started
    BY <1>9 DEF StartStop
  <2>2. reg0' => sinceWrite' >= 4
    BY <1>2, <2>1 DEF Started
  <2>3. ~reg0' /\ sinceWrite' > 3 =>
          ~lrclk_out' /\ W + 3 <= cycle' /\ cycle' <= W + 8 /\ sinceWrite' <= cycle' - W + 1
    <3> SUFFICES ASSUME ~reg0', sinceWrite' > 3
                 PROVE  ~lrclk_out' /\ W + 3 <= cycle' /\ cycle' <= W + 8 /\ sinceWrite' <= cycle' - W + 1
      OBVIOUS
    <3>1. ~reg0 /\ sinceWrite >= 3 /\ ~configReg /\ sinceWrite' <= sinceWrite + 1
      BY <1>2
    <3>2. ~lrclk_out /\ W + 2 <= cycle /\ cycle <= W + 7
      <4>1. CASE axis_control_state = "WAIT_AXIS_FIFO_FULL"
        <5>1. fifo_full
          BY <1>9, <3>1, <4>1, EffectsMove DEF Tick
        <5> QED
          BY <1>1, <4>1, <5>1, EffectsMove DEF Tick
      <4>2. CASE axis_control_state \in {"HIGH_PASS", "CHECK_DISTORTION", "LOW_PASS"}
        <5>1. ~lrclk_out /\ W + 3 <= cycle /\ cycle <= W + 5
          BY <4>2, EffectsMove DEF Tick
        <5> QED
          BY <1>1, <5>1
      <4>3. CASE axis_control_state \in {"PHASE_CYCLE", "WAIT_RESTART"}
        <5>1. ~lrclk_out /\ (cycle = W + 6 \/ cycle = W + 7)
          BY <4>3, EffectsMove DEF Tick
        <5> QED
          BY <1>1, <5>1
      <4> QED
        BY <1>9, <4>1, <4>2, <4>3 DEF PipelineTypeOK
    <3>3. sinceWrite > 3 => W + 3 <= cycle /\ sinceWrite <= cycle - W + 1
      BY <2>1, <3>1 DEF Started
    <3> QED
      BY <1>1, <1>2, <3>1, <3>2, <3>3
  <2>4. ~i2sTx_Enable' => i2sTx_State' = "IDLE_TX" /\ readIdx' = 0
    <3>1. ~i2sTx_Enable' => ~i2sTx_Enable /\ readIdx' = readIdx
      <4>1. CASE axis_control_state = "WAIT_AXIS_FIFO_FULL"
        <5>1. i2sTx_Enable' = i2sTx_Enable /\ readIdx' = readIdx
          BY <1>9, <4>1, EffectsMove DEF Tick, axisVars
        <5> QED
          BY <5>1
      <4>2. CASE axis_control_state \in {"HIGH_PASS", "CHECK_DISTORTION", "LOW_PASS"}
        <5>1. i2sTx_Enable' = i2sTx_Enable /\ readIdx' = readIdx
          BY <4>2, EffectsMove DEF Tick
        <5> QED
          BY <5>1
      <4>3. CASE axis_control_state \in {"PHASE_CYCLE", "WAIT_RESTART"}
        <5>1. i2sTx_Enable' = TRUE \/ (i2sTx_Enable /\ i2sTx_Enable' = i2sTx_Enable)
          BY <4>3, EffectsMove DEF Tick
        <5> QED
          BY <5>1
      <4> QED
        BY <1>9, <4>1, <4>2, <4>3 DEF PipelineTypeOK
    <3> QED
      BY <1>3, <2>1, <3>1 DEF Started
  <2>5. Started'
    BY <2>2, <2>3, <2>4 DEF Started
  <2> QED
    BY <1>4, <1>5, <1>6, <1>9, <2>5 DEF StartStop
<1> QED
  BY <1>7, <1>8, <1>9

(* A running core, with its two processes, one cycle further.                *)
LEMMA RunningStep ==
  ASSUME PipelineTypeOK, Clocks, Flags, InTime, Sender, StartStop, Turns, Tick,
         i2sTx_Enable, i2sTx_State # "IDLE_TX", i2sTx_Enable'
  PROVE  Running' /\ Contents'
<1>1. /\ cycle \in 0 .. LastCycle /\ lrclk_out \in BOOLEAN
      /\ cycle = LastCycle => cycle' = 0 /\ (lrclk_out' <=> ~lrclk_out)
      /\ cycle # LastCycle => cycle' = cycle + 1 /\ (lrclk_out' <=> lrclk_out)
      /\ W \in Nat /\ W >= 7 /\ LastCycle \in Nat /\ W + 8 <= LastCycle
  BY Position, Sizes DEF Tick
<1>2. /\ Running /\ Contents /\ frame # 0
      /\ readIdx \in {0, 1} /\ writeIdx \in {0, 1} /\ changeCounter \in {0, 1}
      /\ dataLoc \in [{0, 1} -> Words \X Words]
  BY DEF Turns, PipelineTypeOK
<1>3. /\ lrclk_out \/ cycle # LastCycle => frame' = frame
      /\ ~lrclk_out /\ cycle = LastCycle => frame' = NextFrame(frame)
  BY <1>1 DEF Tick, ClockGen
<1>4. i2sTx_State' # "IDLE_TX"
  BY SenderMoves DEF Tick
<1>5. cycle # 1 =>
        /\ changeCounter' = changeCounter /\ dataTmp' = dataTmp /\ writeIdx' = writeIdx
        /\ i2sTx_State = "DETECT_CHANNEL" => i2sTx_State' = "DETECT_CHANNEL" /\ paddingIdx' = paddingIdx
  BY <1>4, SenderMoves DEF Tick
<1>6. lrclk_out \/ cycle <= W + 1 \/ cycle >= W + 8 =>
        /\ axis_control_state = "WAIT_AXIS_FIFO_FULL" /\ axis_control_state' = "WAIT_AXIS_FIFO_FULL"
        /\ readIdx' = readIdx /\ dataLoc' = dataLoc
  <2> SUFFICES ASSUME lrclk_out \/ cycle <= W + 1 \/ cycle >= W + 8
               PROVE  /\ axis_control_state = "WAIT_AXIS_FIFO_FULL"
                      /\ axis_control_state' = "WAIT_AXIS_FIFO_FULL"
                      /\ readIdx' = readIdx /\ dataLoc' = dataLoc
    OBVIOUS
  <2>1. axis_control_state # "IDLE_AXIS"
    BY DEF StartStop, Stopped
  <2>2. axis_control_state = "WAIT_AXIS_FIFO_FULL"
    BY <1>1, <2>1 DEF InTime, Turns, PipelineTypeOK
  <2>3. ~fifo_full
    BY <1>1, <2>2, EffectsMove DEF Tick
  <2>4. configReg
    <3>1. ~configReg => i2sTx_Enable' = FALSE
      BY <2>2, <2>3, EffectsMove DEF Tick
    <3> QED
      BY <3>1
  <2>5. UNCHANGED axisVars
    BY <2>2, <2>3, <2>4, EffectsMove DEF Tick
  <2> QED
    BY <2>2, <2>5 DEF axisVars
<1>7. CASE lrclk_out /\ cycle = 0
  <2>1. i2sTx_State = "DETECT_CHANNEL"
    BY <1>1, <1>7, ReadyForEdge
  <2>2. ~(cycle = 1) /\ lrclk_out' /\ cycle' = 1 /\ paddingIdx' = paddingIdx
    BY <1>1, <1>5, <1>7, <2>1
  <2>3. Running'
    BY <1>1, <1>2, <1>5, <1>6, <1>7, <2>2 DEF Running
  <2>4. Contents'
    BY <1>1, <1>2, <1>3, <1>5, <1>6, <1>7, <2>2 DEF Contents
  <2> QED
    BY <2>3, <2>4
<1>8. CASE lrclk_out /\ cycle = 1
  <2>1. lrclk_out' /\ cycle' = 2 /\ changeCounter = 0 /\ readIdx # writeIdx
    BY <1>1, <1>2, <1>8 DEF Running
  <2>2. changeCounter' = 1 /\ writeIdx' = writeIdx /\ dataTmp' = dataLoc[writeIdx]
    BY <1>8, <2>1, SenderMoves DEF Tick
  <2>3. Running'
    BY <1>1, <1>2, <1>6, <1>8, <2>1, <2>2 DEF Running
  <2>4. Contents'
    BY <1>1, <1>2, <1>3, <1>8, <2>1, <2>2 DEF Contents
  <2> QED
    BY <2>3, <2>4
<1>9. CASE (lrclk_out /\ cycle >= 2) \/ (~lrclk_out /\ cycle = 0)
  <2>1. cycle # 1 /\ ((lrclk_out' /\ cycle' >= 2) \/ (~lrclk_out' /\ cycle' <= 1))
    BY <1>1, <1>9
  <2>2. Running'
    BY <1>1, <1>2, <1>5, <1>6, <1>9, <2>1 DEF Running
  <2>3. Contents'
    BY <1>1, <1>2, <1>3, <1>5, <1>9, <2>1 DEF Contents
  <2> QED
    BY <2>2, <2>3
<1>10. CASE ~lrclk_out /\ cycle = 1
  <2>1. ~lrclk_out' /\ cycle' = 2 /\ changeCounter = 1 /\ readIdx # writeIdx
    BY <1>1, <1>2, <1>10 DEF Running
  <2>2. changeCounter' = 0 /\ writeIdx' = 1 - writeIdx /\ dataTmp' = dataTmp
    BY <1>10, <2>1, SenderMoves DEF Tick
  <2>3. readIdx' = writeIdx'
    BY <1>1, <1>2, <1>6, <1>10, <2>1, <2>2
  <2>4. Running'
    BY <1>1, <2>1, <2>2, <2>3 DEF Running
  <2>5. Contents'
    BY <1>1, <1>2, <1>3, <1>10, <2>1, <2>2 DEF Contents
  <2> QED
    BY <2>4, <2>5
<1>11. CASE ~lrclk_out /\ 2 <= cycle /\ cycle <= W + 6
  <2>1. cycle # 1 /\ ~lrclk_out' /\ cycle' = cycle + 1
    BY <1>1, <1>11
  <2>2. cycle = W + 1 => fifo_full'
    <3> SUFFICES ASSUME cycle = W + 1 PROVE fifo_full'
      OBVIOUS
    <3>1. left_valid /\ right_valid /\ ~axis_release_fifo
      BY <1>1, <1>6, <1>11 DEF Flags, BothWords, InTime
    <3> QED
      BY <3>1, Zenon DEF Tick, Receive
  <2>3. cycle = W + 2 => axis_control_state = "WAIT_AXIS_FIFO_FULL" /\ axis_control_state' = "HIGH_PASS"
    <3> SUFFICES ASSUME cycle = W + 2
                 PROVE  axis_control_state = "WAIT_AXIS_FIFO_FULL" /\ axis_control_state' = "HIGH_PASS"
      OBVIOUS
    <3>1. axis_control_state # "IDLE_AXIS" /\ fifo_full
      BY <1>2, <1>11 DEF StartStop, Stopped, Running
    <3>2. axis_control_state = "WAIT_AXIS_FIFO_FULL"
      BY <1>1, <1>11, <3>1 DEF InTime, Turns, PipelineTypeOK
    <3> QED
      BY <3>1, <3>2, EffectsMove DEF Tick
  <2>4. /\ cycle = W + 3 => axis_control_state' = "CHECK_DISTORTION"
        /\ cycle = W + 4 => axis_control_state' = "LOW_PASS"
        /\ cycle = W + 5 => axis_control_state' = "PHASE_CYCLE"
        /\ cycle = W + 6 => axis_control_state' = "WAIT_RESTART"
    BY <1>2, <1>11, EffectsMove DEF Tick, Running
  <2>5. readIdx' = readIdx
    <3>1. cycle <= W + 1 \/ cycle = W + 2 \/ cycle = W + 3 \/ cycle = W + 4 \/ cycle = W + 5 \/ cycle = W + 6
      BY <1>1, <1>11
    <3>2. CASE cycle = W + 2
      BY <1>2, <1>11, <2>3, <3>2, EffectsMove DEF Tick, Running
    <3>3. CASE cycle = W + 3 \/ cycle = W + 4 \/ cycle = W + 5 \/ cycle = W + 6
      BY <1>2, <1>11, <3>3, EffectsMove DEF Tick, Running
    <3> QED
      BY <1>6, <3>1, <3>2, <3>3
  <2>6. cycle = W + 6 => dataLoc'[writeIdx'][1] = frame'
    <3> SUFFICES ASSUME cycle = W + 6 PROVE dataLoc'[writeIdx'][1] = frame'
      OBVIOUS
    <3>1. dataLoc' = [dataLoc EXCEPT ![readIdx] = work] /\ work[1] = frame
      BY <1>2, <1>11, EffectsMove DEF Tick, Running, Turns
    <3>2. writeIdx' = readIdx /\ frame' = frame
      BY <1>1, <1>2, <1>3, <1>5, <1>11, <2>1 DEF Running
    <3> QED
      BY <1>2, <3>1, <3>2
  <2>7. Running'
    BY <1>1, <1>2, <1>5, <1>11, <2>1, <2>2, <2>3, <2>4, <2>5 DEF Running
  <2>8. Contents'
    BY <1>1, <1>2, <1>3, <1>5, <1>11, <2>1, <2>6 DEF Contents
  <2> QED
    BY <2>7, <2>8
<1>12. CASE ~lrclk_out /\ cycle = W + 7
  <2>1. cycle # 1 /\ ~lrclk_out' /\ cycle' = W + 8
    BY <1>1, <1>12
  <2>2. readIdx' = 1 - readIdx /\ dataLoc' = dataLoc /\ readIdx = writeIdx
    BY <1>1, <1>2, <1>12, EffectsMove DEF Tick, Running
  <2>3. readIdx' # writeIdx'
    BY <1>2, <1>5, <2>1, <2>2
  <2>4. Running'
    BY <1>1, <1>2, <1>5, <1>12, <2>1, <2>3 DEF Running
  <2>5. Contents'
    BY <1>1, <1>2, <1>3, <1>5, <1>12, <2>1, <2>2 DEF Contents
  <2> QED
    BY <2>4, <2>5
<1>13. CASE ~lrclk_out /\ cycle >= W + 8
  <2>1. cycle # 1 /\ ((lrclk_out' /\ cycle' = 0) \/ (~lrclk_out' /\ cycle' >= W + 8))
    BY <1>1, <1>13
  <2>2. Running'
    BY <1>1, <1>2, <1>5, <1>6, <1>13, <2>1 DEF Running
  <2>3. dataLoc'[writeIdx'][1] = frame
    BY <1>1, <1>2, <1>5, <1>6, <1>13, <2>1 DEF Contents
  <2>4. \/ i2sTx_State' = "DETECT_CHANNEL" /\ paddingIdx' = PadBits
        \/ NextFrame(dataTmp'[1]) = frame
    BY <1>1, <1>2, <1>5, <1>13, <2>1 DEF Contents
  <2>5. CASE cycle = LastCycle
    <3>1. lrclk_out' /\ cycle' = 0 /\ frame' = NextFrame(frame)
      BY <1>1, <1>3, <1>13, <2>5
    <3> QED
      BY <1>2, <2>2, <2>3, <2>4, <3>1 DEF Contents
  <2>6. CASE cycle # LastCycle
    <3>1. ~lrclk_out' /\ cycle' >= W + 9 /\ cycle' \in Nat /\ frame' = frame
      BY <1>1, <1>3, <1>13, <2>6
    <3> QED
      BY <1>1, <2>2, <2>3, <2>4, <3>1 DEF Contents
  <2> QED
    BY <2>2, <2>5, <2>6
<1> QED
  BY <1>1, <1>7, <1>8, <1>9, <1>10, <1>11, <1>12, <1>13

(* Frames, pairs and indices keep their places.                              *)
LEMMA TurnsStep ==
  ASSUME PipelineTypeOK, Clocks, Received, Flags, InTime, Sender, StartStop, Turns, Tick
  PROVE  Turns'
<1>1. /\ cycle \in 0 .. LastCycle /\ lrclk_out \in BOOLEAN
      /\ cycle = LastCycle => cycle' = 0 /\ (lrclk_out' <=> ~lrclk_out)
      /\ cycle # LastCycle => cycle' = cycle + 1 /\ (lrclk_out' <=> lrclk_out)
      /\ W \in Nat /\ W >= 7 /\ LastCycle \in Nat /\ W + 8 <= LastCycle
  BY Position, Sizes DEF Tick
<1>2. /\ lrclk_out \/ cycle # LastCycle => frame' = frame
      /\ ~lrclk_out /\ cycle = LastCycle => frame' = NextFrame(frame)
  BY <1>1 DEF Tick, ClockGen
<1>3. frame' # 0
  <2>1. frame \in Nat /\ frame # 0
    BY Sizes DEF PipelineTypeOK, Words, Turns
  <2> QED
    BY <1>1, <1>2, <2>1 DEF NextFrame
<1>4. axis_control_state' \in {"HIGH_PASS", "CHECK_DISTORTION", "LOW_PASS", "PHASE_CYCLE"} => work'[1] = frame'
  <2>1. CASE axis_control_state = "WAIT_AXIS_FIFO_FULL" /\ fifo_full
    <3>1. ~lrclk_out /\ cycle = W + 2 /\ work'[1] = stream_left
      BY <2>1, EffectsMove DEF Tick
    <3> QED
      BY <1>1, <1>2, <3>1 DEF Received
  <2>2. CASE axis_control_state \in {"HIGH_PASS", "CHECK_DISTORTION", "LOW_PASS"}
    <3>1. ~lrclk_out /\ W + 3 <= cycle /\ cycle <= W + 5 /\ work' = work
      BY <2>2, EffectsMove DEF Tick
    <3> QED
      BY <1>1, <1>2, <2>2, <3>1 DEF Turns
  <2>3. CASE axis_control_state = "WAIT_AXIS_FIFO_FULL" /\ ~fifo_full
    <3>1. axis_control_state' \in {"IDLE_AXIS", "WAIT_AXIS_FIFO_FULL"}
      BY <2>3, EffectsMove DEF Tick, axisVars
    <3> QED
      BY <3>1
  <2>4. CASE axis_control_state \in {"IDLE_AXIS", "PHASE_CYCLE", "WAIT_RESTART"}
    <3>1. axis_control_state' \in {"IDLE_AXIS", "WAIT_AXIS_FIFO_FULL", "WAIT_RESTART"}
      BY <2>4, EffectsMove DEF Tick
    <3> QED
      BY <3>1
  <2> QED
    BY <2>1, <2>2, <2>3, <2>4 DEF PipelineTypeOK
<1>5. axis_control_state' = "WAIT_RESTART" => ~lrclk_out' /\ cycle' = W + 7
  <2>1. axis_control_state' = "WAIT_RESTART" => axis_control_state = "PHASE_CYCLE"
    BY EffectsMove DEF Tick, PipelineTypeOK, axisVars
  <2> QED
    BY <1>1, <2>1, EffectsMove DEF Tick
<1>6. ~i2sTx_Enable /\ i2sTx_Enable' =>
        i2sTx_State' = "IDLE_TX" /\ readIdx' = 1 /\ dataLoc'[0][1] = frame'
  <2> SUFFICES ASSUME ~i2sTx_Enable, i2sTx_Enable'
               PROVE  i2sTx_State' = "IDLE_TX" /\ readIdx' = 1 /\ dataLoc'[0][1] = frame'
    OBVIOUS
  <2>1. axis_control_state = "PHASE_CYCLE"
    BY EffectsMove DEF Tick, PipelineTypeOK, axisVars
  <2>2. i2sTx_State = "IDLE_TX" /\ readIdx = 0
    BY <2>1 DEF StartStop, Started
  <2>3. i2sTx_State' = "IDLE_TX"
    BY <2>2, SenderMoves DEF Tick
  <2>4. readIdx' = 1 /\ dataLoc' = [dataLoc EXCEPT ![0] = work] /\ ~lrclk_out /\ cycle = W + 6
    BY <2>1, <2>2, EffectsMove DEF Tick
  <2>5. frame' = frame /\ work[1] = frame /\ dataLoc \in [{0, 1} -> Words \X Words]
    BY <1>1, <1>2, <2>1, <2>4 DEF Turns, PipelineTypeOK
  <2> QED
    BY <2>3, <2>4, <2>5
<1>7. i2sTx_Enable /\ i2sTx_Enable' => i2sTx_State' # "IDLE_TX" /\ Running' /\ Contents'
  <2> SUFFICES ASSUME i2sTx_Enable, i2sTx_Enable'
               PROVE  i2sTx_State' # "IDLE_TX" /\ Running' /\ Contents'
    OBVIOUS
  <2>1. i2sTx_State' # "IDLE_TX"
    BY SenderMoves DEF Tick
  <2>2. CASE i2sTx_State = "IDLE_TX"
    <3>1. /\ ~lrclk_out /\ cycle = W + 7 /\ writeIdx = 0 /\ readIdx = 1 /\ dataLoc[0][1] = frame
          /\ axis_control_state = "WAIT_AXIS_FIFO_FULL"
      BY <2>2 DEF StartStop, Turns, InTime
    <3>2. ~lrclk_out' /\ cycle' = W + 8 /\ frame' = frame
      BY <1>1, <1>2, <3>1
    <3>3. ~fifo_full
      BY <1>1, <3>1, EffectsMove DEF Tick
    <3>4. ~configReg => i2sTx_Enable' = FALSE
      BY <3>1, <3>3, EffectsMove DEF Tick
    <3>5. readIdx' = 1 /\ dataLoc' = dataLoc
      BY <3>1, <3>3, <3>4, EffectsMove DEF Tick, axisVars
    <3>6. /\ i2sTx_State' = "DETECT_CHANNEL" /\ changeCounter' = 0 /\ paddingIdx' = PadBits
          /\ writeIdx' = 0
      BY <2>2, <3>1, SenderMoves DEF Tick
    <3>7. Running'
      BY <1>1, <3>2, <3>5, <3>6 DEF Running
    <3>8. Contents'
      BY <1>1, <3>1, <3>2, <3>5, <3>6 DEF Contents
    <3> QED
      BY <2>1, <3>7, <3>8
  <2>3. CASE i2sTx_State # "IDLE_TX"
    BY <2>1, <2>3, RunningStep
  <2> QED
    BY <2>2, <2>3
<1> QED
  BY <1>3, <1>4, <1>5, <1>6, <1>7 DEF Turns

(* At power-up the core is at rest, its bit long clear.                      *)
LEMMA GapInit == LongGap /\ Init => GapInv
<1> SUFFICES ASSUME LongGap, Init PROVE GapInv
  OBVIOUS
<1>1. HostGap \in Nat /\ HostGap >= 32
  BY Gap
<1>2. /\ ~reg0 /\ ~sync1 /\ ~sync2 /\ ~configReg /\ ~i2sTx_Enable
      /\ sinceWrite = HostGap /\ readIdx = 0 /\ writeIdx = 0
      /\ axis_control_state = "IDLE_AXIS" /\ i2sTx_State = "IDLE_TX" /\ frame = 1
  <2>1. ~reg0 /\ ~sync1 /\ ~sync2 /\ ~configReg /\ ~i2sTx_Enable
    BY Zenon DEF Init
  <2> QED
    BY <2>1 DEF Init
<1>3. EnableBit
  BY <1>1, <1>2 DEF EnableBit
<1>4. StartStop
  BY <1>1, <1>2 DEF StartStop, Stopped
<1>5. Turns
  BY <1>2 DEF Turns
<1> QED
  BY <1>3, <1>4, <1>5, InitInv DEF GapInv

(* A write of the enable bit finds the core either at rest or running.       *)
LEMMA WriteEnableStep ==
  ASSUME LongGap, GapInv, WriteEnable
  PROVE  EnableBit' /\ StartStop' /\ Turns'
<1>1. /\ UNCHANGED <<clockVars, edgeVars, rxVars, syncVars, axisVars, txVars>>
      /\ sinceWrite = HostGap /\ sinceWrite' = 0
  BY DEF WriteEnable
<1>2. (reg0' <=> ~reg0) /\ (sync1' <=> sync1) /\ (sync2' <=> sync2) /\ (configReg' <=> configReg)
  <2>1. reg0' <=> ~reg0
    BY Zenon DEF WriteEnable
  <2>2. sync1' = sync1 /\ sync2' = sync2 /\ configReg' = configReg
    BY <1>1 DEF syncVars
  <2> QED
    BY <2>1, <2>2
<1>3. HostGap \in Nat /\ HostGap >= 2 * LastCycle + 2 /\ HostGap >= 32
  BY Gap
<1>4. /\ cycle \in 0 .. LastCycle /\ LastCycle \in Nat /\ W \in Nat /\ cycle' = cycle
  BY <1>1, CycleOfSlot, Sizes DEF GapInv, PipelineInv, cycle, clockVars
<1>5. EnableBit'
  BY <1>1, <1>2, <1>3 DEF GapInv, EnableBit
<1>6. axis_control_state = "IDLE_AXIS" => ~reg0 /\ i2sTx_State = "IDLE_TX"
  <2> SUFFICES ASSUME axis_control_state = "IDLE_AXIS" PROVE ~reg0 /\ i2sTx_State = "IDLE_TX"
    OBVIOUS
  <2>1. Stopped
    BY DEF GapInv, StartStop
  <2>2. BusyFor \in Nat
    BY <1>4 DEF BusyFor
  <2> QED
    BY <1>1, <1>3, <1>4, <2>1, <2>2 DEF Stopped
<1>7. axis_control_state # "IDLE_AXIS" => reg0
  <2> SUFFICES ASSUME axis_control_state # "IDLE_AXIS", ~reg0 PROVE FALSE
    OBVIOUS
  <2>1. Started
    BY DEF GapInv, StartStop
  <2> QED
    BY <1>1, <1>3, <1>4, <2>1 DEF Started
<1>8. StartStop'
  <2>1. axis_control_state = "IDLE_AXIS" => Stopped'
    BY <1>1, <1>2, <1>6 DEF GapInv, StartStop, Stopped, axisVars, txVars
  <2>2. axis_control_state # "IDLE_AXIS" => Started'
    BY <1>1, <1>2, <1>7 DEF GapInv, StartStop, Started, axisVars, txVars
  <2> QED
    BY <1>1, <1>4, <2>1, <2>2 DEF GapInv, StartStop, clockVars, axisVars, txVars
<1>9. Turns'
  BY <1>1, <1>4 DEF GapInv, Turns, Running, Contents, clockVars, rxVars, axisVars, txVars
<1> QED
  BY <1>5, <1>8, <1>9

(* The invariant of a core whose host leaves a frame between its writes.     *)
LEMMA GapStep == LongGap /\ GapInv /\ [Next]_vars => GapInv'
<1> SUFFICES ASSUME LongGap, GapInv, [Next]_vars PROVE GapInv'
  OBVIOUS
<1>1. PipelineInv'
  BY StepInv DEF GapInv
<1>2. CASE Tick
  BY <1>1, <1>2, EnableBitStep, StartStopStep, TurnsStep DEF GapInv, PipelineInv
<1>3. CASE WriteEnable
  BY <1>1, <1>3, WriteEnableStep DEF GapInv
<1>4. CASE UNCHANGED vars
  <2>1. cycle' = cycle /\ BusyFor' = BusyFor
    BY <1>4 DEF vars, cycle, BusyFor, clockVars, txVars
  <2>2. EnableBit'
    BY <1>4 DEF GapInv, EnableBit, vars, hostVars, syncVars
  <2>3. StartStop'
    BY <1>4, <2>1 DEF GapInv, StartStop, Stopped, Started, vars, clockVars, hostVars, axisVars, txVars
  <2>4. Turns'
    BY <1>4, <2>1 DEF GapInv, Turns, Running, Contents, vars, clockVars, rxVars, axisVars, txVars
  <2> QED
    BY <1>1, <2>2, <2>3, <2>4 DEF GapInv
<1> QED
  BY <1>2, <1>3, <1>4 DEF Next

(* If the host leaves a frame between its changes of the enable bit, each    *)
(* pair is played once and in its turn, and an enabled core never plays      *)
(* silence, over any number of stops and restarts at any cycles.             *)
THEOREM EveryPairInTurn == LongGap => (Spec => Gapless)
<1> SUFFICES ASSUME LongGap PROVE Spec => Gapless
  OBVIOUS
<1>1. Init => GapInv
  BY GapInit
<1>2. GapInv /\ [Next]_vars => GapInv'
  BY GapStep
<1>3. GapInv /\ [Next]_vars =>
        [ TakesPair /\ i2sTx_Enable =>
            /\ dataTmp' # Silence
            /\ paddingIdx # PadBits => dataTmp'[1] = NextFrame(dataTmp[1]) ]_vars
  <2> SUFFICES ASSUME GapInv, [Next]_vars, TakesPair, i2sTx_Enable
               PROVE  /\ dataTmp' # Silence
                      /\ paddingIdx # PadBits => dataTmp'[1] = NextFrame(dataTmp[1])
    OBVIOUS
  <2>1. i2sTx_State = "DETECT_CHANNEL" /\ i2sTx_State' = "FILL_DATA" /\ changeCounter = 0
    BY DEF TakesPair
  <2>2. Tick
    BY <2>1 DEF Next, WriteEnable, vars, txVars
  <2>3. /\ cycle = 1 /\ lrclk_out \in BOOLEAN
    <3>1. LrRises \/ LrFalls
      BY <2>1, <2>2 DEF Tick, DataControl, TxIdle, DetectChannel, FillData, PaddingData
    <3> QED
      BY <2>2, <3>1, Position DEF Tick, GapInv, PipelineInv
  <2>4. Running /\ Contents
    BY <2>1 DEF GapInv, Turns
  <2>5. lrclk_out /\ readIdx # writeIdx
    BY <2>1, <2>3, <2>4, Sizes DEF Running
  <2>6. dataTmp' = dataLoc[writeIdx]
    BY <2>1, <2>2, <2>3, <2>5, SenderMoves DEF Tick, GapInv, PipelineInv
  <2> QED
    BY <2>3, <2>4, <2>5, <2>6 DEF Contents, Silence
<1> QED
  BY <1>1, <1>2, <1>3, PTL DEF Spec, Gapless

(* A stop takes a frame at most, wherever in the frame it comes: a frame     *)
(* after the bit was cleared both processes of I2sTx are at rest, the core   *)
(* is disabled and both indices are zero.                                    *)
AtRest ==
  /\ axis_control_state = "IDLE_AXIS" /\ i2sTx_State = "IDLE_TX"
  /\ ~i2sTx_Enable /\ readIdx = 0 /\ writeIdx = 0
RestsInAFrame == ~reg0 /\ sinceWrite >= 8 * SlotBits => AtRest

(* I2sTx.vhd, both processes: the bound behind Stops, which TLC checks.      *)
THEOREM StopsWithinAFrame == LongGap => (Spec => []RestsInAFrame)
<1> SUFFICES ASSUME LongGap PROVE Spec => []RestsInAFrame
  OBVIOUS
<1>1. Init => GapInv
  BY GapInit
<1>2. GapInv /\ [Next]_vars => GapInv'
  BY GapStep
<1>3. GapInv => RestsInAFrame
  <2> SUFFICES ASSUME GapInv, ~reg0, sinceWrite >= 8 * SlotBits PROVE AtRest
    BY DEF RestsInAFrame
  <2>1. /\ cycle \in 0 .. LastCycle /\ LastCycle \in Nat /\ W \in Nat /\ W >= 7
        /\ sinceWrite \in 0 .. HostGap /\ HostGap \in Nat /\ sinceWrite >= 2 * LastCycle + 2
    BY CycleOfSlot, Sizes, Gap DEF GapInv, PipelineInv, EnableBit, LastCycle
  <2>2. axis_control_state = "IDLE_AXIS"
    <3> SUFFICES ASSUME axis_control_state # "IDLE_AXIS" PROVE FALSE
      OBVIOUS
    <3>1. Started
      BY DEF GapInv, StartStop
    <3> QED
      BY <2>1, <3>1, Sizes DEF Started
  <2>3. Stopped
    BY <2>2 DEF GapInv, StartStop
  <2>4. BusyFor \in Nat
    BY <2>1 DEF BusyFor
  <2>5. i2sTx_State = "IDLE_TX"
    BY <2>1, <2>3, <2>4 DEF Stopped
  <2> QED
    BY <2>2, <2>3, <2>5 DEF AtRest, Stopped, GapInv, StartStop
<1> QED
  BY <1>1, <1>2, <1>3, PTL DEF Spec

(* A start takes a frame and nine cycles at most: three to reach the core,   *)
(* one to leave the idle state, up to a frame to the next pair, five for the *)
(* effects.  FirstPair follows the wait; SincePair counts from the cycle in  *)
(* which a pair is there for the effects.                                    *)
SincePair ==
  IF ~lrclk_out /\ cycle >= W + 2
    THEN cycle - W - 2
    ELSE LastCycle + cycle - W - 1 + (IF lrclk_out THEN 0 ELSE LastCycle + 1)

(* With the pair, SincePair has begun to count the next frame.               *)
HavingPair == IF axis_control_state = "WAIT_AXIS_FIFO_FULL" /\ ~fifo_full THEN 0 ELSE 8 * SlotBits

FirstPair ==
  reg0 /\ sinceWrite >= 4 /\ ~i2sTx_Enable =>
    sinceWrite <= 4 + SincePair + HavingPair

(* Once it has taken a pair the data process never holds silence.            *)
Sounds ==
  /\ i2sTx_Enable
  /\ i2sTx_State \in {"FILL_DATA", "PADDING_DATA"} \/ (i2sTx_State = "DETECT_CHANNEL" /\ changeCounter = 1)
  => dataTmp # Silence

PlaysInAFrame ==
  reg0 /\ sinceWrite >= 8 * SlotBits + 9 =>
    i2sTx_Enable /\ (i2sTx_State = "FILL_DATA" => dataTmp # Silence)

(* The wait for the first pair goes by the clock.                           *)
LEMMA SincePairStep ==
  ASSUME PipelineTypeOK, Clocks, ClockGen
  PROVE  /\ SincePair \in Nat /\ SincePair' \in Nat
         /\ ~lrclk_out /\ cycle = W + 1 => SincePair = 8 * SlotBits - 1 /\ SincePair' = 0
         /\ ~(~lrclk_out /\ cycle = W + 1) => SincePair' = SincePair + 1
         /\ SincePair < 8 * SlotBits
         /\ ~lrclk_out /\ cycle >= W + 2 => SincePair = cycle - W - 2
<1>1. /\ cycle \in 0 .. LastCycle /\ lrclk_out \in BOOLEAN
      /\ cycle = LastCycle => cycle' = 0 /\ (lrclk_out' <=> ~lrclk_out)
      /\ cycle # LastCycle => cycle' = cycle + 1 /\ (lrclk_out' <=> lrclk_out)
      /\ W \in Nat /\ W >= 7 /\ LastCycle \in Nat /\ W + 8 <= LastCycle
      /\ W' = W /\ LastCycle' = LastCycle
  BY Position, Sizes DEF W, LastCycle
<1>2. 8 * SlotBits = 2 * LastCycle + 2
  BY Sizes DEF LastCycle
<1>3. CASE lrclk_out /\ cycle # LastCycle
  BY <1>1, <1>2, <1>3 DEF SincePair
<1>4. CASE lrclk_out /\ cycle = LastCycle
  BY <1>1, <1>2, <1>4 DEF SincePair
<1>5. CASE ~lrclk_out /\ cycle # LastCycle
  BY <1>1, <1>2, <1>5 DEF SincePair
<1>6. CASE ~lrclk_out /\ cycle = LastCycle
  BY <1>1, <1>2, <1>6 DEF SincePair
<1> QED
  BY <1>1, <1>3, <1>4, <1>5, <1>6

(* The pair that is complete while the effects wait is there for them.      *)
LEMMA PairArrives ==
  ASSUME PipelineTypeOK, Flags, InTime, Receive, axis_control_state = "WAIT_AXIS_FIFO_FULL",
         ~lrclk_out, cycle = W + 1
  PROVE  fifo_full'
<1>1. cycle \in Nat /\ W \in Nat
  BY CycleOfSlot, Sizes
<1>2. left_valid /\ right_valid /\ ~axis_release_fifo
  BY <1>1 DEF Flags, InTime, BothWords
<1> QED
  BY <1>2 DEF Receive

(* The first pair after a start is not waited for longer than a frame.      *)
LEMMA FirstPairStep ==
  ASSUME LongGap, GapInv, FirstPair, Tick
  PROVE  FirstPair'
<1>1. PipelineInv /\ PipelineTypeOK /\ Clocks /\ Flags /\ InTime /\ Sender /\ EnableBit /\ StartStop /\ Turns
  BY DEF GapInv, PipelineInv
<1> SUFFICES ASSUME reg0', sinceWrite' >= 4, ~i2sTx_Enable'
             PROVE  sinceWrite' <= 4 + SincePair' + HavingPair'
  BY Zenon DEF FirstPair
<1>2. HavingPair' = 0 \/ HavingPair' = 8 * SlotBits
  BY DEF HavingPair
<1>3. /\ SincePair \in Nat
      /\ ~lrclk_out /\ cycle = W + 1 => SincePair = 8 * SlotBits - 1
      /\ SincePair' = IF ~lrclk_out /\ cycle = W + 1 THEN 0 ELSE SincePair + 1
  BY <1>1, SincePairStep DEF Tick
<1>4. /\ sinceWrite \in Nat /\ sinceWrite' <= sinceWrite + 1 /\ sinceWrite' \in Nat
      /\ SlotBits \in Nat /\ reg0
  BY <1>1, EnableBitStep, Gap, Sizes DEF EnableBit
<1>5. CASE sinceWrite <= 3
  BY <1>2, <1>3, <1>4, <1>5
<1>6. CASE sinceWrite >= 4
  <2>1. configReg /\ axis_control_state # "IDLE_AXIS"
    BY <1>1, <1>4, <1>6 DEF EnableBit, StartStop, Stopped
  <2>2. ~i2sTx_Enable /\ axis_control_state \notin {"PHASE_CYCLE", "WAIT_RESTART"}
    BY <1>1, <2>1, EffectsMove DEF Tick, PipelineTypeOK, axisVars, InTime
  <2>3. sinceWrite <= 4 + SincePair + HavingPair
    BY <1>4, <1>6, <2>2 DEF FirstPair
  <2>4. W \in Nat /\ cycle \in Nat
    BY <1>1, CycleOfSlot, Sizes
  <2>5. CASE axis_control_state = "WAIT_AXIS_FIFO_FULL" /\ ~fifo_full
    <3>1. axis_control_state' = axis_control_state
      BY <1>1, <2>1, <2>5, EffectsMove DEF Tick, axisVars
    <3>2. sinceWrite <= 4 + SincePair
      BY <1>3, <2>3, <2>5 DEF HavingPair
    <3>3. CASE ~lrclk_out /\ cycle = W + 1
      <4>1. fifo_full'
        BY <1>1, <2>5, <3>3, PairArrives DEF Tick
      <4>2. HavingPair' = 8 * SlotBits
        BY <4>1 DEF HavingPair
      <4> QED
        BY <1>3, <1>4, <3>2, <3>3, <4>2
    <3>4. CASE ~(~lrclk_out /\ cycle = W + 1)
      BY <1>2, <1>3, <1>4, <3>2, <3>4
    <3> QED
      BY <3>3, <3>4
  <2>6. CASE ~(axis_control_state = "WAIT_AXIS_FIFO_FULL" /\ ~fifo_full)
    <3>1. sinceWrite <= 4 + SincePair + 8 * SlotBits
      BY <2>3, <2>6 DEF HavingPair
    <3>2. axis_control_state \in {"WAIT_AXIS_FIFO_FULL", "HIGH_PASS", "CHECK_DISTORTION", "LOW_PASS"}
      BY <1>1, <2>1, <2>2 DEF PipelineTypeOK
    <3>3. /\ axis_control_state = "WAIT_AXIS_FIFO_FULL" => cycle = W + 2 /\ axis_control_state' = "HIGH_PASS"
          /\ axis_control_state # "WAIT_AXIS_FIFO_FULL" =>
               W + 3 <= cycle /\ axis_control_state' \in {"CHECK_DISTORTION", "LOW_PASS", "PHASE_CYCLE"}
      BY <1>1, <2>6, <3>2, EffectsMove DEF Tick
    <3>4. cycle # W + 1
      BY <2>4, <3>3
    <3>5. HavingPair' = 8 * SlotBits
      BY <3>3 DEF HavingPair
    <3> QED
      BY <1>3, <1>4, <3>1, <3>4, <3>5
  <2> QED
    BY <2>5, <2>6
<1> QED
  BY <1>4, <1>5, <1>6

(* What the data process holds changes at the start of a left half only,    *)
(* and then there is a pair for it.                                          *)
LEMMA SoundsStep ==
  ASSUME GapInv, Sounds, Tick
  PROVE  Sounds'
<1> SUFFICES ASSUME i2sTx_Enable',
                    \/ i2sTx_State' \in {"FILL_DATA", "PADDING_DATA"}
                    \/ i2sTx_State' = "DETECT_CHANNEL" /\ changeCounter' = 1
             PROVE  dataTmp' # Silence
  BY DEF Sounds, Silence
<1> USE DEF GapInv, PipelineInv
<1>1. /\ cycle \in 0 .. LastCycle /\ lrclk_out \in BOOLEAN
      /\ W \in Nat /\ W >= 7 /\ LastCycle \in Nat /\ W + 8 <= LastCycle
  BY Position, Sizes DEF Tick
<1>2. i2sTx_Enable
  <2> SUFFICES ASSUME ~i2sTx_Enable PROVE FALSE
    OBVIOUS
  <2>1. axis_control_state # "IDLE_AXIS"
    BY EffectsMove DEF Tick
  <2>2. i2sTx_State = "IDLE_TX"
    BY <2>1 DEF StartStop, Started
  <2> QED
    BY <2>2, SenderMoves DEF Tick
<1>3. i2sTx_State # "IDLE_TX"
  BY <1>2, SenderMoves DEF Tick
<1>4. changeCounter \in {0, 1} /\ i2sTx_State \in {"DETECT_CHANNEL", "FILL_DATA", "PADDING_DATA"}
  BY <1>3 DEF PipelineTypeOK
<1>5. CASE cycle # 1
  <2>1. /\ changeCounter' = changeCounter /\ dataTmp' = dataTmp
        /\ i2sTx_State = "DETECT_CHANNEL" => i2sTx_State' = "DETECT_CHANNEL"
    BY <1>3, <1>5, SenderMoves DEF Tick
  <2> QED
    BY <1>2, <1>4, <2>1 DEF Sounds
<1>6. CASE cycle = 1 /\ changeCounter = 1
  <2>1. i2sTx_State = "DETECT_CHANNEL" /\ dataTmp' = dataTmp
    BY <1>3, <1>6, SenderMoves DEF Tick
  <2> QED
    BY <1>2, <1>6, <2>1 DEF Sounds
<1>7. CASE cycle = 1 /\ changeCounter # 1
  <2>1. Running /\ Contents
    BY <1>2, <1>3 DEF Turns
  <2>2. lrclk_out /\ readIdx # writeIdx
    BY <1>1, <1>7, <2>1 DEF Running
  <2>3. dataTmp' = dataLoc[writeIdx]
    BY <1>3, <1>7, <2>2, SenderMoves DEF Tick
  <2>4. dataLoc[writeIdx][1] # 0
    BY <1>7, <2>1, <2>2 DEF Contents
  <2> QED
    BY <2>3, <2>4 DEF Silence
<1> QED
  BY <1>5, <1>6, <1>7

(* I2sTx.vhd, both processes: the bound behind Plays, which TLC checks.  (It *)
(* speaks of hosts that leave more than a frame between their writes; the    *)
(* code leaves 100 ms.)                                                      *)
THEOREM PlaysWithinAFrame == LongGap => (Spec => []PlaysInAFrame)
<1> SUFFICES ASSUME LongGap PROVE Spec => []PlaysInAFrame
  OBVIOUS
<1> DEFINE I == GapInv /\ FirstPair /\ Sounds
<1>1. Init => I
  <2> SUFFICES ASSUME Init PROVE I
    OBVIOUS
  <2>1. ~reg0 /\ ~i2sTx_Enable
    BY Zenon DEF Init
  <2> QED
    BY <2>1, GapInit DEF FirstPair, Sounds
<1>2. I /\ [Next]_vars => I'
  <2> SUFFICES ASSUME I, [Next]_vars PROVE I'
    OBVIOUS
  <2>1. GapInv'
    BY GapStep
  <2>2. CASE Tick
    BY <2>1, <2>2, FirstPairStep, SoundsStep
  <2>3. CASE WriteEnable
    <3>1. sinceWrite' = 0 /\ UNCHANGED <<axisVars, txVars>>
      BY <2>3 DEF WriteEnable
    <3>2. FirstPair'
      BY <3>1 DEF FirstPair
    <3>3. Sounds'
      BY <3>1 DEF Sounds, Silence, axisVars, txVars
    <3> QED
      BY <2>1, <3>2, <3>3
  <2>4. CASE UNCHANGED vars
    <3>1. SincePair' = SincePair
      BY <2>4 DEF vars, SincePair, cycle, clockVars, W, LastCycle
    <3>2. FirstPair' /\ Sounds'
      BY <2>4, <3>1 DEF FirstPair, HavingPair, Sounds, Silence, vars, hostVars, rxVars, axisVars, txVars
    <3> QED
      BY <2>1, <3>2
  <2> QED
    BY <2>2, <2>3, <2>4 DEF Next
<1>3. I => PlaysInAFrame
  <2> SUFFICES ASSUME I, reg0, sinceWrite >= 8 * SlotBits + 9
               PROVE  i2sTx_Enable /\ (i2sTx_State = "FILL_DATA" => dataTmp # Silence)
    BY DEF PlaysInAFrame
  <2>1. /\ cycle \in 0 .. LastCycle /\ LastCycle \in Nat /\ W \in Nat /\ W + 8 <= LastCycle
        /\ sinceWrite \in Nat /\ SlotBits \in Nat /\ 8 * SlotBits = 2 * LastCycle + 2
    BY CycleOfSlot, Sizes, Gap DEF GapInv, PipelineInv, EnableBit, LastCycle
  <2>2. i2sTx_Enable
    <3> SUFFICES ASSUME ~i2sTx_Enable PROVE FALSE
      OBVIOUS
    <3>1. axis_control_state # "IDLE_AXIS"
      BY <2>1 DEF GapInv, StartStop, Stopped
    <3>2. sinceWrite <= 4 + SincePair + HavingPair
      BY <2>1 DEF FirstPair
    <3>3. SincePair <= 2 * LastCycle + 1
      BY <2>1 DEF SincePair, GapInv, PipelineInv, PipelineTypeOK
    <3>4. ~(axis_control_state = "WAIT_AXIS_FIFO_FULL" /\ ~fifo_full) =>
            ~lrclk_out /\ W + 2 <= cycle /\ cycle <= W + 6
      BY <2>1, <3>1 DEF GapInv, PipelineInv, PipelineTypeOK, InTime, Flags, Empty, LeftOnly
    <3> QED
      BY <2>1, <3>2, <3>3, <3>4 DEF SincePair, HavingPair
  <2> QED
    BY <2>2 DEF Sounds
<1> QED
  BY <1>1, <1>2, <1>3, PTL DEF Spec
=============================================================================
