-------------------------- MODULE MqttBroker_proofs --------------------------
(***************************************************************************)
(* Proofs about the broker application for all packet lengths, readings    *)
(* and identifiers, with a broker that answers anything, a peer that may   *)
(* close, failures of every call and processes that end at any time.       *)
(*                                                                         *)
(* The argument has four parts.  The byte stream from the broker is never  *)
(* out of step with the packets when the client publishes, so that a       *)
(* PUBLISH that the closed link swallows is never taken as answered        *)
(* (Aligned).  The session is whole when the loop runs (SessionInv).  The  *)
(* scheduler and the client hand readings over one at a time (HandInv).    *)
(* With a proper broker a send ends only by an accepted PUBACK (AckInv).   *)
(*                                                                         *)
(* From these follow a bound on the steps of a send (StepsToAck) and, with *)
(* any broker, of what is left to do on a closed link (StepsToRead).       *)
(***************************************************************************)
EXTENDS MqttBroker, MqttHandle_proofs

-----------------------------------------------------------------------------
(* The bytes of the answer being read and those behind them, from the first  *)
(* byte of the buffer on.                                                    *)
BufIdx    == dataSize - dataRemain
Stream(j) == IF j <= BufIdx THEN front[j] ELSE rx[j - BufIdx]
Total     == BufIdx + Len(rx)

Waiting ==
  /\ inbox = <<request>> /\ link = "up"
  /\ Total \in {0, 2}
  /\ Total = 2 => request.type = "CONNECT"
Answered ==
  /\ inbox = << >>
  /\ Total \in {0, 2, 4, 6}
  /\ Total = 6 => request.type = "CONNECT" /\ Stream(3) # 0
  /\ Total = 4 /\ request.type = "PINGREQ" => Stream(1) # PINGRESP_TYPE
CutOff == inbox = << >> /\ rx = << >> /\ link # "up"

(* An answer of the wrong length can leave two bytes behind; then every      *)
(* CONNECT is refused until an answer too short has made up for them, and    *)
(* the client pings and publishes only over a link with nothing on it.       *)
Aligned ==
  /\ state # "READ" => inbox = << >>
  /\ state = "CONNECT" => Len(rx) \in {0, 2}
  /\ state = "WRITE" /\ request.type = "CONNECT" => Len(rx) \in {0, 2}
  /\ state = "WRITE" /\ request.type # "CONNECT" => rx = << >>
  /\ state \in {"PINGREQ", "PUBLISH", "PUBACK"} => rx = << >>
  /\ state = "CONNACK"  => rx = << >> \/ (Len(rx) = 2 /\ front[3] # 0)
  /\ state = "PINGRESP" => rx = << >> \/ (Len(rx) = 2 /\ front[1] # PINGRESP_TYPE)
  /\ state = "READ" => Waiting \/ Answered \/ CutOff

(* An answer of two bytes is a PINGRESP, one of four begins with another     *)
(* type.                                                                     *)
LEMMA AnswerHeads ==
  ASSUME NEW p \in Requests, NEW a \in Answers(p)
  PROVE  /\ a \in Seq(Byte) /\ Len(a) \in {2, 4} /\ a[1] # 0
         /\ Len(a) = 4 => a[1] # PINGRESP_TYPE
<1>1. a \in Seq(Byte) /\ Len(a) \in {2, 4}
  BY AnswerBytes
<1>2. \A i \in PacketIds : PubackBytes(i)[1] = PUBACK_TYPE
  BY DEF PubackBytes
<1>3. \A s \in {0, 1}, c \in {0, 5} : ConnackBytes(s, c)[1] = CONNACK_TYPE
  BY DEF ConnackBytes
<1>4. PingrespBytes[1] = PINGRESP_TYPE /\ Len(PingrespBytes) = 2
  BY DEF PingrespBytes
<1>5. CASE BrokerErrs
  <2>1. \/ \E s \in {0, 1}, c \in {0, 5} : a = ConnackBytes(s, c)
        \/ a = PingrespBytes
        \/ \E i \in PacketIds : a = PubackBytes(i)
    BY <1>5 DEF Answers, AllAnswers
  <2>2. a[1] = CONNACK_TYPE \/ a[1] = PUBACK_TYPE \/ (a[1] = PINGRESP_TYPE /\ Len(a) = 2)
    BY <1>2, <1>3, <1>4, <2>1
  <2> QED
    <3>1. CASE a[1] = CONNACK_TYPE
      BY <1>1, <3>1 DEF CONNACK_TYPE, PINGRESP_TYPE
    <3>2. CASE a[1] = PUBACK_TYPE
      BY <1>1, <3>2 DEF PUBACK_TYPE, PINGRESP_TYPE
    <3>3. CASE a[1] = PINGRESP_TYPE /\ Len(a) = 2
      BY <1>1, <3>3 DEF PINGRESP_TYPE
    <3> QED
      BY <2>2, <3>1, <3>2, <3>3
<1>6. CASE ~BrokerErrs
  <2>1. a = ProperAnswer(p)
    BY <1>6 DEF Answers
  <2>2. CASE p = ConnectPacket
    BY <1>1, <1>3, <2>1, <2>2 DEF ProperAnswer, ConnectPacket, CONNACK_TYPE, PINGRESP_TYPE
  <2>3. CASE p = PingreqPacket
    BY <1>1, <1>4, <2>1, <2>3 DEF ProperAnswer, PingreqPacket, PINGRESP_TYPE
  <2>4. CASE p \in Publishes
    BY <1>1, <1>2, <2>1, <2>4 DEF ProperAnswer, Publishes, PUBACK_TYPE, PINGRESP_TYPE
  <2> QED
    BY <2>2, <2>3, <2>4 DEF Requests
<1> QED
  BY <1>1, <1>5, <1>6

(* What is known of a transfer in READ.                                      *)
LEMMA ReadFacts ==
  ASSUME Shape, state = "READ"
  PROVE  /\ dataRemain \in Nat /\ dataSize \in {2, 4} /\ dataRemain \in 1 .. dataSize
         /\ dataRead = dataSize /\ dataSize = AnswerLen(request) /\ nextState = AnswerState(request)
         /\ request \in Requests /\ BufIdx \in 0 .. 3
         /\ rx \in Seq(Byte) /\ Len(rx) \in Nat /\ front \in [1 .. 4 -> Byte]
<1>1. /\ dataRemain \in Nat /\ dataRemain \in 1 .. dataSize /\ dataRead = dataSize
      /\ dataRead = AnswerLen(request) /\ nextState = AnswerState(request) /\ request \in Requests
      /\ rx \in Seq(Byte) /\ front \in [1 .. 4 -> Byte]
  BY DEF Shape, TypeOK, TransferInBounds, RequestAgrees
<1>2. dataSize \in {2, 4}
  BY <1>1 DEF AnswerLen
<1> QED
  BY <1>1, <1>2 DEF BufIdx

(* Reading moves bytes from the link into the buffer and leaves the stream   *)
(* they form as it was.                                                      *)
LEMMA ReadKeepsStream ==
  ASSUME Shape, NEW k \in 1 .. dataRemain, ReadChunk(k)
  PROVE  /\ BufIdx' = BufIdx + k /\ Total' = Total /\ Len(rx') = Len(rx) - k
         /\ \A j \in 1 .. 4 : j <= Total => Stream(j)' = Stream(j)
<1>1. /\ state = "READ" /\ k <= Len(rx) /\ k \in Nat /\ k >= 1
      /\ dataRemain' = dataRemain - k /\ dataSize' = dataSize
      /\ rx' = SubSeq(rx, k + 1, Len(rx))
  BY DEF ReadChunk, Shape, TypeOK
<1>2. /\ dataRemain \in Nat /\ dataSize \in Nat /\ BufIdx \in 0 .. 3 /\ BufIdx + k <= 4
      /\ rx \in Seq(Byte) /\ Len(rx) \in Nat
  BY <1>1, ReadFacts DEF BufIdx
<1>3. BufIdx' = BufIdx + k
  BY <1>1, <1>2 DEF BufIdx
<1>4. /\ Len(rx') = Len(rx) - k
      /\ \A i \in 1 .. (Len(rx) - k) : rx'[i] = rx[k + i]
  <2>1. \A i \in (k + 1) .. Len(rx) : rx[i] \in Byte
    BY <1>1, <1>2
  <2>2. /\ Len(SubSeq(rx, k + 1, Len(rx))) =
             IF k + 1 <= Len(rx) THEN Len(rx) - (k + 1) + 1 ELSE 0
        /\ \A i \in 1 .. Len(rx) - (k + 1) + 1 :
             SubSeq(rx, k + 1, Len(rx))[i] = rx[(k + 1) + i - 1]
    BY <1>1, <1>2, <2>1, SubSeqProperties
  <2> QED
    BY <1>1, <1>2, <2>2
<1>5. Total' = Total
  BY <1>2, <1>3, <1>4 DEF Total
<1>6. ASSUME NEW j \in 1 .. 4, j <= Total PROVE Stream(j)' = Stream(j)
  <2>1. CASE j <= BufIdx
    <3>1. j <= BufIdx'
      BY <1>2, <1>3, <2>1
    <3>2. j \notin (BufIdx + 1) .. (BufIdx + k)
      BY <1>2, <2>1
    <3>3. front'[j] = front[j]
      BY <1>1, <3>2 DEF ReadChunk, BufIdx
    <3> QED
      BY <2>1, <3>1, <3>3 DEF Stream
  <2>2. CASE j > BufIdx /\ j <= BufIdx + k
    <3>1. front'[j] = rx[j - BufIdx]
      <4>1. j \in (BufIdx + 1) .. (BufIdx + k)
        BY <1>2, <2>2
      <4> QED
        BY <4>1 DEF ReadChunk, BufIdx
    <3> QED
      BY <1>2, <1>3, <2>2, <3>1 DEF Stream
  <2>3. CASE j > BufIdx + k
    <3>1. j - BufIdx - k \in 1 .. (Len(rx) - k)
      BY <1>2, <1>6, <2>3 DEF Total
    <3>2. rx'[j - BufIdx - k] = rx[k + (j - BufIdx - k)]
      BY <1>4, <3>1
    <3>3. k + (j - BufIdx - k) = j - BufIdx /\ j - BufIdx' = j - BufIdx - k
      BY <1>2, <1>3
    <3>4. Stream(j) = rx[j - BufIdx] /\ Stream(j)' = rx'[j - BufIdx']
      BY <1>2, <1>3, <2>3 DEF Stream
    <3> QED
      BY <3>2, <3>3, <3>4
  <2> QED
    BY <1>2, <2>1, <2>2, <2>3
<1> QED
  BY <1>3, <1>4, <1>5, <1>6

(* Reading keeps the stream in step; when the answer is complete, what is    *)
(* left behind it shows in a byte that its check will refuse.                *)
LEMMA ReadAligned ==
  ASSUME Shape, Aligned, NEW k \in 1 .. dataRemain, ReadChunk(k)
  PROVE  Aligned'
<1>1. /\ state = "READ" /\ k <= Len(rx) /\ k \in Nat /\ k >= 1
      /\ UNCHANGED <<request, inbox, link, nextState>>
      /\ state' = IF k = dataRemain THEN nextState ELSE state
  BY DEF ReadChunk, Shape, TypeOK
<1>2. /\ dataRemain \in Nat /\ dataSize \in {2, 4} /\ dataRemain \in 1 .. dataSize
      /\ dataSize = AnswerLen(request) /\ nextState = AnswerState(request)
      /\ request \in Requests /\ BufIdx \in 0 .. 3 /\ Len(rx) \in Nat
  BY <1>1, ReadFacts
<1>3. /\ BufIdx' = BufIdx + k /\ Total' = Total /\ Len(rx') = Len(rx) - k
      /\ Total >= 3 => Stream(3)' = Stream(3)
      /\ Total >= 1 => Stream(1)' = Stream(1)
  BY <1>2, ReadKeepsStream DEF Total
<1>4. rx # << >> /\ (Waiting \/ Answered)
  BY <1>1, <1>2 DEF Aligned, CutOff
<1>5. CASE k # dataRemain
  <2>1. state' = "READ"
    BY <1>1, <1>5
  <2>2. Waiting => Waiting'
    BY <1>1, <1>3 DEF Waiting
  <2>3. Answered => Answered'
    BY <1>1, <1>3 DEF Answered
  <2> QED
    BY <1>4, <2>1, <2>2, <2>3 DEF Aligned
<1>6. CASE k = dataRemain
  <2>1. BufIdx' = dataSize /\ Total = dataSize + Len(rx') /\ Len(rx') \in Nat
    BY <1>1, <1>2, <1>3, <1>6 DEF BufIdx, Total
  <2>2. rx' \in Seq(Byte) /\ (Len(rx') = 0 => rx' = << >>)
    <3>1. rx' \in Seq(Byte)
      BY <1>1 DEF ReadChunk, Shape, TypeOK
    <3> QED
      BY <3>1, EmptySeq
  <2>3. \A j \in 1 .. dataSize : Stream(j)' = front'[j]
    BY <1>2, <2>1 DEF Stream
  <2>4. CASE request.type = "CONNECT"
    <3>1. dataSize = 4 /\ state' = "CONNACK"
      BY <1>1, <1>2, <1>6, <2>4 DEF AnswerLen, AnswerState
    <3>2. Answered
      BY <1>4, <2>1, <3>1 DEF Waiting
    <3>3. Len(rx') \in {0, 2} /\ (Len(rx') = 2 => front'[3] # 0)
      BY <1>3, <2>1, <2>3, <3>1, <3>2 DEF Answered
    <3> QED
      BY <1>1, <2>2, <3>1, <3>2, <3>3 DEF Aligned, Answered
  <2>5. CASE request.type = "PINGREQ"
    <3>1. dataSize = 2 /\ state' = "PINGRESP"
      BY <1>1, <1>2, <1>6, <2>5 DEF AnswerLen, AnswerState
    <3>2. Answered
      BY <1>4, <2>1, <2>5, <3>1 DEF Waiting
    <3>3. Len(rx') \in {0, 2} /\ (Len(rx') = 2 => front'[1] # PINGRESP_TYPE)
      BY <1>3, <2>1, <2>3, <2>5, <3>1, <3>2 DEF Answered
    <3> QED
      BY <1>1, <2>2, <3>1, <3>2, <3>3 DEF Aligned, Answered
  <2>6. CASE request.type = "PUBLISH"
    <3>1. dataSize = 4 /\ state' = "PUBACK"
      BY <1>1, <1>2, <1>6, <2>6 DEF AnswerLen, AnswerState
    <3>2. Answered
      BY <1>4, <2>1, <3>1 DEF Waiting
    <3>3. Len(rx') = 0
      BY <2>1, <2>6, <3>1, <3>2 DEF Answered
    <3> QED
      BY <1>1, <2>2, <3>1, <3>2, <3>3 DEF Aligned, Answered
  <2> QED
    BY <1>2, <2>4, <2>5, <2>6, RequestKinds
<1> QED
  BY <1>5, <1>6

(* Every call of MqttHandle_App keeps the link in step.                      *)
LEMMA AppAligned ==
  ASSUME Shape, Aligned, NEW isWrite \in BOOLEAN, App(isWrite)
  PROVE  Aligned'
<1>0. rx \in Seq(Byte) /\ Len(rx) \in Nat /\ (Len(rx) = 0 => rx = << >>) /\ (rx = << >> => Len(rx) = 0)
  BY EmptySeq DEF Shape, TypeOK
<1>1. CASE AppConnect
  BY <1>1 DEF AppConnect, CreateMessage, ConnectPacket, wireVars, Aligned
<1>2. CASE AppConnack
  <2>1. Connack => rx = << >>
    BY <1>2 DEF AppConnack, Connack, Aligned
  <2> QED
    BY <1>0, <1>2, <2>1 DEF AppConnack, transfer, wireVars, Aligned
<1>3. CASE AppPingreq(isWrite)
  BY <1>3 DEF AppPingreq, CreateMessage, PingreqPacket, transfer, wireVars, Aligned
<1>4. CASE AppPingresp
  <2>1. PingrespReceived => rx = << >>
    BY <1>4 DEF AppPingresp, PingrespReceived, Aligned
  <2> QED
    BY <1>0, <1>4, <2>1 DEF AppPingresp, transfer, wireVars, Aligned
<1>5. CASE AppPublish
  BY <1>5 DEF AppPublish, CreateMessage, PublishPacket, wireVars, Aligned
<1>6. CASE AppPuback
  BY <1>0, <1>6 DEF AppPuback, transfer, wireVars, Aligned
<1>7. ASSUME NEW k \in 1 .. dataRemain, WriteChunk(k)
      PROVE  Aligned'
  <2>1. /\ state = "WRITE" /\ inbox = << >> /\ request \in Requests
        /\ dataRead = AnswerLen(request) /\ UNCHANGED <<request, rx, link>>
    BY <1>7 DEF WriteChunk, Aligned, Shape, TransferInBounds, RequestAgrees
  <2>2. CASE k = dataRemain
    <3>1. /\ state' = "READ" /\ dataRead \in Nat
          /\ dataSize' = dataRead /\ dataRemain' = dataRead
          /\ inbox' = IF link = "up" THEN <<request>> ELSE << >>
      BY <1>7, <2>1, <2>2 DEF WriteChunk, AnswerLen
    <3>2. BufIdx' = 0 /\ Total' = Len(rx)
      BY <1>0, <2>1, <3>1 DEF BufIdx, Total
    <3>3. Len(rx) \in {0, 2} /\ (request.type # "CONNECT" => Len(rx) = 0)
      BY <1>0, <2>1 DEF Aligned
    <3>4. CASE link = "up"
      BY <2>1, <3>1, <3>2, <3>3, <3>4 DEF Aligned, Waiting
    <3>5. CASE link # "up"
      <4>1. Total' \in {0, 2} /\ inbox' = << >>
        BY <3>1, <3>2, <3>3, <3>5
      <4>2. Answered'
        BY <4>1 DEF Answered
      <4> QED
        BY <3>1, <4>1, <4>2 DEF Aligned
    <3> QED
      BY <3>4, <3>5
  <2>3. CASE k # dataRemain
    BY <1>7, <2>1, <2>3 DEF WriteChunk, Aligned
  <2> QED
    BY <2>2, <2>3
<1>8. ASSUME NEW k \in 1 .. dataRemain, ReadChunk(k)
      PROVE  Aligned'
  BY <1>8, ReadAligned
<1>9. CASE TransferRetry
  BY <1>9 DEF TransferRetry, vars, clientVars, transfer, wireVars, Aligned, Waiting, Answered,
              CutOff, Total, Stream, BufIdx
<1> QED
  BY <1>1, <1>2, <1>3, <1>4, <1>5, <1>6, <1>7, <1>8, <1>9 DEF App

(* So do the broker, whatever it answers, and the peer that closes.          *)
LEMMA AnswerAligned ==
  ASSUME Shape, Aligned, BrokerAnswers
  PROVE  Aligned'
<1>1. /\ state = "READ" /\ Waiting /\ inbox = <<request>>
      /\ UNCHANGED <<state, request, front, dataSize, dataRemain, link>>
  BY DEF BrokerAnswers, Aligned, Answered, CutOff, Waiting, clientVars, transfer
<1>2. BufIdx \in 0 .. 3 /\ rx \in Seq(Byte) /\ Len(rx) \in Nat /\ request \in Requests
      /\ dataSize \in Nat /\ dataRemain \in Nat
  BY <1>1, ReadFacts
<1>3. Head(inbox) = request /\ inbox' = << >>
  BY <1>1 DEF BrokerAnswers
<1>4. PICK a \in Answers(request) : rx' = rx \o a
  BY <1>3 DEF BrokerAnswers
<1>5. a \in Seq(Byte) /\ Len(a) \in {2, 4} /\ a[1] # 0 /\ (Len(a) = 4 => a[1] # PINGRESP_TYPE)
  BY <1>2, AnswerHeads
<1>6. /\ Len(rx') = Len(rx) + Len(a)
      /\ rx'[Len(rx) + 1] = a[1]
  BY <1>2, <1>4, <1>5, ConcatProperties
<1>7. BufIdx' = BufIdx /\ Total' = Total + Len(a) /\ Total \in {0, 2}
  BY <1>1, <1>2, <1>5, <1>6 DEF BufIdx, Total, Waiting
<1>8. ASSUME NEW t \in {0, 2}, Total = t PROVE Stream(t + 1)' = a[1]
  <2>1. BufIdx + Len(rx) = t
    BY <1>8 DEF Total
  <2>2. t + 1 > BufIdx' /\ (t + 1) - BufIdx' = Len(rx) + 1
    BY <1>2, <1>7, <2>1
  <2>3. Stream(t + 1)' = rx'[(t + 1) - BufIdx']
    BY <1>2, <1>7, <2>2 DEF Stream
  <2> QED
    BY <1>6, <2>2, <2>3
<1>9. Answered'
  <2>1. Total = 2 => request.type = "CONNECT"
    BY <1>1 DEF Waiting
  <2>2. Total = 2 => Stream(3)' = a[1]
    <3>1. 2 \in {0, 2} /\ 2 + 1 = 3
      OBVIOUS
    <3> QED
      BY <1>8, <3>1
  <2>3. Total = 0 => Stream(1)' = a[1]
    <3>1. 0 \in {0, 2} /\ 0 + 1 = 1
      OBVIOUS
    <3> QED
      BY <1>8, <3>1
  <2>4. Total' \in {2, 4, 6} /\ (Total' = 6 => Total = 2) /\ (Total' = 4 /\ Total = 0 => Len(a) = 4)
    <3>1. PICK t \in {0, 2} : Total = t
      BY <1>7
    <3>2. PICK n \in {2, 4} : Len(a) = n
      BY <1>5
    <3>3. Total' = t + n
      BY <1>7, <3>1, <3>2
    <3> QED
      BY <3>1, <3>2, <3>3
  <2>5. Total' = 6 => request'.type = "CONNECT" /\ Stream(3)' # 0
    BY <1>1, <1>5, <2>1, <2>2, <2>4
  <2>6. Total' = 4 /\ request'.type = "PINGREQ" => Stream(1)' # PINGRESP_TYPE
    BY <1>1, <1>5, <1>7, <2>1, <2>3, <2>4
  <2> QED
    BY <1>3, <2>4, <2>5, <2>6 DEF Answered
<1> QED
  BY <1>1, <1>9 DEF Aligned

(* A peer that closes, and the end of the process.                           *)
LEMMA CloseAligned ==
  ASSUME Shape, Aligned, PeerCloses \/ Close
  PROVE  Aligned'
<1>1. /\ link' # "up" /\ inbox' = << >> /\ (rx' = rx \/ rx' = << >>)
      /\ UNCHANGED clientVars
  BY DEF PeerCloses, Close
<1>2. CASE rx' = << >>
  <2>1. Len(rx') = 0
    BY <1>2
  <2> QED
    BY <1>1, <1>2, <2>1 DEF Aligned, CutOff, clientVars, transfer
<1>3. CASE rx' = rx
  <2>1. Waiting => Answered'
    BY <1>1, <1>3 DEF Waiting, Answered, Total, BufIdx, Stream, clientVars, transfer
  <2>2. Answered => Answered'
    BY <1>1, <1>3 DEF Answered, Total, BufIdx, Stream, clientVars, transfer
  <2>3. CutOff => CutOff'
    BY <1>1, <1>3 DEF CutOff
  <2> QED
    BY <1>1, <1>3, <2>1, <2>2, <2>3 DEF Aligned, clientVars, transfer
<1> QED
  BY <1>1, <1>2, <1>3

(* A new session starts in step.                                             *)
LEMMA OpenAligned == ASSUME Init \/ Open PROVE (Init => Aligned) /\ (Open => Aligned')
  BY DEF Init, Open, Aligned

(* What touches neither the client nor the link.                             *)
LEMMA OthersAligned ==
  ASSUME Aligned, UNCHANGED <<clientVars, wireVars>>
  PROVE  Aligned'
  BY DEF clientVars, transfer, wireVars, Aligned, Waiting, Answered, CutOff, Total, Stream, BufIdx

-----------------------------------------------------------------------------
(* The session.  Until a call fails every part that has been opened is       *)
(* there, and the loop is entered only if none has.                          *)
SessionInv ==
  /\ TlsTypeOK
  /\ pc # "down" /\ ~failed =>
       /\ step # "SSL_CTX_new" => ctx = "live"
       /\ step \in {"connect", "SSL_new", "SSL_connect", "return"} => sock = "live"
       /\ step = "SSL_connect" => handle = "live"
       /\ step = "return" => handle = "connected"
  /\ ~failed => "dangling" \notin {ctx, sock}
  /\ Running => step = "return" /\ ~failed

(* A call that opens the session is made before the loop, and goes on with   *)
(* what there is.                                                            *)
LEMMA OpenSessionKeepsSession ==
  ASSUME SessionInv, NEW ok \in BOOLEAN, OpenSession(ok)
  PROVE  SessionInv'
<1>1. pc = "init" /\ pc' = "init" /\ TlsStep(ok)
  BY DEF OpenSession
<1>2. CASE SslCtxNew(ok)
  BY <1>1, <1>2 DEF SslCtxNew, SessionInv, TlsTypeOK, Running
<1>3. CASE BioNew(ok)
  BY <1>1, <1>3 DEF BioNew, SessionInv, TlsTypeOK, Running
<1>4. CASE Socket(ok)
  BY <1>1, <1>4 DEF Socket, SessionInv, TlsTypeOK, Running
<1>5. CASE Connect(ok)
  BY <1>1, <1>5 DEF Connect, SessionInv, TlsTypeOK, Running
<1>6. CASE SslNew(ok)
  BY <1>1, <1>6 DEF SslNew, SessionInv, TlsTypeOK, Running
<1>7. CASE SslConnect(ok)
  BY <1>1, <1>7 DEF SslConnect, SessionInv, TlsTypeOK, Running
<1> QED
  BY <1>1, <1>2, <1>3, <1>4, <1>5, <1>6, <1>7 DEF TlsStep

(* Every step of the application keeps it.                                   *)
LEMMA SessionStep == SessionInv /\ [BrokerNext]_brokerVars => SessionInv'
<1> SUFFICES ASSUME SessionInv, [BrokerNext]_brokerVars PROVE SessionInv'
  OBVIOUS
<1>1. CASE Start
  BY <1>1 DEF Start, TlsNew, SessionInv, TlsTypeOK, Running
<1>2. CASE MainInit
  BY <1>2 DEF MainInit, tlsVars, SessionInv, TlsTypeOK, Running
<1>3. CASE MainInitFails
  BY <1>3 DEF MainInitFails, tlsVars, SessionInv, TlsTypeOK, Running
<1>4. ASSUME NEW ok \in BOOLEAN, OpenSession(ok) PROVE SessionInv'
  BY <1>4, OpenSessionKeepsSession
<1>5. CASE AppScheduler
  <2>1. UNCHANGED tlsVars /\ pc = "scheduler" /\ pc' = "app"
    BY <1>5 DEF AppScheduler, UnbindXadc, StartXadcKernel, ReadData, SendToServer, PrepareRead, FinishSend
  <2> QED
    BY <2>1 DEF tlsVars, SessionInv, TlsTypeOK, Running
<1>6. CASE CallApp
  BY <1>6 DEF CallApp, tlsVars, SessionInv, TlsTypeOK, Running
<1>7. CASE Sleep
  BY <1>7 DEF Sleep, tlsVars, SessionInv, TlsTypeOK, Running
<1>8. CASE HandleSigint
  BY <1>8 DEF HandleSigint, DeInit, SessionInv, TlsTypeOK, Running
<1>9. CASE Killed
  BY <1>9 DEF Killed, tlsVars, SessionInv, TlsTypeOK, Running
<1>10. CASE StartsForgotten \/ Convert \/ Environment \/ UNCHANGED brokerVars
  BY <1>10 DEF StartsForgotten, Convert, Environment, brokerVars, tlsVars, SessionInv, TlsTypeOK, Running
<1> QED
  BY <1>1, <1>2, <1>3, <1>4, <1>5, <1>6, <1>7, <1>8, <1>9, <1>10 DEF BrokerNext

(* So it is invariant.                                                       *)
LEMMA SessionInvariant == BrokerSpec => []SessionInv
<1>1. BrokerInit => SessionInv
  BY DEF BrokerInit, TlsInit, SessionInv, TlsTypeOK, Running
<1> QED
  BY <1>1, SessionStep, PTL DEF BrokerSpec

(* The loop of main runs only on a whole session, although MqttHandle_Init   *)
(* goes on after every failure, and before the first failure MqttHandle_     *)
(* DeInit finds nothing freed already.                                       *)
THEOREM SessionIsWhole == BrokerSpec => []SessionWhole
<1>1. SessionInv => SessionWhole
  BY DEF SessionInv, SessionWhole, Running
<1> QED
  BY <1>1, SessionInvariant, PTL

-----------------------------------------------------------------------------
(* The hand-over.                                                            *)

AllBefore == \A i \in 1 .. Len(delivered) : delivered[i].reading < kData
AllUpTo   == \A i \in 1 .. Len(delivered) : delivered[i].reading <= kData

IdleStates == {"UNBIND_XADC", "START_XADC_KERNEL", "READ_DATA"}

Publishing == state = "WRITE" /\ request.type = "PUBLISH"
(* The peer closed while the PUBLISH was being written: READ for ever.       *)
Swallowed  == state = "READ" /\ rx = << >> /\ link = "closed"

ProcInv ==
  /\ pc \in {"down", "init", "scheduler", "app", "sleep"}
  /\ schedState \in IdleStates \cup {"SEND_TO_SERVER", "PREPARE_READ", "FINISH_SEND"}
  /\ writeFlag \in BOOLEAN /\ loaded \in BOOLEAN
  /\ kData \in Readings \cup {0} /\ version \in Readings \cup {0}
  /\ Running <=> link # "none"
  /\ link = "none" => payload = NoReading
  /\ pc = "init" => ~writeFlag /\ schedState = "UNBIND_XADC" /\ kData = 0

HandInv ==
  /\ writeFlag <=> schedState = "PREPARE_READ"
  /\ schedState \in {"UNBIND_XADC", "START_XADC_KERNEL"} => kData = 0
  /\ loaded => kData <= version
  /\ AllUpTo
  /\ schedState = "SEND_TO_SERVER" => actl = kData /\ kData \in Readings /\ AllBefore
  /\ schedState \in {"PREPARE_READ", "FINISH_SEND"} => payload = kData
  /\ dataState = "SENDING" => schedState \in {"PREPARE_READ", "FINISH_SEND"}
  /\ schedState = "PREPARE_READ" /\ dataState # "SENDING" => AllBefore
  /\ schedState = "PREPARE_READ" /\ dataState = "SENDING" => pc # "app" /\ Publishing
  /\ state = "PUBLISH" => schedState = "PREPARE_READ" /\ dataState # "SENDING"
  /\ Publishing => dataState = "SENDING" /\ request.reading = kData /\ AllBefore
  /\ schedState = "FINISH_SEND" /\ AllBefore => dataState = "SENDING" /\ (Publishing \/ Swallowed)

BrokerInv == Shape /\ Aligned /\ ProcInv /\ (Running => HandInv)

(* What of the feed a step of the application changes: nothing, or one step  *)
(* of ReadingFeed.                                                           *)
FeedStep == Feed!FeedNext \/ UNCHANGED Feed!feedVars

(* The payload, while it is being published.                                 *)
PayloadKept ==
  link' # "none" /\ (state = "PUBLISH" \/ dataState = "SENDING") => payload' = payload

(* Readings are numbers, and a delivered one is the reading in hand unless   *)
(* it came before it.                                                        *)
LEMMA ReadingsDelivered ==
  ASSUME Shape, ProcInv, AllUpTo
  PROVE  /\ kData \in Nat /\ Len(delivered) \in Nat
         /\ \A i \in 1 .. Len(delivered) : delivered[i].reading \in Nat
         /\ AllBefore <=> ~\E i \in 1 .. Len(delivered) : delivered[i].reading = kData
<1>1. kData \in Nat
  BY VersionsAssumption DEF ProcInv
<1>2. Len(delivered) \in Nat /\ \A i \in 1 .. Len(delivered) : delivered[i] \in Publishes
  BY DEF Shape, TypeOK
<1>3. \A q \in Publishes : q.reading \in Nat
  <2>1. \A q \in Publishes : q.reading \in Readings \cup {NoReading}
    BY DEF Publishes
  <2>2. Readings \cup {NoReading} \subseteq Nat
    BY VersionsAssumption
  <2> QED
    BY <2>1, <2>2
<1>4. \A i \in 1 .. Len(delivered) : delivered[i].reading \in Nat
  BY <1>2, <1>3
<1>5. \A i \in 1 .. Len(delivered) :
        delivered[i].reading <= kData /\ (delivered[i].reading < kData <=> delivered[i].reading # kData)
  BY <1>1, <1>4 DEF AllUpTo
<1> QED
  BY <1>1, <1>2, <1>4, <1>5 DEF AllBefore

(* The phase of the feed, in the words of the invariant.                     *)
LEMMA Phases ==
  ASSUME Shape, ProcInv, HandInv, Running
  PROVE  FeedPhase = IF schedState \in IdleStates THEN "idle" ELSE IF AllBefore THEN "held" ELSE "sent"
<1>1. AllBefore <=> ~\E i \in 1 .. Len(delivered) : delivered[i].reading = kData
  BY ReadingsDelivered DEF HandInv
<1> QED
  BY <1>1 DEF FeedPhase, IdleStates

(* A step that delivers nothing and takes no reading leaves all readings     *)
(* where they were.                                                          *)
LEMMA NothingDelivered ==
  ASSUME UNCHANGED <<delivered, kData>>
  PROVE  (AllBefore' <=> AllBefore) /\ (AllUpTo' <=> AllUpTo)
  BY DEF AllBefore, AllUpTo

(* And then the feed stands still.                                           *)
LEMMA FeedUnchanged ==
  ASSUME UNCHANGED <<delivered, kData>>, Running <=> Running',
         schedState \in IdleStates <=> schedState' \in IdleStates
  PROVE  UNCHANGED Feed!feedVars
<1>1. FeedLog' = FeedLog
  BY DEF FeedLog
<1>2. FeedPhase' = FeedPhase
  BY DEF FeedPhase, IdleStates
<1> QED
  BY <1>1, <1>2 DEF Feed!feedVars

-----------------------------------------------------------------------------
(* What the steps of the application do to the client and the link.          *)
LEMMA ClientMoves ==
  ASSUME BrokerInv, [BrokerNext]_brokerVars
  PROVE  \/ UNCHANGED vars \/ Open \/ App(writeFlag) \/ BrokerAnswers \/ PeerCloses \/ Close
         \/ actl \in Readings /\ SetPayload(actl)
<1>1. CASE AppScheduler
  <2>1. CASE SendToServer
    <3>1. Running /\ schedState = "SEND_TO_SERVER"
      BY <1>1, <2>1 DEF AppScheduler, SendToServer, Running
    <3>2. actl \in Readings
      BY <3>1 DEF BrokerInv, HandInv
    <3> QED
      BY <2>1, <3>2 DEF SendToServer
  <2> QED
    BY <1>1, <2>1 DEF AppScheduler, UnbindXadc, StartXadcKernel, ReadData, PrepareRead, FinishSend
<1>2. CASE Start \/ StartsForgotten \/ MainInit \/ MainInitFails \/ \E ok \in BOOLEAN : OpenSession(ok)
  BY <1>2 DEF Start, StartsForgotten, MainInit, MainInitFails, OpenSession
<1>3. CASE CallApp \/ Sleep \/ HandleSigint \/ Killed
  BY <1>3 DEF CallApp, Sleep, HandleSigint, Killed, LinkGone
<1>4. CASE Convert \/ Environment \/ UNCHANGED brokerVars
  BY <1>4 DEF Convert, Environment, brokerVars
<1> QED
  BY <1>1, <1>2, <1>3, <1>4 DEF BrokerNext

(* They keep what is proved of the client for any caller, and its alignment. *)
LEMMA ClientStep ==
  ASSUME BrokerInv, [BrokerNext]_brokerVars
  PROVE  Shape' /\ Aligned'
<1>1. \/ UNCHANGED vars \/ Open \/ App(writeFlag) \/ BrokerAnswers \/ PeerCloses \/ Close
      \/ actl \in Readings /\ SetPayload(actl)
  BY ClientMoves
<1>2. Shape /\ Aligned /\ writeFlag \in BOOLEAN
  BY DEF BrokerInv, ProcInv
<1>3. CASE UNCHANGED vars
  <2>1. Shape'
    BY <1>2, <1>3, NextShape
  <2> QED
    BY <1>2, <1>3, <2>1, OthersAligned DEF vars
<1>4. CASE Open
  BY <1>4, OpenShape, OpenAligned
<1>5. CASE App(writeFlag)
  BY <1>2, <1>5, AppShape, AppAligned
<1>6. CASE BrokerAnswers
  BY <1>2, <1>6, EnvironmentShape, AnswerAligned
<1>7. CASE PeerCloses \/ Close
  BY <1>2, <1>7, EnvironmentShape, CloseAligned
<1>8. CASE actl \in Readings /\ SetPayload(actl)
  <2>1. Shape'
    BY <1>2, <1>8, EnvironmentShape
  <2> QED
    BY <1>2, <1>8, <2>1, OthersAligned DEF SetPayload
<1> QED
  BY <1>1, <1>3, <1>4, <1>5, <1>6, <1>7, <1>8

-----------------------------------------------------------------------------
(* Steps outside the loop: the feed is at rest, and a new process starts it  *)
(* afresh.                                                                   *)
LEMMA OpeningStep ==
  ASSUME BrokerInv,
         Start \/ MainInit \/ MainInitFails \/ \E ok \in BOOLEAN : OpenSession(ok)
  PROVE  ProcInv' /\ (Running' => HandInv') /\ FeedStep /\ PayloadKept
<1> USE DEF BrokerInv
<1>1. CASE Start
  <2>1. ~Running /\ ~Running'
    BY <1>1 DEF Start, Running
  <2>2. ProcInv'
    BY <1>1, <2>1 DEF Start, ProcInv, IdleStates, vars, wireVars, systemVars, Running
  <2>3. UNCHANGED Feed!feedVars
    BY <2>1 DEF Feed!feedVars, FeedPhase, FeedLog
  <2> QED
    BY <1>1, <2>1, <2>2, <2>3 DEF Start, FeedStep, PayloadKept, vars
<1>2. CASE MainInitFails \/ \E ok \in BOOLEAN : OpenSession(ok)
  <2>1. ~Running /\ ~Running' /\ UNCHANGED <<vars, schedState, writeFlag, kData, systemVars>>
    BY <1>2 DEF MainInitFails, OpenSession, Running, senderVars
  <2>2. pc' \in {"down", "init"} /\ pc = "init"
    BY <1>2 DEF MainInitFails, OpenSession
  <2>3. ProcInv'
    BY <2>1, <2>2 DEF ProcInv, IdleStates, vars, wireVars, systemVars, Running
  <2>4. UNCHANGED Feed!feedVars
    BY <2>1 DEF Feed!feedVars, FeedPhase, FeedLog
  <2> QED
    BY <2>1, <2>3, <2>4 DEF FeedStep, PayloadKept, vars
<1>3. CASE MainInit
  <2>1. /\ pc = "init" /\ pc' = "scheduler" /\ ~Running /\ Running'
        /\ UNCHANGED <<schedState, writeFlag, kData, loaded, version>>
        /\ link = "none" /\ link' = "up" /\ payload' = NoReading /\ delivered' = << >>
        /\ state' = "CONNECT" /\ dataState' = "INIT"
    BY <1>3 DEF MainInit, Open, senderVars, systemVars, Running
  <2>2. payload = NoReading /\ ~writeFlag /\ schedState = "UNBIND_XADC" /\ kData = 0
    BY <2>1 DEF ProcInv
  <2>3. ProcInv'
    BY <2>1, <2>2 DEF ProcInv, IdleStates, Running
  <2>4. AllBefore' /\ AllUpTo'
    BY <2>1 DEF AllBefore, AllUpTo
  <2>5. kData \in Nat /\ (loaded => kData <= version)
    BY <2>2, VersionsAssumption DEF ProcInv
  <2>6. HandInv'
    BY <2>1, <2>2, <2>4, <2>5 DEF HandInv, Publishing, Swallowed
  <2>7. FeedPhase' = "idle" /\ FeedPhase = "idle"
    BY <2>1, <2>2 DEF FeedPhase
  <2>8. FeedLog' = << >> /\ FeedLog = << >>
    <3>1. FeedLog' = [i \in 1 .. 0 |-> delivered'[i].reading]
      BY <2>1 DEF FeedLog
    <3>2. FeedLog' = << >>
      BY <3>1
    <3> QED
      BY <2>1, <3>2 DEF FeedLog
  <2>9. UNCHANGED Feed!feedVars
    BY <2>1, <2>2, <2>7, <2>8 DEF Feed!feedVars
  <2> QED
    BY <2>1, <2>2, <2>3, <2>6, <2>9 DEF FeedStep, PayloadKept
<1> QED
  BY <1>1, <1>2, <1>3

(* The end of a process, or of one turn of its loop.                         *)
LEMMA EndingStep ==
  ASSUME BrokerInv, Sleep \/ HandleSigint \/ Killed
  PROVE  ProcInv' /\ (Running' => HandInv') /\ FeedStep /\ PayloadKept
<1> USE DEF BrokerInv
<1>1. CASE Sleep /\ ~endFlag
  <2>1. /\ Running /\ Running' /\ pc' = "scheduler"
        /\ UNCHANGED <<vars, schedState, writeFlag, kData, actl, systemVars>>
    BY <1>1 DEF Sleep, Running
  <2>2. ProcInv'
    BY <2>1 DEF ProcInv, vars, wireVars, systemVars, Running
  <2>3. (AllBefore' <=> AllBefore) /\ (AllUpTo' <=> AllUpTo)
    BY <2>1, NothingDelivered DEF vars
  <2>4. HandInv'
    BY <2>1, <2>3 DEF HandInv, Publishing, Swallowed, vars, clientVars, wireVars, systemVars
  <2>5. UNCHANGED Feed!feedVars
    BY <2>1, FeedUnchanged DEF vars
  <2> QED
    BY <2>1, <2>2, <2>4, <2>5 DEF FeedStep, PayloadKept, vars
<1>2. CASE (Sleep /\ endFlag) \/ HandleSigint \/ Killed
  <2>1. /\ pc' = "down" /\ ~Running'
        /\ UNCHANGED <<schedState, writeFlag, kData, version>>
        /\ loaded' \in BOOLEAN
        /\ LinkGone
    BY <1>2 DEF Sleep, HandleSigint, Killed, LinkGone, UnloadKernel, senderVars, systemVars, Running,
               ProcInv
  <2>2. link' = "none" /\ payload' = NoReading
    BY <2>1 DEF LinkGone, Close, ProcInv, vars, wireVars
  <2>3. ProcInv'
    BY <2>1, <2>2 DEF ProcInv, Running
  <2>4. Feed!Restart
    BY <2>1 DEF Feed!Restart, FeedPhase, FeedLog
  <2> QED
    BY <2>1, <2>2, <2>3, <2>4 DEF FeedStep, Feed!FeedNext, PayloadKept
<1> QED
  BY <1>1, <1>2

-----------------------------------------------------------------------------
(* The scheduler's half of the loop.                                         *)
LEMMA SchedulerStep ==
  ASSUME BrokerInv, AppScheduler
  PROVE  ProcInv' /\ (Running' => HandInv') /\ FeedStep /\ PayloadKept
<1> USE DEF BrokerInv
<1>1. pc = "scheduler" /\ pc' = "app" /\ Running /\ Running' /\ HandInv /\ ProcInv
  BY DEF AppScheduler, Running
<1>2. kData \in Nat /\ version \in Nat
  BY VersionsAssumption DEF ProcInv
<1>3. ASSUME NEW ok \in BOOLEAN, UnbindXadc(ok)
      PROVE  ProcInv' /\ HandInv' /\ FeedStep /\ PayloadKept
  <2>1. /\ schedState = "UNBIND_XADC" /\ schedState' = "START_XADC_KERNEL" /\ kData' = 0 /\ kData = 0
        /\ UNCHANGED <<vars, writeFlag, actl, loaded, version>>
    BY <1>1, <1>3 DEF UnbindXadc, HandInv, systemVars
  <2>2. ProcInv'
    BY <1>1, <2>1 DEF ProcInv, IdleStates, vars, wireVars, Running
  <2>3. (AllBefore' <=> AllBefore) /\ (AllUpTo' <=> AllUpTo)
    BY <2>1, NothingDelivered DEF vars
  <2>4. HandInv'
    BY <1>1, <2>1, <2>3 DEF HandInv, Publishing, Swallowed, vars, clientVars, wireVars
  <2>5. UNCHANGED Feed!feedVars
    BY <1>1, <2>1, FeedUnchanged DEF vars, IdleStates
  <2> QED
    BY <2>1, <2>2, <2>4, <2>5 DEF FeedStep, PayloadKept, vars
<1>4. ASSUME NEW ok \in BOOLEAN, StartXadcKernel(ok)
      PROVE  ProcInv' /\ HandInv' /\ FeedStep /\ PayloadKept
  <2>1. /\ schedState = "START_XADC_KERNEL" /\ schedState' = "READ_DATA" /\ kData' = 0 /\ kData = 0
        /\ UNCHANGED <<vars, writeFlag, actl>>
        /\ loaded' \in BOOLEAN /\ version' \in {0, version}
    BY <1>1, <1>4 DEF StartXadcKernel, HandInv, ProcInv
  <2>2. ProcInv'
    BY <1>1, <2>1 DEF ProcInv, IdleStates, vars, wireVars, Running
  <2>3. (AllBefore' <=> AllBefore) /\ (AllUpTo' <=> AllUpTo)
    BY <2>1, NothingDelivered DEF vars
  <2>4. kData' <= version'
    BY <1>2, <2>1
  <2>5. HandInv'
    BY <1>1, <2>1, <2>3, <2>4 DEF HandInv, Publishing, Swallowed, vars, clientVars, wireVars
  <2>6. UNCHANGED Feed!feedVars
    BY <1>1, <2>1, FeedUnchanged DEF vars, IdleStates
  <2> QED
    BY <2>1, <2>2, <2>5, <2>6 DEF FeedStep, PayloadKept, vars
<1>5. ASSUME NEW ok \in BOOLEAN, ReadData(ok)
      PROVE  ProcInv' /\ HandInv' /\ FeedStep /\ PayloadKept
  <2>0. schedState = "READ_DATA" /\ UNCHANGED <<vars, writeFlag, loaded, version>>
    BY <1>5 DEF ReadData, systemVars
  <2>1. CASE ok /\ version # kData
    <3>1. kData' = version /\ actl' = version /\ schedState' = "SEND_TO_SERVER"
      BY <1>5, <2>1 DEF ReadData
    <3>2. loaded /\ version > kData /\ version \in Readings
      BY <1>1, <1>2, <1>5, <2>1 DEF ReadData, HandInv, ProcInv
    <3>3. AllBefore' /\ AllUpTo'
      <4>1. \A i \in 1 .. Len(delivered) : delivered[i].reading \in Nat /\ delivered[i].reading <= kData
        BY <1>1, ReadingsDelivered DEF HandInv, AllUpTo
      <4>2. \A i \in 1 .. Len(delivered) : delivered[i].reading < version
        BY <1>2, <3>2, <4>1
      <4> QED
        BY <1>2, <2>0, <3>1, <4>1, <4>2 DEF AllBefore, AllUpTo, vars
    <3>4. ProcInv'
      BY <1>1, <2>0, <3>1, <3>2 DEF ProcInv, IdleStates, vars, wireVars, Running
    <3>5. HandInv'
      BY <1>1, <1>2, <2>0, <3>1, <3>2, <3>3 DEF HandInv, Publishing, Swallowed, vars, clientVars, wireVars
    <3>6. FeedPhase = "idle" /\ FeedPhase' = "held"
      <4>1. FeedPhase = "idle"
        BY <1>1, <2>0, Phases DEF IdleStates
      <4>2. AllBefore' <=> ~\E i \in 1 .. Len(delivered') : delivered'[i].reading = kData'
        <5>1. \A i \in 1 .. Len(delivered) : delivered[i].reading \in Nat /\ delivered[i].reading < version
          BY <1>1, <2>0, <3>1, <3>3, ReadingsDelivered DEF HandInv, AllBefore, vars
        <5> QED
          BY <1>2, <2>0, <3>1, <3>3, <5>1 DEF vars
      <4> QED
        BY <1>1, <3>1, <3>3, <4>1, <4>2 DEF FeedPhase
    <3>7. FeedLog' = FeedLog
      BY <1>1, <2>0 DEF FeedLog, vars
    <3>8. Feed!Take
      BY <1>1, <1>2, <3>1, <3>2, <3>6, <3>7 DEF Feed!Take
    <3> QED
      BY <2>0, <3>4, <3>5, <3>8 DEF FeedStep, Feed!FeedNext, PayloadKept, vars
  <2>2. CASE ~(ok /\ version # kData)
    <3>1. UNCHANGED <<kData, actl, schedState>>
      BY <1>5, <2>2 DEF ReadData
    <3>2. ProcInv'
      BY <1>1, <2>0, <3>1 DEF ProcInv, vars, wireVars, Running
    <3>3. (AllBefore' <=> AllBefore) /\ (AllUpTo' <=> AllUpTo)
      BY <2>0, <3>1, NothingDelivered DEF vars
    <3>4. HandInv'
      BY <1>1, <2>0, <3>1, <3>3 DEF HandInv, Publishing, Swallowed, vars, clientVars, wireVars
    <3>5. UNCHANGED Feed!feedVars
      BY <1>1, <2>0, <3>1, FeedUnchanged DEF vars
    <3> QED
      BY <2>0, <3>2, <3>4, <3>5 DEF FeedStep, PayloadKept, vars
  <2> QED
    BY <2>1, <2>2
<1>6. CASE SendToServer
  <2>0. /\ schedState = "SEND_TO_SERVER"
        /\ UNCHANGED <<kData, actl, loaded, version, delivered, clientVars, wireVars>>
    BY <1>6 DEF SendToServer, SetPayload, systemVars, vars
  <2>1. (AllBefore' <=> AllBefore) /\ (AllUpTo' <=> AllUpTo)
    BY <2>0, NothingDelivered
  <2>2. actl = kData /\ AllBefore /\ state # "PUBLISH" /\ dataState # "SENDING" /\ ~Publishing
    BY <1>1, <2>0 DEF HandInv
  <2>3. \/ dataState = "IDLE" /\ payload' = actl /\ writeFlag' = TRUE /\ schedState' = "PREPARE_READ"
        \/ UNCHANGED <<payload, writeFlag, schedState>>
    BY <1>6 DEF SendToServer, SetPayload, vars
  <2>4. ProcInv'
    BY <1>1, <2>0, <2>3 DEF ProcInv, IdleStates, wireVars, Running
  <2>5. HandInv'
    BY <1>1, <2>0, <2>1, <2>2, <2>3 DEF HandInv, Publishing, Swallowed, clientVars, wireVars
  <2>6. UNCHANGED Feed!feedVars
    BY <1>1, <2>0, <2>3, FeedUnchanged DEF IdleStates
  <2> QED
    BY <2>2, <2>4, <2>5, <2>6 DEF FeedStep, PayloadKept
<1>7. CASE PrepareRead
  <2>0. /\ schedState = "PREPARE_READ"
        /\ UNCHANGED <<vars, kData, actl, loaded, version>>
        /\ \/ dataState = "SENDING" /\ writeFlag' = FALSE /\ schedState' = "FINISH_SEND"
           \/ dataState # "SENDING" /\ UNCHANGED <<writeFlag, schedState>>
    BY <1>7 DEF PrepareRead, systemVars
  <2>1. (AllBefore' <=> AllBefore) /\ (AllUpTo' <=> AllUpTo)
    BY <2>0, NothingDelivered DEF vars
  <2>2. ProcInv'
    BY <1>1, <2>0 DEF ProcInv, IdleStates, vars, wireVars, Running
  <2>3. HandInv'
    BY <1>1, <2>0, <2>1 DEF HandInv, Publishing, Swallowed, vars, clientVars, wireVars
  <2>4. UNCHANGED Feed!feedVars
    BY <1>1, <2>0, FeedUnchanged DEF vars, IdleStates
  <2> QED
    BY <2>0, <2>2, <2>3, <2>4 DEF FeedStep, PayloadKept, vars
<1>8. CASE FinishSend
  <2>0. /\ schedState = "FINISH_SEND"
        /\ UNCHANGED <<vars, writeFlag, kData, actl, loaded, version>>
    BY <1>8 DEF FinishSend, systemVars
  <2>1. (AllBefore' <=> AllBefore) /\ (AllUpTo' <=> AllUpTo)
    BY <2>0, NothingDelivered DEF vars
  <2>2. CASE dataState = "IDLE"
    <3>1. schedState' = "READ_DATA" /\ ~AllBefore
      BY <1>1, <1>8, <2>0, <2>2 DEF FinishSend, HandInv
    <3>2. ProcInv'
      BY <1>1, <2>0, <3>1 DEF ProcInv, IdleStates, vars, wireVars, Running
    <3>3. HandInv'
      BY <1>1, <2>0, <2>1, <2>2, <3>1 DEF HandInv, Publishing, Swallowed, vars, clientVars, wireVars
    <3>4. FeedPhase = "sent" /\ FeedPhase' = "idle"
      <4>1. FeedPhase = "sent"
        BY <1>1, <2>0, <3>1, Phases DEF IdleStates
      <4> QED
        BY <3>1, <4>1 DEF FeedPhase
    <3>5. FeedLog' = FeedLog
      BY <1>1, <2>0 DEF FeedLog, vars
    <3>6. Feed!Finish
      BY <1>1, <2>0, <3>4, <3>5 DEF Feed!Finish
    <3> QED
      BY <2>0, <3>2, <3>3, <3>6 DEF FeedStep, Feed!FeedNext, PayloadKept, vars
  <2>3. CASE dataState # "IDLE"
    <3>1. schedState' = schedState
      BY <1>8, <2>3 DEF FinishSend
    <3>2. ProcInv'
      BY <1>1, <2>0, <3>1 DEF ProcInv, vars, wireVars, Running
    <3>3. HandInv'
      BY <1>1, <2>0, <2>1, <3>1 DEF HandInv, Publishing, Swallowed, vars, clientVars, wireVars
    <3>4. UNCHANGED Feed!feedVars
      BY <1>1, <2>0, <3>1, FeedUnchanged DEF vars
    <3> QED
      BY <2>0, <3>2, <3>3, <3>4 DEF FeedStep, PayloadKept, vars
  <2> QED
    BY <2>2, <2>3
<1> QED
  BY <1>1, <1>3, <1>4, <1>5, <1>6, <1>7, <1>8 DEF AppScheduler

-----------------------------------------------------------------------------
(* The client's half of the loop.                                            *)

(* The last byte of a PUBLISH is the delivery of the reading in hand.        *)
LEMMA Delivery ==
  ASSUME Shape, ProcInv, HandInv, Running, Running', Publishing,
         delivered' = Append(delivered, request), UNCHANGED <<kData, schedState>>
  PROVE  AllUpTo' /\ ~AllBefore' /\ Feed!Deliver
<1>1. request.reading = kData /\ AllBefore /\ schedState \in {"PREPARE_READ", "FINISH_SEND"}
  BY DEF HandInv
<1>2. delivered \in Seq(Publishes) /\ request \in Publishes
  BY RequestKinds DEF Shape, TypeOK, RequestAgrees, Publishing
<1>3. kData \in Nat /\ Len(delivered) \in Nat
  BY ReadingsDelivered DEF HandInv
<1>4. /\ Len(delivered') = Len(delivered) + 1
      /\ \A i \in 1 .. Len(delivered) : delivered'[i] = delivered[i]
      /\ delivered'[Len(delivered) + 1] = request
  BY <1>2, AppendProperties
<1>5. \A i \in 1 .. Len(delivered') : delivered'[i].reading <= kData
  <2>1. \A i \in 1 .. Len(delivered) : delivered[i].reading \in Nat /\ delivered[i].reading < kData
    BY <1>1, ReadingsDelivered DEF HandInv, AllBefore
  <2>2. \A i \in 1 .. Len(delivered') : i \in 1 .. Len(delivered) \/ i = Len(delivered) + 1
    BY <1>3, <1>4
  <2> QED
    BY <1>1, <1>3, <1>4, <2>1, <2>2
<1>6. Len(delivered') \in 1 .. Len(delivered') /\ delivered'[Len(delivered')].reading = kData
  BY <1>1, <1>3, <1>4
<1>7. AllUpTo'
  BY <1>5 DEF AllUpTo
<1>8. ~AllBefore'
  <2>1. ~(kData < kData)
    BY <1>3
  <2> QED
    BY <1>6, <2>1 DEF AllBefore
<1>9. FeedPhase = "held" /\ FeedPhase' = "sent"
  <2>1. FeedPhase = "held"
    BY <1>1, Phases DEF IdleStates
  <2>2. \E i \in 1 .. Len(delivered') : delivered'[i].reading = kData'
    BY <1>6
  <2>3. schedState' \notin {"UNBIND_XADC", "START_XADC_KERNEL", "READ_DATA"}
    BY <1>1
  <2> QED
    BY <2>1, <2>2, <2>3 DEF FeedPhase
<1>10. FeedLog' = Append(FeedLog, kData)
  <2> DEFINE L == [i \in 1 .. Len(delivered) |-> delivered[i].reading]
  <2>1. FeedLog = L /\ FeedLog' = [i \in 1 .. Len(delivered') |-> delivered'[i].reading]
    BY DEF FeedLog
  <2>2. L \in Seq(Nat) /\ Len(L) = Len(delivered)
    <3>1. \A i \in 1 .. Len(delivered) : delivered[i].reading \in Nat
      BY ReadingsDelivered DEF HandInv
    <3> QED
      BY <1>3, <3>1, IsASeq
  <2>3. FeedLog' \in Seq(Nat) /\ Len(FeedLog') = Len(delivered')
    <3>1. \A i \in 1 .. Len(delivered') : delivered'[i].reading \in Nat
      <4>1. \A i \in 1 .. Len(delivered) : delivered[i].reading \in Nat
        BY ReadingsDelivered DEF HandInv
      <4>2. \A i \in 1 .. Len(delivered') : i \in 1 .. Len(delivered) \/ i = Len(delivered) + 1
        BY <1>3, <1>4
      <4> QED
        BY <1>1, <1>3, <1>4, <4>1, <4>2
    <3>2. Len(delivered') \in Nat
      BY <1>3, <1>4
    <3> QED
      BY <2>1, <3>1, <3>2, IsASeq
  <2>4. \A i \in 1 .. (Len(delivered) + 1) :
          FeedLog'[i] = IF i = Len(delivered) + 1 THEN kData ELSE L[i]
    BY <1>1, <1>3, <1>4, <2>1
  <2> HIDE DEF L
  <2>5. /\ Append(L, kData) \in Seq(Nat) /\ Len(Append(L, kData)) = Len(L) + 1
        /\ \A i \in 1 .. Len(L) : Append(L, kData)[i] = L[i]
        /\ Append(L, kData)[Len(L) + 1] = kData
    BY <1>3, <2>2, AppendProperties
  <2>6. \A i \in 1 .. Len(FeedLog') : FeedLog'[i] = Append(L, kData)[i]
    BY <1>3, <1>4, <2>2, <2>3, <2>4, <2>5
  <2>7. FeedLog' = Append(L, kData)
    BY <1>4, <2>2, <2>3, <2>5, <2>6, SeqEqual
  <2> QED
    BY <2>1, <2>7
<1> QED
  BY <1>7, <1>8, <1>9, <1>10 DEF Feed!Deliver

(* A call of MqttHandle_App, in each of its states.                          *)
LEMMA CallStep ==
  ASSUME BrokerInv, CallApp
  PROVE  ProcInv' /\ (Running' => HandInv') /\ FeedStep /\ PayloadKept
<1> USE DEF BrokerInv
<1>1. /\ pc = "app" /\ pc' = "sleep" /\ Running /\ Running' /\ HandInv /\ ProcInv
      /\ App(writeFlag)
      /\ UNCHANGED <<schedState, writeFlag, kData, actl, loaded, version>>
  BY DEF CallApp, Running, senderVars, systemVars
<1>2. UNCHANGED <<payload, link>>
  BY <1>1 DEF App, AppConnect, AppConnack, AppPingreq, AppPingresp, AppPublish, AppPuback,
              WriteChunk, ReadChunk, TransferRetry, vars, wireVars
<1>3. ProcInv' /\ PayloadKept
  BY <1>1, <1>2 DEF ProcInv, PayloadKept, Running
<1>4. ASSUME UNCHANGED delivered
      PROVE  (AllBefore' <=> AllBefore) /\ (AllUpTo' <=> AllUpTo) /\ FeedStep
  BY <1>1, <1>4, NothingDelivered, FeedUnchanged DEF FeedStep
<1>5. /\ schedState = "PREPARE_READ" => dataState # "SENDING" /\ AllBefore
      /\ writeFlag <=> schedState = "PREPARE_READ"
  BY <1>1 DEF HandInv
<1>6. CASE AppConnect
  <2>1. UNCHANGED <<delivered, dataState>> /\ ~Publishing /\ ~Publishing' /\ state' = "WRITE" /\ ~Swallowed
    BY <1>6 DEF AppConnect, CreateMessage, ConnectPacket, Publishing, Swallowed
  <2>7. (AllBefore' <=> AllBefore) /\ (AllUpTo' <=> AllUpTo) /\ FeedStep
    BY <1>4, <2>1
  <2>8. HandInv'
    BY <1>1, <1>2, <1>3, <1>5, <1>6, <2>1, <2>7 DEF HandInv
  <2> QED
    BY <1>3, <2>7, <2>8
<1>7. CASE AppConnack
  <2>1. /\ UNCHANGED delivered /\ ~Publishing /\ ~Publishing' /\ ~Swallowed
        /\ state' \in {"PINGREQ", "CONNECT"} /\ dataState' \in {"IDLE", dataState}
    BY <1>7 DEF AppConnack, Publishing, Swallowed
  <2>7. (AllBefore' <=> AllBefore) /\ (AllUpTo' <=> AllUpTo) /\ FeedStep
    BY <1>4, <2>1
  <2>8. HandInv'
    BY <1>1, <1>2, <1>3, <1>5, <2>1, <2>7 DEF HandInv
  <2> QED
    BY <1>3, <2>7, <2>8
<1>8. CASE AppPingreq(writeFlag)
  <2>1. /\ UNCHANGED <<delivered, dataState>> /\ ~Publishing /\ ~Publishing' /\ ~Swallowed
        /\ state' = "PUBLISH" => writeFlag
    BY <1>8 DEF AppPingreq, CreateMessage, PingreqPacket, Publishing, Swallowed
  <2>7. (AllBefore' <=> AllBefore) /\ (AllUpTo' <=> AllUpTo) /\ FeedStep
    BY <1>4, <2>1
  <2>8. HandInv'
    BY <1>1, <1>2, <1>3, <1>5, <2>1, <2>7 DEF HandInv
  <2> QED
    BY <1>3, <2>7, <2>8
<1>9. CASE AppPingresp
  <2>1. /\ UNCHANGED <<delivered, dataState>> /\ ~Publishing /\ ~Publishing' /\ ~Swallowed
        /\ state' \in {"PINGREQ", "CONNECT"}
    BY <1>9 DEF AppPingresp, Publishing, Swallowed
  <2>7. (AllBefore' <=> AllBefore) /\ (AllUpTo' <=> AllUpTo) /\ FeedStep
    BY <1>4, <2>1
  <2>8. HandInv'
    BY <1>1, <1>2, <1>3, <1>5, <2>1, <2>7 DEF HandInv
  <2> QED
    BY <1>3, <2>7, <2>8
<1>10. CASE AppPublish
  <2>1. /\ UNCHANGED delivered /\ Publishing' /\ request'.reading = payload
        /\ state = "PUBLISH" /\ state' = "WRITE" /\ dataState' = "SENDING"
    BY <1>10 DEF AppPublish, CreateMessage, PublishPacket, Publishing
  <2>2. schedState = "PREPARE_READ" /\ payload = kData
    BY <1>1, <2>1 DEF HandInv
  <2>7. (AllBefore' <=> AllBefore) /\ (AllUpTo' <=> AllUpTo) /\ FeedStep
    BY <1>4, <2>1, <2>2
  <2>8. HandInv'
    BY <1>1, <1>2, <1>3, <1>5, <2>1, <2>2, <2>7 DEF HandInv
  <2> QED
    BY <1>3, <2>7, <2>8
<1>11. CASE AppPuback
  <2>1. /\ UNCHANGED delivered /\ ~Publishing /\ ~Publishing' /\ ~Swallowed
        /\ state' \in {"PINGREQ", "CONNECT"} /\ dataState' \in {"IDLE", dataState}
    BY <1>11 DEF AppPuback, Publishing, Swallowed
  <2>7. (AllBefore' <=> AllBefore) /\ (AllUpTo' <=> AllUpTo) /\ FeedStep
    BY <1>4, <2>1
  <2>8. HandInv'
    BY <1>1, <1>2, <1>3, <1>5, <2>1, <2>7 DEF HandInv
  <2> QED
    BY <1>3, <2>7, <2>8
<1>12. ASSUME NEW k \in 1 .. dataRemain, WriteChunk(k)
       PROVE  HandInv' /\ FeedStep
  <2>1. state = "WRITE" /\ UNCHANGED <<request, dataState, rx>> /\ ~Swallowed
    BY <1>12 DEF WriteChunk, Swallowed
  <2>2. CASE k # dataRemain
    <3>1. UNCHANGED <<delivered, state>> /\ Publishing' = Publishing
      BY <1>12, <2>1, <2>2 DEF WriteChunk, Publishing
    <3>7. (AllBefore' <=> AllBefore) /\ (AllUpTo' <=> AllUpTo) /\ FeedStep
      BY <1>4, <2>1, <3>1
    <3>8. HandInv'
      BY <1>1, <1>2, <1>5, <2>1, <3>1, <3>7 DEF HandInv
    <3> QED
      BY <1>3, <3>7, <3>8
  <2>3. CASE k = dataRemain /\ ~Publishing
    <3>1. UNCHANGED delivered /\ state' = "READ" /\ ~Publishing'
      BY <1>12, <2>1, <2>3 DEF WriteChunk, Publishing
    <3>7. (AllBefore' <=> AllBefore) /\ (AllUpTo' <=> AllUpTo) /\ FeedStep
      BY <1>4, <2>1, <2>3, <3>1
    <3>8. HandInv'
      BY <1>1, <1>2, <1>5, <2>1, <2>3, <3>1, <3>7 DEF HandInv
    <3> QED
      BY <1>3, <3>7, <3>8
  <2>4. CASE k = dataRemain /\ Publishing /\ link = "up"
    <3>1. delivered' = Append(delivered, request) /\ state' = "READ" /\ ~Publishing'
      BY <1>12, <2>1, <2>4 DEF WriteChunk, Publishing
    <3>2. AllUpTo' /\ ~AllBefore' /\ Feed!Deliver
      BY <1>1, <2>4, <3>1, Delivery
    <3>3. schedState = "FINISH_SEND" /\ dataState = "SENDING"
      BY <1>1, <1>5, <2>4 DEF HandInv
    <3>4. HandInv'
      BY <1>1, <1>2, <2>1, <3>1, <3>2, <3>3 DEF HandInv
    <3> QED
      BY <3>2, <3>4 DEF FeedStep, Feed!FeedNext
  <2>5. CASE k = dataRemain /\ Publishing /\ link # "up"
    <3>1. UNCHANGED delivered /\ state' = "READ" /\ ~Publishing'
      BY <1>12, <2>1, <2>5 DEF WriteChunk, Publishing
    <3>2. rx = << >> /\ link = "closed"
      BY <1>1, <2>1, <2>5 DEF Aligned, Publishing, ProcInv, Shape, TypeOK
    <3>3. Swallowed'
      BY <1>2, <2>1, <3>1, <3>2 DEF Swallowed
    <3>7. (AllBefore' <=> AllBefore) /\ (AllUpTo' <=> AllUpTo) /\ FeedStep
      BY <1>4, <2>1, <2>5, <3>1, <3>3
    <3>8. HandInv'
      BY <1>1, <1>2, <1>5, <2>1, <2>5, <3>1, <3>3, <3>7 DEF HandInv
    <3> QED
      BY <1>3, <3>7, <3>8
  <2> QED
    BY <2>2, <2>3, <2>4, <2>5
<1>13. ASSUME NEW k \in 1 .. dataRemain, ReadChunk(k)
       PROVE  HandInv' /\ FeedStep
  <2>1. /\ UNCHANGED <<delivered, dataState>> /\ state = "READ" /\ ~Publishing
        /\ state' \in {"READ", "CONNACK", "PINGRESP", "PUBACK"}
    BY <1>13, ReadFacts DEF ReadChunk, Publishing, AnswerState
  <2>2. ~Swallowed
    BY <1>13, <2>1, ReadFacts DEF ReadChunk, Swallowed
  <2>3. ~Publishing'
    BY <2>1 DEF Publishing
  <2>7. (AllBefore' <=> AllBefore) /\ (AllUpTo' <=> AllUpTo) /\ FeedStep
    BY <1>4, <2>1, <2>2, <2>3
  <2>8. HandInv'
    BY <1>1, <1>2, <1>5, <2>1, <2>2, <2>3, <2>7 DEF HandInv
  <2> QED
    BY <1>3, <2>7, <2>8
<1>14. CASE TransferRetry
  <2>1. UNCHANGED vars /\ Publishing' = Publishing /\ Swallowed' = Swallowed
    BY <1>14 DEF TransferRetry, Publishing, Swallowed, vars, clientVars, wireVars
  <2>7. (AllBefore' <=> AllBefore) /\ (AllUpTo' <=> AllUpTo) /\ FeedStep
    BY <1>4, <2>1 DEF vars
  <2>8. HandInv'
    BY <1>1, <1>2, <1>3, <1>5, <2>1, <2>7 DEF HandInv, vars, clientVars
  <2> QED
    BY <1>3, <2>7, <2>8
<1> QED
  BY <1>1, <1>3, <1>6, <1>7, <1>8, <1>9, <1>10, <1>11, <1>12, <1>13, <1>14 DEF App

-----------------------------------------------------------------------------
(* The kernel module, the broker and the peer.                               *)
LEMMA OutsideStep ==
  ASSUME BrokerInv, StartsForgotten \/ Convert \/ Environment \/ UNCHANGED brokerVars
  PROVE  ProcInv' /\ (Running' => HandInv') /\ FeedStep /\ PayloadKept
<1> USE DEF BrokerInv
<1>1. /\ UNCHANGED <<pc, schedState, writeFlag, kData, actl, loaded, clientVars, payload, delivered>>
      /\ Running' = Running
  BY DEF StartsForgotten, Convert, Environment, BrokerAnswers, PeerCloses, brokerVars, vars, senderVars, systemVars,
         Running
<1>2. /\ version' \in Readings \cup {0} /\ (loaded => version' >= version)
      /\ link' = link \/ (link = "up" /\ link' = "closed")
  <2>1. version \in Nat
    BY VersionsAssumption DEF ProcInv
  <2> QED
    BY <2>1 DEF StartsForgotten, Convert, Environment, BrokerAnswers, PeerCloses, brokerVars, vars, wireVars,
                systemVars, ProcInv
<1>3. ProcInv'
  BY <1>1, <1>2 DEF ProcInv
<1>4. (AllBefore' <=> AllBefore) /\ (AllUpTo' <=> AllUpTo) /\ FeedStep
  BY <1>1, NothingDelivered, FeedUnchanged DEF FeedStep
<1>5. ASSUME Running PROVE HandInv'
  <2>1. HandInv /\ (Publishing' = Publishing)
    BY <1>1, <1>5 DEF Publishing, clientVars
  <2>2. Swallowed => Swallowed'
    BY <1>1 DEF Swallowed, StartsForgotten, Convert, Environment, BrokerAnswers, PeerCloses, brokerVars, vars, wireVars,
                clientVars
  <2>3. loaded' => kData' <= version'
    <3>1. kData \in Nat /\ version \in Nat /\ version' \in Nat
      BY <1>2, VersionsAssumption DEF ProcInv
    <3> QED
      BY <1>1, <1>2, <2>1, <3>1 DEF HandInv
  <2> QED
    BY <1>1, <1>4, <2>1, <2>2, <2>3 DEF HandInv, clientVars
<1>6. PayloadKept
  BY <1>1 DEF PayloadKept
<1> QED
  BY <1>1, <1>3, <1>4, <1>5, <1>6

(* The invariant is inductive, and under it every step is one of the feed or *)
(* none, and leaves a payload that is on its way alone.                      *)
LEMMA BrokerStep ==
  ASSUME BrokerInv, [BrokerNext]_brokerVars
  PROVE  BrokerInv' /\ FeedStep /\ PayloadKept
<1>1. ProcInv' /\ (Running' => HandInv') /\ FeedStep /\ PayloadKept
  <2>1. CASE Start \/ MainInit \/ MainInitFails \/ \E ok \in BOOLEAN : OpenSession(ok)
    BY <2>1, OpeningStep
  <2>2. CASE AppScheduler
    BY <2>2, SchedulerStep
  <2>3. CASE CallApp
    BY <2>3, CallStep
  <2>4. CASE Sleep \/ HandleSigint \/ Killed
    BY <2>4, EndingStep
  <2>5. CASE StartsForgotten \/ Convert \/ Environment \/ UNCHANGED brokerVars
    BY <2>5, OutsideStep
  <2> QED
    BY <2>1, <2>2, <2>3, <2>4, <2>5 DEF BrokerNext
<1>2. Shape' /\ Aligned'
  BY ClientStep
<1> QED
  BY <1>1, <1>2 DEF BrokerInv

(* A system not yet started satisfies it.                                    *)
LEMMA BrokerStart == BrokerInit => BrokerInv
<1> SUFFICES ASSUME BrokerInit PROVE BrokerInv
  OBVIOUS
<1>1. Shape /\ Aligned
  BY InitShape, OpenAligned DEF BrokerInit
<1>2. ProcInv /\ ~Running
  BY DEF BrokerInit, Init, ProcInv, IdleStates, Running
<1> QED
  BY <1>1, <1>2 DEF BrokerInv

(* So it holds always.                                                       *)
LEMMA BrokerInvariant == BrokerSpec => []BrokerInv
<1>1. BrokerInv /\ [BrokerNext]_brokerVars => BrokerInv'
  BY BrokerStep
<1> QED
  BY <1>1, BrokerStart, PTL DEF BrokerSpec

(* The scheduler and the client never disagree about a hand-off: who holds   *)
(* the reading, whether it is out, and which text is in the payload          *)
(* (mqttSender.c, AppScheduler; MqttHandle.c, MqttHandle_App).               *)
THEOREM HandOffAgrees == BrokerSpec => []HandOff
<1>1. BrokerInv => HandOff
  <2> SUFFICES ASSUME Shape, ProcInv, HandInv, Running PROVE HandOff
    BY DEF BrokerInv, HandOff
  <2>1. schedState = "PREPARE_READ" /\ dataState # "SENDING" =>
          \A i \in 1 .. Len(delivered) : delivered[i].reading < kData
    BY DEF HandInv, AllBefore
  <2> QED
    BY <2>1 DEF HandInv, HandOff
<1> QED
  BY <1>1, BrokerInvariant, PTL

(* The payload is never rewritten while it is being published.               *)
THEOREM PayloadIsStable == BrokerSpec => PayloadStable
<1>1. BrokerInv /\ [BrokerNext]_brokerVars => PayloadKept
  BY BrokerStep
<1> QED
  BY <1>1, BrokerInvariant, PTL DEF BrokerSpec, PayloadStable, PayloadKept

(* The application implements ReadingFeed: each reading it takes reaches the *)
(* broker once and in order before the next is taken, whatever is answered,  *)
(* lost or closed, and processes come and go.                                *)
THEOREM BrokerImplementsFeed == BrokerSpec => ImplementsFeed
<1>1. BrokerInit => Feed!FeedInit
  BY DEF BrokerInit, Feed!FeedInit, FeedPhase, FeedLog, Running
<1>2. BrokerInv /\ [BrokerNext]_brokerVars => [Feed!FeedNext]_Feed!feedVars
  <2>1. BrokerInv /\ [BrokerNext]_brokerVars => FeedStep
    BY BrokerStep
  <2> QED
    BY <2>1 DEF FeedStep
<1> QED
  BY <1>1, <1>2, BrokerInvariant, PTL DEF BrokerSpec, ImplementsFeed, Feed!FeedSpec

-----------------------------------------------------------------------------
(* A broker that answers properly.  The client then keeps the exchange of    *)
(* MqttHandle_proofs under the one caller the repository has, no PUBACK is   *)
(* refused, and what the scheduler has finished with was acknowledged.       *)

ExchangeInv == Identifiers /\ (~BrokerErrs => Exchange)

(* The request under way is the reading in hand until its PUBACK is          *)
(* accepted; from then on the reading is acknowledged.                       *)
AckInv ==
  /\ dataState = "SENDING" =>
       /\ state \in {"WRITE", "READ", "PUBACK"}
       /\ request.type = "PUBLISH" /\ request.reading = kData
  /\ schedState = "FINISH_SEND" /\ dataState # "SENDING" => kData \in acked
  /\ schedState = "READ_DATA" /\ kData # 0 => kData \in acked

(* The application's steps are steps a client may meet, so its exchange goes *)
(* on as proved there.                                                       *)
LEMMA ExchangeStep ==
  ASSUME BrokerInv, ExchangeInv, [BrokerNext]_brokerVars
  PROVE  ExchangeInv'
<1>1. \/ UNCHANGED vars \/ Open \/ App(writeFlag) \/ BrokerAnswers \/ PeerCloses \/ Close
      \/ actl \in Readings /\ SetPayload(actl)
  BY ClientMoves
<1>2. Shape /\ Identifiers /\ (~BrokerErrs => Exchange) /\ writeFlag \in BOOLEAN
  BY DEF BrokerInv, ProcInv, ExchangeInv
<1>3. CASE App(writeFlag)
  <2>1. Identifiers'
    BY <1>2, <1>3, AppIdentifiers
  <2>2. ~BrokerErrs => Exchange'
    BY <1>2, <1>3, AppExchange
  <2> QED
    BY <2>1, <2>2 DEF ExchangeInv
<1>4. CASE ~App(writeFlag)
  <2>1. [Next]_vars
    BY <1>1, <1>4 DEF Next
  <2>2. Identifiers'
    BY <1>2, <2>1, NextIdentifiers
  <2>3. ~BrokerErrs => Exchange'
    BY <1>2, <2>1, NextExchange
  <2> QED
    BY <2>2, <2>3 DEF ExchangeInv
<1> QED
  BY <1>3, <1>4

(* With a proper broker a call of MqttHandle_App ends a send only by         *)
(* accepting its PUBACK.                                                     *)
LEMMA CallAcks ==
  ASSUME BrokerInv, ExchangeInv, ~BrokerErrs, AckInv, CallApp
  PROVE  AckInv'
<1>1. /\ Running /\ HandInv /\ Shape /\ App(writeFlag)
      /\ UNCHANGED <<schedState, kData>>
  BY DEF CallApp, Running, senderVars, BrokerInv
<1>2. CASE AppConnect \/ AppConnack \/ AppPingresp
  BY <1>1, <1>2 DEF AckInv, AppConnect, AppConnack, AppPingresp, CreateMessage
<1>3. CASE AppPingreq(writeFlag)
  BY <1>1, <1>3 DEF AckInv, AppPingreq, CreateMessage
<1>4. CASE AppPublish
  <2>1. schedState = "PREPARE_READ" /\ payload = kData
    BY <1>1, <1>4 DEF AppPublish, HandInv
  <2> QED
    BY <1>1, <1>4, <2>1 DEF AckInv, AppPublish, CreateMessage, PublishPacket
<1>5. CASE AppPuback
  <2>1. state = "PUBACK" /\ Puback
    BY <1>1, <1>5, ExchangeIsRequestResponse DEF AppPuback, ExchangeInv, RequestResponse
  <2>2. dataState' = "IDLE" /\ acked' = acked \cup {request.reading}
    BY <1>5, <2>1 DEF AppPuback
  <2>3. schedState = "FINISH_SEND" => kData \in acked'
    BY <2>2 DEF AckInv
  <2> QED
    BY <1>1, <2>2, <2>3 DEF AckInv
<1>6. ASSUME NEW k \in 1 .. dataRemain, WriteChunk(k)
      PROVE  AckInv'
  BY <1>1, <1>6 DEF AckInv, WriteChunk
<1>7. ASSUME NEW k \in 1 .. dataRemain, ReadChunk(k)
      PROVE  AckInv'
  <2>1. state = "READ" /\ nextState = AnswerState(request)
    BY <1>1, <1>7 DEF ReadChunk, Shape, TransferInBounds
  <2>2. dataState = "SENDING" => nextState = "PUBACK"
    BY <2>1 DEF AckInv, AnswerState
  <2> QED
    BY <1>1, <1>7, <2>1, <2>2 DEF AckInv, ReadChunk
<1>8. CASE TransferRetry
  BY <1>1, <1>8 DEF AckInv, TransferRetry, vars, clientVars
<1> QED
  BY <1>1, <1>2, <1>3, <1>4, <1>5, <1>6, <1>7, <1>8 DEF App

(* So does every other step of the application: the scheduler takes a new    *)
(* reading, or finishes with one, only when no send is under way.            *)
LEMMA AckStep ==
  ASSUME BrokerInv, ExchangeInv, ~BrokerErrs, Running => AckInv, [BrokerNext]_brokerVars
  PROVE  Running' => AckInv'
<1> SUFFICES ASSUME Running' PROVE AckInv'
  OBVIOUS
<1>1. CASE Start \/ MainInitFails \/ \E ok \in BOOLEAN : OpenSession(ok)
  BY <1>1 DEF Start, MainInitFails, OpenSession, Running
<1>2. CASE MainInit
  <2>1. schedState' = "UNBIND_XADC" /\ dataState' = "INIT"
    BY <1>2 DEF MainInit, Open, senderVars, BrokerInv, ProcInv
  <2> QED
    BY <2>1 DEF AckInv
<1>3. CASE AppScheduler
  <2>1. Running /\ AckInv /\ HandInv /\ UNCHANGED <<clientVars, acked>>
    BY <1>3 DEF AppScheduler, Running, BrokerInv, UnbindXadc, StartXadcKernel, ReadData,
                SendToServer, SetPayload, PrepareRead, FinishSend, vars
  <2>2. CASE (\E ok \in BOOLEAN : UnbindXadc(ok)) \/ (\E ok \in BOOLEAN : StartXadcKernel(ok))
    BY <2>1, <2>2 DEF AckInv, HandInv, UnbindXadc, StartXadcKernel, clientVars
  <2>3. ASSUME NEW ok \in BOOLEAN, ReadData(ok) PROVE AckInv'
    <3>1. UNCHANGED <<clientVars, acked>> /\ schedState = "READ_DATA" /\ dataState # "SENDING"
      BY <2>1, <2>3 DEF ReadData, HandInv
    <3>2. \/ UNCHANGED <<schedState, kData>>
          \/ schedState' = "SEND_TO_SERVER"
      BY <2>3 DEF ReadData
    <3> QED
      BY <2>1, <3>1, <3>2 DEF AckInv, clientVars
  <2>4. CASE SendToServer \/ PrepareRead \/ FinishSend
    BY <2>1, <2>4 DEF AckInv, SendToServer, PrepareRead, FinishSend, clientVars
  <2> QED
    BY <1>3, <2>2, <2>3, <2>4 DEF AppScheduler
<1>4. CASE CallApp
  <2>1. Running
    BY <1>4 DEF CallApp, Running
  <2> QED
    BY <1>4, <2>1, CallAcks
<1>5. CASE HandleSigint \/ Killed
  BY <1>5 DEF HandleSigint, Killed, Running
<1>6. CASE StartsForgotten \/ Sleep \/ Convert \/ Environment \/ UNCHANGED brokerVars
  <2>1. Running /\ UNCHANGED <<clientVars, acked, schedState, kData>>
    BY <1>6 DEF StartsForgotten, Sleep, Convert, Environment, BrokerAnswers, PeerCloses, brokerVars, vars,
                senderVars, Running
  <2> QED
    BY <2>1 DEF AckInv, clientVars
<1> QED
  BY <1>1, <1>2, <1>3, <1>4, <1>5, <1>6 DEF BrokerNext

(* Both invariants hold always.                                              *)
LEMMA AckInvariant ==
  BrokerSpec => [](BrokerInv /\ ExchangeInv /\ (~BrokerErrs => (Running => AckInv)))
<1>1. BrokerInit => BrokerInv /\ ExchangeInv /\ (~BrokerErrs => (Running => AckInv))
  <2> SUFFICES ASSUME BrokerInit PROVE BrokerInv /\ ExchangeInv /\ ~Running
    OBVIOUS
  <2>1. BrokerInv /\ ~Running
    BY BrokerStart DEF BrokerInit, Running
  <2>2. ExchangeInv
    BY DEF BrokerInit, Init, ExchangeInv, Identifiers, PacketIdsInOrder, NextFree, Unanswered,
           NoPacket, Exchange
  <2> QED
    BY <2>1, <2>2
<1>2. /\ BrokerInv /\ ExchangeInv /\ (~BrokerErrs => (Running => AckInv))
      /\ [BrokerNext]_brokerVars
      => (BrokerInv /\ ExchangeInv /\ (~BrokerErrs => (Running => AckInv)))'
  <2> SUFFICES ASSUME BrokerInv, ExchangeInv, ~BrokerErrs => (Running => AckInv),
                      [BrokerNext]_brokerVars
               PROVE  BrokerInv' /\ ExchangeInv' /\ (~BrokerErrs => (Running' => AckInv'))
    OBVIOUS
  <2>1. BrokerInv' /\ ExchangeInv'
    BY BrokerStep, ExchangeStep
  <2>2. ~BrokerErrs => (Running' => AckInv')
    BY AckStep
  <2> QED
    BY <2>1, <2>2
<1> QED
  BY <1>1, <1>2, PTL DEF BrokerSpec

(* "Data is sent to adafruit io" is true when the scheduler says it: with a  *)
(* broker that answers properly, a reading AppScheduler has finished with    *)
(* was acknowledged, also when the link closes or the process is ended       *)
(* between any two calls (mqttSender.c, FINISH_SEND; MqttHandle.c,           *)
(* SSL_Mqtt_Puback).                                                         *)
THEOREM FinishedWasAcked == ~BrokerErrs => (BrokerSpec => []FinishedIsAcked)
<1> SUFFICES ASSUME ~BrokerErrs PROVE BrokerSpec => []FinishedIsAcked
  OBVIOUS
<1>1. /\ BrokerInv /\ ExchangeInv /\ (~BrokerErrs => (Running => AckInv))
      => FinishedIsAcked
  BY DEF AckInv, FinishedIsAcked
<1> QED
  BY <1>1, AckInvariant, PTL

(* The exchange stays strictly request and response in the application, for  *)
(* the calls and payloads mqttSender.c really makes.                         *)
THEOREM BrokerExchange == BrokerSpec => []RequestResponse
<1>1. /\ BrokerInv /\ ExchangeInv /\ (~BrokerErrs => (Running => AckInv))
      => RequestResponse
  BY ExchangeIsRequestResponse DEF BrokerInv, ExchangeInv
<1> QED
  BY <1>1, AckInvariant, PTL

-----------------------------------------------------------------------------
(* The kernel module as the application sees it is the device that AdcSonar  *)
(* implements: what Convert, modprobe and modprobe -r do to it here are      *)
(* steps of SonarDevice.  (Its own reads are in one step here, so the device *)
(* has no users.)                                                            *)
Sonar == INSTANCE SonarDevice WITH
           Users   <- {},
           version <- IF loaded THEN version ELSE 0,
           sampled <- [u \in {} |-> {}],
           answer  <- [u \in {} |-> 0]

SonarStep == Sonar!DeviceNext \/ UNCHANGED Sonar!deviceVars

(* All but three actions leave the module alone.                             *)
LEMMA ModuleMoves ==
  ASSUME [BrokerNext]_brokerVars
  PROVE  \/ UNCHANGED <<loaded, version>>
         \/ \E ok \in BOOLEAN : StartXadcKernel(ok)
         \/ UnloadKernel /\ UNCHANGED version
         \/ Convert
<1>1. CASE Start \/ StartsForgotten \/ MainInit \/ MainInitFails \/ \E ok \in BOOLEAN : OpenSession(ok)
  BY <1>1 DEF Start, StartsForgotten, MainInit, MainInitFails, OpenSession, systemVars
<1>2. CASE AppScheduler
  BY <1>2 DEF AppScheduler, UnbindXadc, ReadData, SendToServer, PrepareRead, FinishSend, systemVars
<1>3. CASE CallApp \/ Sleep \/ Killed \/ Environment
  BY <1>3 DEF CallApp, Sleep, Killed, Environment, systemVars
<1>4. CASE HandleSigint
  BY <1>4 DEF HandleSigint
<1>5. CASE UNCHANGED brokerVars
  BY <1>5 DEF brokerVars, systemVars
<1> QED
  BY <1>1, <1>2, <1>3, <1>4, <1>5 DEF BrokerNext

(* Each of them is a step of the device.                                     *)
LEMMA ModuleIsSonar ==
  ASSUME loaded \in BOOLEAN, [BrokerNext]_brokerVars
  PROVE  loaded' \in BOOLEAN /\ SonarStep
<1> DEFINE held == IF loaded THEN version ELSE 0
<1>1. CASE UNCHANGED <<loaded, version>>
  BY <1>1 DEF SonarStep, Sonar!deviceVars
<1>2. ASSUME NEW ok \in BOOLEAN, StartXadcKernel(ok) PROVE loaded' \in BOOLEAN /\ SonarStep
  <2>1. loaded' = (loaded \/ ok) /\ version' = held
    BY <1>2 DEF StartXadcKernel
  <2>2. CASE loaded
    BY <2>1, <2>2 DEF SonarStep, Sonar!deviceVars
  <2>3. CASE ~loaded /\ ok
    BY <2>1, <2>3 DEF SonarStep, Sonar!DeviceNext, Sonar!Load
  <2>4. CASE ~loaded /\ ~ok
    BY <2>1, <2>4 DEF SonarStep, Sonar!deviceVars
  <2> QED
    BY <2>2, <2>3, <2>4
<1>3. CASE UnloadKernel /\ UNCHANGED version
  <2>1. PICK ok \in BOOLEAN : loaded' = (loaded /\ ~ok)
    BY <1>3 DEF UnloadKernel
  <2>2. CASE loaded /\ ok
    BY <2>1, <2>2 DEF SonarStep, Sonar!DeviceNext, Sonar!Unload, Sonar!Nothing, Sonar!Unread
  <2>3. CASE ~(loaded /\ ok)
    <3>1. loaded' = loaded
      BY <2>1, <2>3
    <3> QED
      BY <1>3, <3>1 DEF SonarStep, Sonar!deviceVars
  <2> QED
    BY <2>2, <2>3
<1>4. CASE Convert
  BY <1>4 DEF Convert, SonarStep, Sonar!DeviceNext, Sonar!Publish
<1> QED
  BY <1>1, <1>2, <1>3, <1>4, ModuleMoves

(* The application's view of adcsonar is no other than the driver's own      *)
(* (AdcSonar, ImplementsDevice): versions grow one by one from 0 while the   *)
(* module stays loaded (AppScheduler, AdcSonarHandle_Init and _DeInit).      *)
THEOREM ModuleSeenAsDevice == BrokerSpec => Sonar!DeviceSpec
<1>1. BrokerInit => loaded \in BOOLEAN /\ Sonar!DeviceInit
  BY DEF BrokerInit, Sonar!DeviceInit, Sonar!Nothing, Sonar!Unread
<1>2. loaded \in BOOLEAN /\ [BrokerNext]_brokerVars =>
        (loaded \in BOOLEAN)' /\ [Sonar!DeviceNext]_Sonar!deviceVars
  BY ModuleIsSonar DEF SonarStep
<1> QED
  BY <1>1, <1>2, PTL DEF BrokerSpec, Sonar!DeviceSpec

-----------------------------------------------------------------------------
(* Why a send ends: the safety half of FreshReadingReachesBroker.            *)

(* A reading is being sent from SEND_TO_SERVER on until its answer is in.    *)
Sending ==
  /\ Running
  /\ schedState = "PREPARE_READ" \/ (schedState = "FINISH_SEND" /\ dataState = "SENDING")

(* The steps of the client and the broker that are left until the            *)
(* acknowledgement if every write and read moves a single byte, from the     *)
(* client's state, its request, the bytes left of a transfer and whether the *)
(* broker has still to answer.                                               *)
StepsFrom(at, type, left, unanswered) ==
  CASE at = "PUBACK"                       -> 1
    [] at = "READ" /\ type = "PUBLISH"     -> left + unanswered + 1
    [] at = "WRITE" /\ type = "PUBLISH"    -> left + 6
    [] at = "PUBLISH"                      -> PublishLen + 7
    [] at = "PINGREQ"                      -> PublishLen + 8
    [] at \in {"CONNACK", "PINGRESP"}      -> PublishLen + 9
    [] at = "READ" /\ type # "PUBLISH"     -> PublishLen + 9 + left + unanswered
    [] at = "WRITE" /\ type # "PUBLISH"    -> PublishLen + 14 + left
    [] OTHER                               -> PublishLen + 15 + ConnectLen

StepsToAck == StepsFrom(state, request.type, dataRemain, IF inbox = << >> THEN 0 ELSE 1)

(* While a reading is being sent over an open link, whatever client or       *)
(* broker do brings the acknowledgement nearer, nothing else takes it        *)
(* farther away, and the send ends with it and in no other way.              *)
SendGoesOn ==
  Sending /\ link' = "up" =>
    IF Sending'
      THEN UNCHANGED <<clientVars, inbox, rx>> \/ StepsToAck' < StepsToAck
      ELSE kData' = kData /\ kData \in acked'

SendIsNear ==
  Sending /\ link = "up" => StepsToAck \in 1 .. (PublishLen + 15 + ConnectLen)

(* A PUBLISH is only under way while the data state says so, and no more is  *)
(* to be written than the packet has.                                        *)
PacketLen(p) ==
  CASE p.type = "CONNECT" -> ConnectLen [] p.type = "PINGREQ" -> 2 [] OTHER -> PublishLen

Underway ==
  /\ state \in {"WRITE", "READ", "PUBACK"} /\ request.type = "PUBLISH" => dataState = "SENDING"
  /\ state = "WRITE" => dataRemain <= PacketLen(request)

LEMMA AppUnderway ==
  ASSUME Shape, Underway, NEW isWrite \in BOOLEAN, App(isWrite)
  PROVE  Underway'
<1>0. dataRemain \in Nat /\ ConnectLen \in Nat /\ PublishLen \in Nat
  BY LengthsAssumption DEF Shape, TypeOK
<1>1. CASE AppConnect
  <2>1. state' = "WRITE" /\ request'.type = "CONNECT" /\ dataRemain' = ConnectLen
    BY <1>1 DEF AppConnect, CreateMessage, ConnectPacket
  <2>2. PacketLen(request)' = ConnectLen
    BY <2>1 DEF PacketLen
  <2> QED
    BY <1>0, <2>1, <2>2 DEF Underway
<1>2. CASE AppConnack \/ AppPingresp \/ AppPuback
  <2>1. state' \in {"PINGREQ", "CONNECT"}
    BY <1>2 DEF AppConnack, AppPingresp, AppPuback
  <2> QED
    BY <2>1 DEF Underway
<1>3. CASE AppPingreq(isWrite)
  <2>1. \/ state' = "PUBLISH"
        \/ state' = "WRITE" /\ request'.type = "PINGREQ" /\ dataRemain' = 2
    BY <1>3 DEF AppPingreq, CreateMessage, PingreqPacket
  <2>2. request'.type = "PINGREQ" => PacketLen(request)' = 2
    BY DEF PacketLen
  <2> QED
    BY <2>1, <2>2 DEF Underway
<1>4. CASE AppPublish
  <2>1. /\ state' = "WRITE" /\ request'.type = "PUBLISH" /\ dataRemain' = PublishLen
        /\ dataState' = "SENDING"
    BY <1>4 DEF AppPublish, CreateMessage, PublishPacket
  <2>2. PacketLen(request)' = PublishLen
    BY <2>1 DEF PacketLen
  <2> QED
    BY <1>0, <2>1, <2>2 DEF Underway
<1>5. ASSUME NEW k \in 1 .. dataRemain, WriteChunk(k)
      PROVE  Underway'
  <2>1. state = "WRITE" /\ UNCHANGED <<request, dataState>>
    BY <1>5 DEF WriteChunk
  <2>2. state' = "READ" \/ (state' = "WRITE" /\ dataRemain' = dataRemain - k)
    BY <1>5 DEF WriteChunk
  <2>3. state' = "WRITE" => dataRemain' <= PacketLen(request)
    <3>1. PacketLen(request) \in Nat
      BY <1>0 DEF PacketLen
    <3> QED
      BY <1>0, <2>1, <2>2, <3>1 DEF Underway
  <2>4. PacketLen(request)' = PacketLen(request)
    BY <2>1 DEF PacketLen
  <2> QED
    BY <2>1, <2>2, <2>3, <2>4 DEF Underway
<1>6. ASSUME NEW k \in 1 .. dataRemain, ReadChunk(k)
      PROVE  Underway'
  <2>1. state = "READ" /\ UNCHANGED <<request, dataState>> /\ state' # "WRITE"
    BY <1>6 DEF ReadChunk, Shape, TypeOK
  <2> QED
    BY <2>1 DEF Underway
<1>7. CASE TransferRetry
  BY <1>7 DEF TransferRetry, vars, clientVars, transfer, Underway, PacketLen
<1> QED
  BY <1>1, <1>2, <1>3, <1>4, <1>5, <1>6, <1>7 DEF App

(* Nothing else disturbs the transfer.                                       *)
LEMMA UnderwayStep ==
  ASSUME BrokerInv, Underway, [BrokerNext]_brokerVars
  PROVE  Underway'
<1>1. CASE App(writeFlag)
  BY <1>1, AppUnderway DEF BrokerInv, ProcInv
<1>2. CASE Open
  BY <1>2 DEF Open, Underway
<1>3. CASE UNCHANGED clientVars
  BY <1>3 DEF clientVars, transfer, Underway, PacketLen
<1>4. UNCHANGED clientVars \/ Open \/ App(writeFlag)
  BY ClientMoves DEF vars, BrokerAnswers, PeerCloses, Close, SetPayload
<1> QED
  BY <1>1, <1>2, <1>3, <1>4

(* A call of MqttHandle_App while a reading is being sent.                   *)
LEMMA CallGoesOn ==
  ASSUME ~BrokerErrs, BrokerInv, ExchangeInv, AckInv, Underway, Sending, link = "up", CallApp
  PROVE  SendGoesOn
<1>1. /\ HandInv /\ Shape /\ Exchange /\ RequestResponse /\ App(writeFlag)
      /\ Running' /\ UNCHANGED <<schedState, kData>> /\ AckInv'
      /\ (writeFlag <=> schedState = "PREPARE_READ")
  BY ExchangeIsRequestResponse, CallAcks
     DEF BrokerInv, ExchangeInv, Sending, CallApp, Running, senderVars, HandInv
<1>2. /\ dataRemain \in Nat /\ PublishLen \in Nat /\ ConnectLen \in Nat
      /\ dataState = "SENDING" => state \in {"WRITE", "READ", "PUBACK"}
  BY <1>1, LengthsAssumption DEF Shape, TypeOK, AckInv
<1>3. CASE AppConnect
  <2>1. state = "CONNECT" /\ state' = "WRITE" /\ request'.type = "CONNECT"
        /\ dataRemain' = ConnectLen /\ dataState' = dataState
    BY <1>3 DEF AppConnect, CreateMessage, ConnectPacket
  <2>2. StepsToAck = PublishLen + 15 + ConnectLen /\ StepsToAck' = PublishLen + 14 + ConnectLen
    BY <2>1 DEF StepsToAck, StepsFrom
  <2> QED
    BY <1>1, <1>2, <2>1, <2>2 DEF SendGoesOn, Sending
<1>4. CASE AppConnack \/ AppPingresp
  <2>1. /\ state \in {"CONNACK", "PINGRESP"} /\ state' = "PINGREQ" /\ schedState = "PREPARE_READ"
    BY <1>1, <1>2, <1>4 DEF AppConnack, AppPingresp, RequestResponse, Sending
  <2>2. StepsToAck = PublishLen + 9 /\ StepsToAck' = PublishLen + 8
    BY <2>1 DEF StepsToAck, StepsFrom
  <2> QED
    BY <1>1, <1>2, <2>1, <2>2 DEF SendGoesOn, Sending
<1>5. CASE AppPingreq(writeFlag)
  <2>1. state = "PINGREQ" /\ state' = "PUBLISH" /\ schedState = "PREPARE_READ"
    BY <1>1, <1>2, <1>5 DEF AppPingreq, Sending
  <2>2. StepsToAck = PublishLen + 8 /\ StepsToAck' = PublishLen + 7
    BY <2>1 DEF StepsToAck, StepsFrom
  <2> QED
    BY <1>1, <1>2, <2>1, <2>2 DEF SendGoesOn, Sending
<1>6. CASE AppPublish
  <2>1. /\ state = "PUBLISH" /\ state' = "WRITE" /\ request'.type = "PUBLISH"
        /\ dataRemain' = PublishLen /\ dataState' = "SENDING"
    BY <1>6 DEF AppPublish, CreateMessage, PublishPacket
  <2>2. StepsToAck = PublishLen + 7 /\ StepsToAck' = PublishLen + 6
    BY <2>1 DEF StepsToAck, StepsFrom
  <2> QED
    BY <1>1, <1>2, <2>1, <2>2 DEF SendGoesOn, Sending
<1>7. CASE AppPuback
  <2>1. state = "PUBACK" /\ request.type = "PUBLISH" /\ dataState = "SENDING"
    BY <1>1, <1>7 DEF AppPuback, Shape, RequestAgrees, Publishes, Underway
  <2>2. schedState = "FINISH_SEND"
    BY <1>1, <2>1 DEF HandInv, Publishing, Sending
  <2>3. dataState' = "IDLE"
    BY <1>1, <1>7, <2>1 DEF AppPuback, RequestResponse
  <2>4. kData' \in acked'
    BY <1>1, <2>2, <2>3 DEF AckInv
  <2> QED
    BY <1>1, <2>2, <2>3, <2>4 DEF SendGoesOn, Sending
<1>8. ASSUME NEW k \in 1 .. dataRemain, WriteChunk(k)
      PROVE  SendGoesOn
  <2>1. /\ state = "WRITE" /\ inbox = << >> /\ k \in Nat /\ k >= 1 /\ dataRemain >= 1
        /\ dataRead \in {2, 4} /\ UNCHANGED <<request, dataState>>
    BY <1>1, <1>2, <1>8 DEF WriteChunk, Exchange, Shape, TransferInBounds, AnswerLen
  <2>2. CASE k = dataRemain
    <3>1. /\ state' = "READ" /\ dataRemain' = dataRead /\ inbox' = Append(inbox, request)
      BY <1>8, <2>2 DEF WriteChunk
    <3>2. inbox' # << >>
      BY <2>1, <3>1
    <3>3. CASE request.type = "PUBLISH"
      <4>1. StepsToAck = dataRemain + 6 /\ StepsToAck' = dataRead + 1 + 1
        BY <2>1, <3>1, <3>2, <3>3 DEF StepsToAck, StepsFrom
      <4> QED
        BY <1>1, <1>2, <2>1, <4>1 DEF SendGoesOn, Sending
    <3>4. CASE request.type # "PUBLISH"
      <4>1. /\ StepsToAck = PublishLen + 14 + dataRemain
            /\ StepsToAck' = PublishLen + 9 + dataRead + 1
        BY <2>1, <3>1, <3>2, <3>4 DEF StepsToAck, StepsFrom
      <4> QED
        BY <1>1, <1>2, <2>1, <4>1 DEF SendGoesOn, Sending
    <3> QED
      BY <3>3, <3>4
  <2>3. CASE k # dataRemain
    <3>1. state' = "WRITE" /\ dataRemain' = dataRemain - k
      BY <1>8, <2>1, <2>3 DEF WriteChunk
    <3>2. \/ StepsToAck = dataRemain + 6 /\ StepsToAck' = dataRemain' + 6
          \/ StepsToAck = PublishLen + 14 + dataRemain /\ StepsToAck' = PublishLen + 14 + dataRemain'
      BY <2>1, <3>1 DEF StepsToAck, StepsFrom
    <3> QED
      BY <1>1, <1>2, <2>1, <3>1, <3>2 DEF SendGoesOn, Sending
  <2> QED
    BY <2>2, <2>3
<1>9. ASSUME NEW k \in 1 .. dataRemain, ReadChunk(k)
      PROVE  SendGoesOn
  <2>1. /\ state = "READ" /\ k \in Nat /\ k >= 1 /\ k <= dataRemain /\ rx # << >>
        /\ UNCHANGED <<request, dataState, inbox>> /\ dataRemain' = dataRemain - k
        /\ nextState = AnswerState(request) /\ state' = IF k = dataRemain THEN nextState ELSE "READ"
    <3>1. rx # << >>
      BY <1>2, <1>9 DEF ReadChunk
    <3> QED
      BY <1>1, <1>2, <1>9, <3>1 DEF ReadChunk, Shape, TransferInBounds
  <2>2. inbox = << >> /\ inbox' = << >>
    BY <1>1, <2>1 DEF Exchange
  <2>3. CASE request.type = "PUBLISH"
    <3>1. state' \in {"PUBACK", "READ"} /\ StepsToAck = dataRemain + 0 + 1
      BY <2>1, <2>2, <2>3 DEF AnswerState, StepsToAck, StepsFrom
    <3>2. state' = "PUBACK" => StepsToAck' = 1
      BY DEF StepsToAck, StepsFrom
    <3>3. state' = "READ" => StepsToAck' = dataRemain' + 0 + 1 /\ k # dataRemain
      BY <2>1, <2>2, <2>3 DEF StepsToAck, StepsFrom, AnswerState
    <3> QED
      BY <1>1, <1>2, <2>1, <3>1, <3>2, <3>3 DEF SendGoesOn, Sending
  <2>4. CASE request.type # "PUBLISH"
    <3>1. /\ state' \in {"CONNACK", "PINGRESP", "READ"}
          /\ StepsToAck = PublishLen + 9 + dataRemain + 0
      <4>1. AnswerState(request) \in {"CONNACK", "PINGRESP"}
        BY <1>1, <2>1, <2>4, RequestKinds DEF AnswerState, Shape, RequestAgrees
      <4> QED
        BY <2>1, <2>2, <2>4, <4>1 DEF StepsToAck, StepsFrom
    <3>2. state' \in {"CONNACK", "PINGRESP"} => StepsToAck' = PublishLen + 9
      BY DEF StepsToAck, StepsFrom
    <3>3. state' = "READ" => StepsToAck' = PublishLen + 9 + dataRemain' + 0
      BY <2>1, <2>2, <2>4 DEF StepsToAck, StepsFrom
    <3> QED
      BY <1>1, <1>2, <2>1, <3>1, <3>2, <3>3 DEF SendGoesOn, Sending
  <2> QED
    BY <2>3, <2>4
<1>10. CASE TransferRetry
  BY <1>1, <1>10 DEF TransferRetry, vars, clientVars, wireVars, SendGoesOn, Sending
<1> QED
  BY <1>1, <1>3, <1>4, <1>5, <1>6, <1>7, <1>8, <1>9, <1>10 DEF App

(* The scheduler leaves PREPARE_READ and FINISH_SEND as the client allows.   *)
LEMMA SchedulerGoesOn ==
  ASSUME Sending, AppScheduler
  PROVE  SendGoesOn
<1>1. PrepareRead \/ FinishSend
  BY DEF AppScheduler, Sending, UnbindXadc, StartXadcKernel, ReadData, SendToServer
<1>2. UNCHANGED <<vars, kData>> /\ Running'
  BY <1>1 DEF AppScheduler, PrepareRead, FinishSend, Running
<1>3. Sending'
  BY <1>1, <1>2 DEF PrepareRead, FinishSend, Sending, vars, clientVars
<1> QED
  BY <1>2, <1>3 DEF SendGoesOn, vars, wireVars

(* The broker answers the one request it has.                                *)
LEMMA AnswerGoesOn ==
  ASSUME ~BrokerErrs, BrokerInv, ExchangeInv, Sending, Environment, link' = "up"
  PROVE  SendGoesOn
<1>1. BrokerAnswers /\ UNCHANGED <<pc, senderVars>>
  BY DEF Environment, PeerCloses
<1>2. /\ inbox # << >> /\ inbox' = Tail(inbox) /\ UNCHANGED clientVars /\ Exchange
      /\ dataRemain \in Nat /\ PublishLen \in Nat
  BY <1>1, LengthsAssumption DEF BrokerAnswers, ExchangeInv, BrokerInv, Shape, TypeOK
<1>3. state = "READ" /\ inbox = <<request>>
  BY <1>2 DEF Exchange
<1>4. inbox' = << >> /\ Sending'
  BY <1>1, <1>2, <1>3 DEF Sending, Running, senderVars, clientVars
<1>5. \/ StepsToAck = dataRemain + 1 + 1 /\ StepsToAck' = dataRemain + 0 + 1
      \/ StepsToAck = PublishLen + 9 + dataRemain + 1 /\ StepsToAck' = PublishLen + 9 + dataRemain + 0
  BY <1>2, <1>3, <1>4 DEF StepsToAck, StepsFrom, clientVars, transfer
<1> QED
  BY <1>2, <1>4, <1>5 DEF SendGoesOn

(* Whatever the fragmentation of writes and reads, and whatever the client   *)
(* was at when the scheduler handed it the reading, the acknowledgement is   *)
(* at most 15 steps and the bytes of two packets away, and comes nearer with *)
(* each step that is one (mqttSender.c, PREPARE_READ to FINISH_SEND;         *)
(* MqttHandle_App).                                                          *)
THEOREM SendIsBounded ==
  ~BrokerErrs => (BrokerSpec => []SendIsNear /\ [][SendGoesOn]_brokerVars)
<1> SUFFICES ASSUME ~BrokerErrs PROVE BrokerSpec => []SendIsNear /\ [][SendGoesOn]_brokerVars
  OBVIOUS
<1> DEFINE I == BrokerInv /\ ExchangeInv /\ (Running => AckInv)
<1>1. BrokerSpec => []I
  BY AckInvariant, PTL
<1>2. BrokerInit => Underway
  BY DEF BrokerInit, Init, Underway
<1>3. I /\ Underway /\ [BrokerNext]_brokerVars => Underway'
  BY UnderwayStep
<1>4. I /\ Underway /\ [BrokerNext]_brokerVars => [SendGoesOn]_brokerVars
  <2> SUFFICES ASSUME I, Underway, BrokerNext, Sending, link' = "up" PROVE SendGoesOn
    BY DEF SendGoesOn
  <2>1. Running /\ AckInv
    BY DEF Sending
  <2>2. CASE AppScheduler
    BY <2>2, SchedulerGoesOn
  <2>3. CASE CallApp
    <3>1. link = "up"
      BY <2>3 DEF CallApp, App, AppConnect, AppConnack, AppPingreq, AppPingresp, AppPublish, AppPuback,
                  WriteChunk, ReadChunk, TransferRetry, vars, wireVars
    <3> QED
      BY <2>1, <2>3, <3>1, CallGoesOn
  <2>4. CASE Environment
    BY <2>4, AnswerGoesOn
  <2>5. CASE StartsForgotten \/ Sleep \/ Convert
    <3>1. UNCHANGED <<vars, schedState, kData>> /\ Running'
      BY <2>1, <2>5 DEF StartsForgotten, Sleep, Close, Convert, senderVars, Running
    <3> QED
      BY <3>1 DEF SendGoesOn, Sending, vars, clientVars, wireVars
  <2>6. ~(Start \/ MainInit \/ MainInitFails \/ (\E ok \in BOOLEAN : OpenSession(ok)))
    BY <2>1 DEF Start, MainInit, MainInitFails, OpenSession, Running
  <2>7. ~(HandleSigint \/ Killed)
    BY DEF HandleSigint, Killed, LinkGone, Close, vars, wireVars
  <2> QED
    BY <2>2, <2>3, <2>4, <2>5, <2>6, <2>7 DEF BrokerNext
<1>5. I /\ Underway => SendIsNear
  <2> SUFFICES ASSUME I, Underway, Sending PROVE StepsToAck \in 1 .. (PublishLen + 15 + ConnectLen)
    BY DEF SendIsNear
  <2>1. /\ ConnectLen \in Nat /\ ConnectLen >= 1 /\ PublishLen \in Nat /\ PublishLen >= 1
        /\ dataRemain \in Nat /\ Shape
    BY LengthsAssumption DEF BrokerInv, Shape, TypeOK
  <2>2. state = "WRITE" =>
          /\ dataRemain >= 1
          /\ request.type = "PUBLISH" => dataRemain <= PublishLen
          /\ request.type # "PUBLISH" => dataRemain <= ConnectLen + 1
    <3> SUFFICES ASSUME state = "WRITE"
                 PROVE  /\ dataRemain >= 1
                        /\ request.type = "PUBLISH" => dataRemain <= PublishLen
                        /\ request.type # "PUBLISH" => dataRemain <= ConnectLen + 1
      OBVIOUS
    <3>1. dataRemain >= 1 /\ dataRemain <= PacketLen(request) /\ request \in Requests
      BY <2>1 DEF Underway, Shape, TransferInBounds, RequestAgrees, TypeOK
    <3>2. PacketLen(request) \in {ConnectLen, 2, PublishLen}
          /\ (request.type = "PUBLISH" => PacketLen(request) = PublishLen)
          /\ (request.type # "PUBLISH" => PacketLen(request) \in {ConnectLen, 2})
      BY <3>1, RequestKinds DEF PacketLen
    <3> QED
      BY <2>1, <3>1, <3>2
  <2>3. state = "READ" => dataRemain \in 1 .. 4
    BY <2>1, ReadFacts
  <2>4. CASE state = "WRITE"
    BY <2>1, <2>2, <2>4 DEF StepsToAck, StepsFrom
  <2>5. CASE state = "READ"
    <3> DEFINE u == IF inbox = << >> THEN 0 ELSE 1
    <3>1. u \in {0, 1}
      OBVIOUS
    <3>2. StepsToAck = IF request.type = "PUBLISH" THEN dataRemain + u + 1
                       ELSE PublishLen + 9 + dataRemain + u
      BY <2>5 DEF StepsToAck, StepsFrom
    <3> HIDE DEF u
    <3>3. dataRemain \in 1 .. 4
      BY <2>3, <2>5
    <3> QED
      BY <2>1, <3>1, <3>2, <3>3
  <2>6. CASE state \notin {"WRITE", "READ"}
    BY <2>1, <2>6 DEF StepsToAck, StepsFrom
  <2> QED
    BY <2>4, <2>5, <2>6
<1> QED
  BY <1>1, <1>2, <1>3, <1>4, <1>5, PTL DEF BrokerSpec

-----------------------------------------------------------------------------
(* Why a closed link is the end: the safety half of ClosedLinkIsForever,     *)
(* with any broker.                                                          *)

(* The calls of MqttHandle_App that are left until the client reads, if      *)
(* every write moves a single byte.                                          *)
StepsToRead ==
  CASE state = "READ"    -> 0
    [] state = "WRITE"   -> dataRemain
    [] state = "PUBLISH" -> PublishLen + 1
    [] state = "CONNECT" -> ConnectLen + 1
    [] state = "PINGREQ" -> PublishLen + 3
    [] OTHER             -> PublishLen + ConnectLen + 4

(* A call over a closed link uses up bytes that were on their way when it    *)
(* closed, brings the client nearer to wanting more of them, or is a write   *)
(* or read that moves nothing; it delivers nothing; nobody else touches      *)
(* client or bytes; and the link does not open again in this process.        *)
RunsDry ==
  /\ link = "closed" /\ link' # "closed" => link' = "none" /\ pc' = "down"
  /\ link = "closed" /\ link' = "closed" =>
    /\ CallApp => \/ UNCHANGED vars /\ state \in {"WRITE", "READ"}
                  \/ Len(rx') < Len(rx)
                  \/ rx' = rx /\ StepsToRead' < StepsToRead
    /\ ~CallApp => UNCHANGED <<clientVars, rx>>
    /\ UNCHANGED delivered

LEMMA CallRunsDry ==
  ASSUME BrokerInv, link = "closed", CallApp
  PROVE  /\ \/ UNCHANGED vars /\ state \in {"WRITE", "READ"}
            \/ Len(rx') < Len(rx)
            \/ rx' = rx /\ StepsToRead' < StepsToRead
         /\ UNCHANGED delivered
<1>1. /\ App(writeFlag) /\ Shape
      /\ dataRemain \in Nat /\ ConnectLen \in Nat /\ ConnectLen >= 1 /\ PublishLen \in Nat
      /\ PublishLen >= 1 /\ rx \in Seq(Byte) /\ Len(rx) \in Nat
  BY LengthsAssumption DEF CallApp, BrokerInv, Shape, TypeOK
<1>2. CASE AppConnect
  <2>1. StepsToRead = ConnectLen + 1 /\ StepsToRead' = ConnectLen
    BY <1>2 DEF AppConnect, CreateMessage, StepsToRead
  <2> QED
    BY <1>1, <1>2, <2>1 DEF AppConnect, wireVars
<1>3. CASE AppConnack \/ AppPingresp \/ AppPuback
  <2>1. state \in {"CONNACK", "PINGRESP", "PUBACK"} /\ state' \in {"PINGREQ", "CONNECT"}
        /\ UNCHANGED <<rx, delivered>>
    BY <1>3 DEF AppConnack, AppPingresp, AppPuback, wireVars
  <2>2. /\ StepsToRead = PublishLen + ConnectLen + 4
        /\ StepsToRead' \in {PublishLen + 3, ConnectLen + 1}
    BY <2>1 DEF StepsToRead
  <2> QED
    BY <1>1, <2>1, <2>2
<1>4. CASE AppPingreq(writeFlag)
  <2>1. StepsToRead = PublishLen + 3 /\ StepsToRead' \in {PublishLen + 1, 2}
    BY <1>4 DEF AppPingreq, CreateMessage, StepsToRead
  <2> QED
    BY <1>1, <1>4, <2>1 DEF AppPingreq, wireVars
<1>5. CASE AppPublish
  <2>1. StepsToRead = PublishLen + 1 /\ StepsToRead' = PublishLen
    BY <1>5 DEF AppPublish, CreateMessage, StepsToRead
  <2> QED
    BY <1>1, <1>5, <2>1 DEF AppPublish, wireVars
<1>6. ASSUME NEW k \in 1 .. dataRemain, WriteChunk(k)
      PROVE  UNCHANGED <<rx, delivered>> /\ StepsToRead' < StepsToRead
  <2>1. /\ UNCHANGED <<rx, delivered>> /\ state = "WRITE" /\ k >= 1 /\ k \in Nat /\ dataRemain >= 1
        /\ state' = "READ" \/ (state' = "WRITE" /\ dataRemain' = dataRemain - k)
    BY <1>1, <1>6 DEF WriteChunk
  <2>2. StepsToRead = dataRemain /\ StepsToRead' \in {0, dataRemain - k}
    BY <2>1 DEF StepsToRead
  <2> QED
    BY <1>1, <2>1, <2>2
<1>7. ASSUME NEW k \in 1 .. dataRemain, ReadChunk(k)
      PROVE  Len(rx') < Len(rx) /\ UNCHANGED delivered
  <2>1. /\ k \in Nat /\ k >= 1 /\ k <= Len(rx) /\ rx' = SubSeq(rx, k + 1, Len(rx))
        /\ UNCHANGED delivered
    BY <1>1, <1>7 DEF ReadChunk
  <2>2. Len(rx') = Len(rx) - k
    BY <1>1, <1>7, ReadKeepsStream
  <2> QED
    BY <1>1, <2>1, <2>2
<1>8. CASE TransferRetry
  BY <1>8 DEF TransferRetry, vars
<1> QED
  BY <1>1, <1>2, <1>3, <1>4, <1>5, <1>6, <1>7, <1>8 DEF App

(* After the peer has closed, a client can only use up what was on its way:  *)
(* it ends in WRITE or READ with calls that move nothing, no reading is      *)
(* published any more, and only the end of the process, as by the SIGPIPE of *)
(* a WRITE, takes the closed link away (SSL_MqttWriteHandler and             *)
(* SSL_MqttReadHandler take every error for an unfinished transfer).         *)
THEOREM ClosedLinkRunsDry == BrokerSpec => [][RunsDry]_brokerVars
<1>1. BrokerInv /\ [BrokerNext]_brokerVars => [RunsDry]_brokerVars
  <2> SUFFICES ASSUME BrokerInv, BrokerNext, link = "closed" PROVE RunsDry
    BY DEF RunsDry, brokerVars, vars, wireVars
  <2>1. CASE CallApp
    <3>1. link' = link
      BY <2>1 DEF CallApp, App, AppConnect, AppConnack, AppPingreq, AppPingresp, AppPublish, AppPuback,
                  WriteChunk, ReadChunk, TransferRetry, vars, wireVars
    <3> QED
      BY <2>1, <3>1, CallRunsDry DEF RunsDry
  <2>3. CASE link' # "closed"
    <3>1. ~(AppScheduler \/ CallApp \/ Start \/ StartsForgotten \/ MainInit \/ MainInitFails \/ Convert
            \/ Environment \/ \E ok \in BOOLEAN : OpenSession(ok))
      <4>1. ~CallApp
        BY <2>3 DEF CallApp, App, AppConnect, AppConnack, AppPingreq, AppPingresp, AppPublish, AppPuback,
                    WriteChunk, ReadChunk, TransferRetry, vars, wireVars
      <4>2. ~AppScheduler
        BY <2>3 DEF AppScheduler, UnbindXadc, StartXadcKernel, ReadData, SendToServer, SetPayload,
                    PrepareRead, FinishSend, vars, wireVars
      <4> QED
        BY <2>3, <4>1, <4>2 DEF Start, StartsForgotten, MainInit, MainInitFails, Convert, Environment,
           OpenSession, Open, BrokerAnswers, PeerCloses, vars, wireVars
    <3>2. Sleep \/ HandleSigint \/ Killed
      BY <3>1 DEF BrokerNext
    <3> QED
      BY <2>3, <3>2 DEF RunsDry, Sleep, HandleSigint, Killed, LinkGone, Close, vars, wireVars
  <2>2. CASE ~CallApp /\ link' = "closed"
    <3>1. ASSUME AppScheduler PROVE UNCHANGED <<clientVars, rx, delivered>>
      BY <3>1 DEF AppScheduler, UnbindXadc, StartXadcKernel, ReadData, SendToServer, SetPayload,
                  PrepareRead, FinishSend, vars, wireVars
    <3>2. ASSUME ~AppScheduler PROVE UNCHANGED <<clientVars, rx, delivered>>
      BY <2>2, <3>2 DEF BrokerNext, Start, StartsForgotten, MainInit, MainInitFails, OpenSession, Open, Sleep, Close,
         HandleSigint, Killed, LinkGone, Convert, Environment, BrokerAnswers, PeerCloses, vars, wireVars
    <3> QED
      BY <2>2, <3>1, <3>2 DEF RunsDry
  <2> QED
    BY <2>1, <2>2, <2>3
<1> QED
  BY <1>1, BrokerInvariant, PTL DEF BrokerSpec
=============================================================================
