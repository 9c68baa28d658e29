-------------------------- MODULE MqttHandle_proofs --------------------------
(***************************************************************************)
(* Proofs about MqttHandle for all packet lengths, readings and numbers of *)
(* packet identifiers: the client is well typed and its transfers stay in  *)
(* bounds, packet identifiers are used in order whatever the broker does,  *)
(* and with a proper broker the exchange is strictly request and response. *)
(***************************************************************************)
EXTENDS MqttHandle, SequenceTheorems, TLAPS

(* A transfer has a packet, and an answer is interpreted as the answer to    *)
(* the last packet written.                                                  *)
RequestAgrees ==
  /\ state \in {"WRITE", "READ"} => request \in Requests
  /\ state = "CONNACK"  => request = ConnectPacket
  /\ state = "PINGRESP" => request = PingreqPacket
  /\ state = "PUBACK"   => request \in Publishes

Shape == TypeOK /\ TransferInBounds /\ RequestAgrees

-----------------------------------------------------------------------------
(* Bytes.                                                                    *)

(* Every answer a broker may give is a string of bytes, and no longer than   *)
(* four of them.                                                             *)
LEMMA AnswerBytes ==
  ASSUME NEW p \in Requests, NEW a \in Answers(p)
  PROVE  a \in Seq(Byte) /\ Len(a) \in {2, 4}
<1>1. \A i \in PacketIds : PubackBytes(i) \in Seq(Byte) /\ Len(PubackBytes(i)) = 4
  <2> SUFFICES ASSUME NEW i \in PacketIds
               PROVE  PubackBytes(i) \in Seq(Byte) /\ Len(PubackBytes(i)) = 4
    OBVIOUS
  <2>0. i \in Nat /\ i <= 65535
    BY LengthsAssumption DEF PacketIds
  <2>1. /\ i \div 256 \in Nat /\ i \div 256 <= 255
        /\ i % 256 \in Nat /\ i % 256 <= 255
    BY <2>0
  <2>2. i \div 256 \in Byte /\ i % 256 \in Byte
    BY <2>1 DEF Byte
  <2>3. PUBACK_TYPE \in Byte /\ 2 \in Byte
    BY DEF PUBACK_TYPE, Byte
  <2>4. QED
    BY <2>2, <2>3 DEF PubackBytes
<1>2. \A s \in {0, 1}, c \in {0, 5} :
        ConnackBytes(s, c) \in Seq(Byte) /\ Len(ConnackBytes(s, c)) = 4
  BY DEF ConnackBytes, Byte, CONNACK_TYPE
<1>3. PingrespBytes \in Seq(Byte) /\ Len(PingrespBytes) = 2
  BY DEF PingrespBytes, Byte, PINGRESP_TYPE
<1>4. CASE BrokerErrs
  BY <1>1, <1>2, <1>3, <1>4 DEF Answers, AllAnswers
<1>5. CASE ~BrokerErrs
  <2>1. a = ProperAnswer(p)
    BY <1>5 DEF Answers
  <2>2. CASE p = ConnectPacket
    BY <1>2, <2>1, <2>2 DEF ProperAnswer, ConnectPacket
  <2>3. CASE p = PingreqPacket
    BY <1>3, <2>1, <2>3 DEF ProperAnswer, PingreqPacket
  <2>4. CASE p \in Publishes
    BY <1>1, <2>1, <2>4 DEF ProperAnswer, Publishes
  <2>5. QED
    BY <2>2, <2>3, <2>4 DEF Requests
<1>6. QED
  BY <1>4, <1>5

-----------------------------------------------------------------------------
(* The static variables as the process starts with them satisfy Shape.       *)
LEMMA InitShape == Init => Shape
<1> SUFFICES ASSUME Init PROVE Shape
  OBVIOUS
<1>1. packetId \in PacketIds
  BY LengthsAssumption DEF Init, PacketIds
<1>2. front \in [1 .. 4 -> Byte]
  <2>1. 0 \in Byte
    BY DEF Byte
  <2>2. QED
    BY <2>1 DEF Init, NoBytes
<1>4. TypeOK
  BY <1>1, <1>2 DEF Init, TypeOK
<1>5. TransferInBounds /\ RequestAgrees
  BY DEF Init, TransferInBounds, RequestAgrees
<1>6. QED
  BY <1>4, <1>5 DEF Shape

(* A message that has just been created, whole and yet unwritten, satisfies  *)
(* Shape whatever it requests.                                               *)
LEMMA CreateMessageShape ==
  ASSUME Shape,
         NEW p \in Requests, NEW len \in Nat \ {0}, NEW alen \in {2, 4},
         NEW next \in {"CONNACK", "PINGRESP", "PUBACK"},
         CreateMessage(p, len, alen, next),
         next = AnswerState(p), alen = AnswerLen(p),
         dataState' \in {"INIT", "IDLE", "SENDING"},
         UNCHANGED <<packetId, payload, wireVars, delivered, acked>>
  PROVE  Shape'
<1>0. TypeByte(p) \in Byte
  BY DEF TypeByte, Byte
<1>1. front' \in [1 .. 4 -> Byte]
  BY <1>0 DEF CreateMessage, Shape, TypeOK
<1>2. TypeOK'
  BY <1>1 DEF CreateMessage, Shape, TypeOK, wireVars, transfer
<1>3. TransferInBounds' /\ RequestAgrees'
  BY DEF CreateMessage, TransferInBounds, RequestAgrees
<1>4. QED
  BY <1>2, <1>3 DEF Shape

(* The packet a PUBLISH is made of is a PUBLISH with the current             *)
(* identifier.                                                               *)
LEMMA PublishPacketType ==
  ASSUME TypeOK
  PROVE  /\ PublishPacket(packetId) \in Publishes
         /\ PublishPacket(packetId).type = "PUBLISH"
         /\ PublishPacket(packetId).id = packetId
  BY DEF TypeOK, PublishPacket, Publishes

(* The three kinds of request are told apart by their type, and each has an  *)
(* answer of 2 or 4 bytes.                                                   *)
LEMMA RequestKinds ==
  ASSUME NEW p \in Requests
  PROVE  /\ p.type \in {"CONNECT", "PINGREQ", "PUBLISH"}
         /\ p.type = "CONNECT" => p = ConnectPacket
         /\ p.type = "PINGREQ" => p = PingreqPacket
         /\ p.type = "PUBLISH" => p \in Publishes
  BY DEF Requests, Publishes, ConnectPacket, PingreqPacket

-----------------------------------------------------------------------------
(* Every step of the client and of its environment keeps Shape.              *)

(* Every call of MqttHandle_App keeps Shape, in each of its eight states.    *)
LEMMA AppShape ==
  ASSUME Shape, NEW isWrite \in BOOLEAN, App(isWrite)
  PROVE  Shape'
<1> USE DEF Shape
<1>1. CASE AppConnect
  <2>1. ConnectPacket \in Requests /\ ConnectPacket.type = "CONNECT"
    BY DEF Requests, ConnectPacket
  <2>2. QED
    BY <1>1, <2>1, CreateMessageShape, LengthsAssumption
       DEF AppConnect, TypeOK, AnswerState, AnswerLen
<1>2. CASE AppConnack
  <2>1. TypeOK'
    BY <1>2 DEF AppConnack, TypeOK, wireVars, transfer
  <2>2. TransferInBounds' /\ RequestAgrees'
    BY <1>2 DEF AppConnack, transfer, TransferInBounds, RequestAgrees
  <2>3. QED
    BY <2>1, <2>2
<1>3. CASE AppPingreq(isWrite)
  <2>1. CASE isWrite
    <3>1. TypeOK'
      BY <1>3, <2>1 DEF AppPingreq, TypeOK, wireVars, transfer
    <3>2. TransferInBounds' /\ RequestAgrees'
      BY <1>3, <2>1 DEF AppPingreq, transfer, TransferInBounds, RequestAgrees
    <3>3. QED
      BY <3>1, <3>2
  <2>2. CASE ~isWrite
    <3>1. PingreqPacket \in Requests /\ PingreqPacket.type = "PINGREQ"
      BY DEF Requests, PingreqPacket
    <3>2. CreateMessage(PingreqPacket, 2, 2, "PINGRESP")
      BY <1>3, <2>2 DEF AppPingreq
    <3>3. dataState' \in {"INIT", "IDLE", "SENDING"}
      BY <1>3 DEF AppPingreq, TypeOK
    <3>4. UNCHANGED <<packetId, payload, wireVars, delivered, acked>>
      BY <1>3 DEF AppPingreq
    <3>5. QED
      BY <3>1, <3>2, <3>3, <3>4, CreateMessageShape DEF AnswerState, AnswerLen
  <2>3. QED
    BY <2>1, <2>2
<1>4. CASE AppPingresp
  <2>1. TypeOK'
    BY <1>4 DEF AppPingresp, TypeOK, wireVars, transfer
  <2>2. TransferInBounds' /\ RequestAgrees'
    BY <1>4 DEF AppPingresp, transfer, TransferInBounds, RequestAgrees
  <2>3. QED
    BY <2>1, <2>2
<1>5. CASE AppPublish
  <2>1. PublishPacket(packetId) \in Requests /\ PublishPacket(packetId).type = "PUBLISH"
    BY PublishPacketType DEF Requests
  <2>2. CreateMessage(PublishPacket(packetId), PublishLen, 4, "PUBACK")
    BY <1>5 DEF AppPublish
  <2>3. dataState' \in {"INIT", "IDLE", "SENDING"}
    BY <1>5 DEF AppPublish
  <2>4. UNCHANGED <<packetId, payload, wireVars, delivered, acked>>
    BY <1>5 DEF AppPublish
  <2>5. QED
    BY <2>1, <2>2, <2>3, <2>4, CreateMessageShape, LengthsAssumption
       DEF AnswerState, AnswerLen
<1>6. CASE AppPuback
  <2>1. packetId' \in PacketIds
    BY <1>6, LengthsAssumption DEF AppPuback, TypeOK, PacketIds, NextId
  <2>2. acked' \subseteq Readings \cup {NoReading}
    BY <1>6 DEF AppPuback, TypeOK, RequestAgrees, Publishes
  <2>3. TypeOK'
    BY <1>6, <2>1, <2>2 DEF AppPuback, TypeOK, wireVars, transfer
  <2>4. TransferInBounds' /\ RequestAgrees'
    BY <1>6 DEF AppPuback, transfer, TransferInBounds, RequestAgrees
  <2>5. QED
    BY <2>3, <2>4
<1>7. ASSUME NEW k \in 1 .. dataRemain, WriteChunk(k)
      PROVE  Shape'
  <2>1. /\ dataRead \in {0, 2, 4} /\ dataRemain \in Nat /\ dataSize \in Nat
        /\ k \in Nat /\ k >= 1 /\ k <= dataRemain
        /\ dataRead = AnswerLen(request)
        /\ request \in Requests
    BY <1>7 DEF WriteChunk, TypeOK, TransferInBounds, RequestAgrees
  <2>2. CASE k = dataRemain
    <3>1. /\ dataRead' = dataRead
          /\ dataRemain' = dataRead
          /\ dataSize' = dataRead
      BY <1>7, <2>1, <2>2 DEF WriteChunk, TypeOK
    <3>2. inbox' \in Seq(Requests) /\ delivered' \in Seq(Publishes)
      <4>1. Append(inbox, request) \in Seq(Requests)
        BY <2>1, AppendProperties DEF TypeOK
      <4>2. request.type = "PUBLISH" => Append(delivered, request) \in Seq(Publishes)
        BY <2>1, RequestKinds, AppendProperties DEF TypeOK
      <4>3. QED
        BY <1>7, <2>2, <4>1, <4>2 DEF WriteChunk, TypeOK
    <3>3. TypeOK'
      BY <1>7, <2>2, <3>1, <3>2 DEF WriteChunk, TypeOK
    <3>4. TransferInBounds' /\ RequestAgrees'
      BY <1>7, <2>1, <2>2, <3>1
         DEF WriteChunk, TransferInBounds, RequestAgrees, AnswerLen, AnswerState
    <3>5. QED
      BY <3>3, <3>4
  <2>3. CASE k # dataRemain
    <3>1. /\ dataRead' = dataRead
          /\ dataRemain' = dataRemain - k
          /\ dataSize' = dataSize
      BY <1>7, <2>1, <2>3 DEF WriteChunk, TypeOK
    <3>2. TypeOK'
      BY <1>7, <2>3, <3>1 DEF WriteChunk, TypeOK
    <3>3. TransferInBounds' /\ RequestAgrees'
      BY <1>7, <2>1, <2>3, <3>1
         DEF WriteChunk, TransferInBounds, RequestAgrees, AnswerLen, AnswerState
    <3>4. QED
      BY <3>2, <3>3
  <2>4. QED
    BY <2>2, <2>3
<1>8. ASSUME NEW k \in 1 .. dataRemain, ReadChunk(k)
      PROVE  Shape'
  <2>1. /\ dataRead \in {0, 2, 4} /\ dataRemain \in Nat /\ dataSize \in Nat
        /\ k \in Nat /\ k >= 1 /\ k <= dataRemain
        /\ nextState = AnswerState(request)
        /\ dataRead = AnswerLen(request)
        /\ dataSize = dataRead
        /\ dataRemain <= dataSize
        /\ request \in Requests
    BY <1>8 DEF ReadChunk, TypeOK, TransferInBounds, RequestAgrees
  <2>2. /\ rx \in Seq(Byte) /\ Len(rx) \in Nat /\ k <= Len(rx)
        /\ \A i \in 1 .. Len(rx) : rx[i] \in Byte
    BY <1>8 DEF ReadChunk, TypeOK
  <2>3. front' \in [1 .. 4 -> Byte]
    <3>1. ASSUME NEW i \in 1 .. 4,
                 i \in (dataSize - dataRemain + 1) .. (dataSize - dataRemain + k)
          PROVE  rx[i - (dataSize - dataRemain)] \in Byte
      <4>1. dataSize - dataRemain \in Nat /\ k \in Nat /\ Len(rx) \in Nat /\ k <= Len(rx)
        BY <2>1, <2>2
      <4>2. i - (dataSize - dataRemain) \in 1 .. k
        BY <3>1, <4>1
      <4>3. i - (dataSize - dataRemain) \in 1 .. Len(rx)
        BY <4>1, <4>2
      <4>4. QED
        BY <2>2, <4>3
    <3>2. QED
      BY <1>8, <3>1 DEF ReadChunk, TypeOK
  <2>4. rx' \in Seq(Byte)
    <3>1. \A i \in (k + 1) .. Len(rx) : rx[i] \in Byte
      BY <2>1, <2>2
    <3>2. SubSeq(rx, k + 1, Len(rx)) \in Seq(Byte)
      BY <2>1, <2>2, <3>1, SubSeqProperties
    <3>3. QED
      BY <1>8, <3>2 DEF ReadChunk
  <2>5. /\ dataRead' = dataRead
        /\ dataRemain' = dataRemain - k
        /\ dataSize' = dataSize
    BY <1>8, <2>1 DEF ReadChunk, TypeOK
  <2>6. TypeOK'
    BY <1>8, <2>3, <2>4, <2>5 DEF ReadChunk, TypeOK
  <2>7. TransferInBounds'
    BY <1>8, <2>1, <2>5 DEF ReadChunk, TransferInBounds, AnswerState
  <2>8. RequestAgrees'
    BY <1>8, <2>1, RequestKinds DEF ReadChunk, RequestAgrees, AnswerState
  <2>9. QED
    BY <2>6, <2>7, <2>8
<1>9. CASE TransferRetry
  BY <1>9 DEF TransferRetry, vars, clientVars, wireVars, transfer, TypeOK, TransferInBounds, RequestAgrees
<1>10. QED
  BY <1>1, <1>2, <1>3, <1>4, <1>5, <1>6, <1>7, <1>8, <1>9 DEF App

(* What the broker, the network and the caller do keeps Shape.               *)
LEMMA EnvironmentShape ==
  ASSUME Shape, BrokerAnswers \/ PeerCloses \/ Close \/ \E r \in Readings : SetPayload(r)
  PROVE  Shape'
<1> USE DEF Shape
<1>1. CASE BrokerAnswers
  <2>1. Head(inbox) \in Requests /\ Tail(inbox) \in Seq(Requests)
    BY <1>1, HeadTailProperties DEF BrokerAnswers, TypeOK
  <2>2. PICK a \in Answers(Head(inbox)) : rx' = rx \o a
    BY <1>1 DEF BrokerAnswers
  <2>3. rx' \in Seq(Byte)
    BY <2>1, <2>2, AnswerBytes, ConcatProperties DEF TypeOK
  <2>4. TypeOK'
    BY <1>1, <2>1, <2>3 DEF BrokerAnswers, TypeOK, clientVars, transfer
  <2>5. TransferInBounds' /\ RequestAgrees'
    BY <1>1 DEF BrokerAnswers, TransferInBounds, RequestAgrees, clientVars, transfer
  <2>6. QED
    BY <2>4, <2>5
<1>2. CASE PeerCloses
  <2>0. rx' \in Seq(Byte)
    <3>1. rx' = rx \/ rx' = << >>
      BY <1>2 DEF PeerCloses
    <3>2. << >> \in Seq(Byte)
      OBVIOUS
    <3>3. QED
      BY <3>1, <3>2 DEF TypeOK
  <2>1. TypeOK'
    BY <1>2, <2>0 DEF PeerCloses, TypeOK, clientVars, transfer
  <2>2. TransferInBounds' /\ RequestAgrees'
    BY <1>2 DEF PeerCloses, TransferInBounds, RequestAgrees, clientVars, transfer
  <2>3. QED
    BY <2>1, <2>2
<1>3. CASE Close
  <2>1. TypeOK'
    BY <1>3 DEF Close, TypeOK, clientVars, transfer
  <2>2. TransferInBounds' /\ RequestAgrees'
    BY <1>3 DEF Close, TransferInBounds, RequestAgrees, clientVars, transfer
  <2>3. QED
    BY <2>1, <2>2
<1>4. ASSUME NEW r \in Readings, SetPayload(r)
      PROVE  Shape'
  <2>1. TypeOK'
    BY <1>4 DEF SetPayload, TypeOK, clientVars, wireVars, transfer
  <2>2. TransferInBounds' /\ RequestAgrees'
    BY <1>4 DEF SetPayload, TransferInBounds, RequestAgrees, clientVars, transfer
  <2>3. QED
    BY <2>1, <2>2
<1>5. QED
  BY <1>1, <1>2, <1>3, <1>4

(* A new process that has opened its session starts from Shape again.        *)
LEMMA OpenShape == ASSUME Open PROVE Shape'
<1>1. packetId' \in PacketIds
  BY LengthsAssumption DEF Open, PacketIds
<1>2. front' \in [1 .. 4 -> Byte]
  <2>1. 0 \in Byte
    BY DEF Byte
  <2>2. QED
    BY <2>1 DEF Open, NoBytes
<1>3. TypeOK'
  BY <1>1, <1>2 DEF Open, TypeOK
<1>4. TransferInBounds' /\ RequestAgrees'
  BY DEF Open, TransferInBounds, RequestAgrees
<1>5. QED
  BY <1>3, <1>4 DEF Shape

(* Shape is an inductive invariant.                                          *)
LEMMA NextShape == Shape /\ [Next]_vars => Shape'
<1> SUFFICES ASSUME Shape, [Next]_vars PROVE Shape'
  OBVIOUS
<1>1. CASE UNCHANGED vars
  BY <1>1 DEF vars, clientVars, wireVars, transfer, Shape, TypeOK, TransferInBounds, RequestAgrees
<1>2. CASE Next
  BY <1>2, AppShape, EnvironmentShape, OpenShape DEF Next
<1>3. QED
  BY <1>1, <1>2

(* The client's variables keep their types, and every transfer stays inside  *)
(* the packet or the answer it moves and leads to the state that interprets  *)
(* that answer, for packets of any length and however SSL_write and SSL_read *)
(* split them (SSL_MqttWriteHandler, SSL_MqttReadHandler, MqttHandle_App).   *)
THEOREM ClientTransfers == Spec => [](TypeOK /\ TransferInBounds)
<1>1. Spec => []Shape
  BY InitShape, NextShape, PTL DEF Spec
<1>2. Shape => TypeOK /\ TransferInBounds
  BY DEF Shape
<1>3. QED
  BY <1>1, <1>2, PTL

(* The client's variables, its buffers and the packets on their way keep     *)
(* their types whatever the broker sends.                                    *)
THEOREM ClientTypes == Spec => []TypeOK
<1>1. TypeOK /\ TransferInBounds => TypeOK
  OBVIOUS
<1> QED
  BY <1>1, ClientTransfers, PTL

-----------------------------------------------------------------------------
(* Packet identifiers.  While the link is up the identifier of the next      *)
(* PUBLISH follows that of the last one delivered; between the end of        *)
(* writing a PUBLISH and the step that interprets its answer it equals it.   *)

NextFree ==
  IF delivered = << >> THEN 0 ELSE NextId(delivered[Len(delivered)].id)

Unanswered == request.type = "PUBLISH" /\ state \in {"READ", "PUBACK"}

Identifiers ==
  /\ PacketIdsInOrder
  /\ request.type = "PUBLISH" /\ state \in {"WRITE", "READ", "PUBACK"} => request.id = packetId
  /\ link = "up" /\ Unanswered =>
       delivered # << >> /\ packetId = delivered[Len(delivered)].id
  /\ link = "up" /\ ~Unanswered => packetId = NextFree

IdInv == Shape /\ Identifiers

(* MqttHandle_App publishes with the identifier that follows the last one    *)
(* of the connection, whatever the broker answered to that one.              *)
LEMMA AppIdentifiers ==
  ASSUME Shape, Identifiers, NEW isWrite \in BOOLEAN, App(isWrite)
  PROVE  Identifiers'
<1> USE DEF Identifiers, PacketIdsInOrder, NextFree, Unanswered
<1>1. CASE AppConnect
  BY <1>1 DEF AppConnect, CreateMessage, ConnectPacket, wireVars
<1>2. CASE AppConnack
  BY <1>2 DEF AppConnack, transfer, wireVars
<1>3. CASE AppPingreq(isWrite)
  BY <1>3 DEF AppPingreq, CreateMessage, PingreqPacket, transfer, wireVars
<1>4. CASE AppPingresp
  BY <1>4 DEF AppPingresp, transfer, wireVars
<1>5. CASE AppPublish
  BY <1>5, PublishPacketType DEF AppPublish, CreateMessage, wireVars, Shape
<1>6. CASE AppPuback
  <2>1. request.type = "PUBLISH"
    BY <1>6 DEF AppPuback, Shape, RequestAgrees, Publishes
  <2>2. QED
    BY <1>6, <2>1 DEF AppPuback, transfer, wireVars
<1>7. ASSUME NEW k \in 1 .. dataRemain, WriteChunk(k)
      PROVE  Identifiers'
  <2>1. CASE k = dataRemain /\ link = "up" /\ request.type = "PUBLISH"
    <3>1. request \in Publishes /\ delivered \in Seq(Publishes)
      BY <1>7, <2>1, RequestKinds DEF WriteChunk, Shape, RequestAgrees, TypeOK
    <3>2. /\ Len(delivered') = Len(delivered) + 1
          /\ \A i \in 1 .. Len(delivered) : delivered'[i] = delivered[i]
          /\ delivered'[Len(delivered) + 1] = request
          /\ delivered' # << >>
      <4>1. delivered' = Append(delivered, request)
        BY <1>7, <2>1 DEF WriteChunk
      <4>2. QED
        BY <3>1, <4>1, AppendProperties
    <3>3. request.id = packetId /\ packetId = NextFree
      BY <1>7, <2>1 DEF WriteChunk
    <3>4. PacketIdsInOrder'
      <4>1. delivered'[1].id = 0
        BY <3>1, <3>2, <3>3
      <4>2. ASSUME NEW i \in 1 .. (Len(delivered') - 1)
            PROVE  delivered'[i + 1].id = NextId(delivered'[i].id)
        <5>1. CASE i = Len(delivered)
          BY <3>1, <3>2, <3>3, <4>2, <5>1
        <5>2. CASE i # Len(delivered)
          BY <3>1, <3>2, <4>2, <5>2
        <5>3. QED
          BY <5>1, <5>2
      <4>3. QED
        BY <4>1, <4>2 DEF NextId
    <3>5. QED
      BY <1>7, <2>1, <3>1, <3>2, <3>3, <3>4 DEF WriteChunk
  <2>2. CASE ~(k = dataRemain /\ link = "up" /\ request.type = "PUBLISH")
    BY <1>7, <2>2 DEF WriteChunk
  <2>3. QED
    BY <2>1, <2>2
<1>8. ASSUME NEW k \in 1 .. dataRemain, ReadChunk(k)
      PROVE  Identifiers'
  <2>1. request \in Requests /\ nextState = AnswerState(request)
    BY <1>8 DEF ReadChunk, Shape, TransferInBounds, RequestAgrees
  <2>2. request.type = "PUBLISH" => nextState = "PUBACK"
    BY <2>1 DEF AnswerState
  <2>3. QED
    BY <1>8, <2>2 DEF ReadChunk
<1>9. CASE TransferRetry
  BY <1>9 DEF TransferRetry, vars, clientVars, wireVars
<1>10. QED
  BY <1>1, <1>2, <1>3, <1>4, <1>5, <1>6, <1>7, <1>8, <1>9 DEF App

(* Identifiers is inductive relative to Shape.                               *)
LEMMA NextIdentifiers == Shape /\ Identifiers /\ [Next]_vars => Identifiers'
<1> SUFFICES ASSUME Shape, Identifiers, [Next]_vars PROVE Identifiers'
  OBVIOUS
<1> USE DEF Identifiers, PacketIdsInOrder, NextFree, Unanswered
<1>1. CASE UNCHANGED vars
  BY <1>1 DEF vars, clientVars, wireVars
<1>2. ASSUME NEW isWrite \in BOOLEAN, App(isWrite)
      PROVE  Identifiers'
  BY <1>2, AppIdentifiers
<1>3. CASE BrokerAnswers
  BY <1>3 DEF BrokerAnswers, clientVars
<1>4. CASE PeerCloses
  BY <1>4 DEF PeerCloses, clientVars
<1>5. CASE Open
  BY <1>5 DEF Open, NoPacket
<1>6. CASE Close
  BY <1>6 DEF Close, clientVars
<1>7. ASSUME NEW r \in Readings, SetPayload(r)
      PROVE  Identifiers'
  BY <1>7 DEF SetPayload, clientVars, wireVars
<1>8. QED
  BY <1>1, <1>2, <1>3, <1>4, <1>5, <1>6, <1>7 DEF Next

(* The broker sees packet identifiers 0, 1, 2, ... around the 16 bits on     *)
(* every connection, whatever it answers and whenever the link closes        *)
(* (SSL_Mqtt_Publish_CreatePacket, SSL_Mqtt_Puback).                         *)
THEOREM IdentifiersInOrder == Spec => []PacketIdsInOrder
<1>1. Init => IdInv
  BY InitShape DEF Init, IdInv, Identifiers, PacketIdsInOrder, NextFree, Unanswered, NoPacket
<1>2. IdInv /\ [Next]_vars => IdInv'
  BY NextShape, NextIdentifiers DEF IdInv
<1>3. IdInv => PacketIdsInOrder
  BY DEF IdInv, Identifiers
<1>4. QED
  BY <1>1, <1>2, <1>3, PTL DEF Spec

-----------------------------------------------------------------------------
(* A proper broker.  While the client reads, either the broker still has the *)
(* request, or what is left of its answer is exactly what the client still   *)
(* has to read and the front of the buffer is the part already read, or the  *)
(* link is gone.  At any other time nothing is on its way.                   *)

Arriving ==
  /\ Len(rx) = dataRemain
  /\ \A i \in 1 .. dataRemain : rx[i] = ProperAnswer(request)[(dataSize - dataRemain) + i]
  /\ \A i \in 1 .. (dataSize - dataRemain) : front[i] = ProperAnswer(request)[i]

Exchange ==
  /\ state # "READ" => inbox = << >> /\ rx = << >>
  /\ state = "READ" =>
       \/ inbox = <<request>> /\ rx = << >> /\ dataRemain = dataSize
       \/ inbox = << >> /\ Arriving
       \/ inbox = << >> /\ rx = << >> /\ link # "up"
  /\ state \in {"CONNACK", "PINGRESP", "PUBACK"} =>
       /\ dataRead = AnswerLen(request)
       /\ \A i \in 1 .. AnswerLen(request) : front[i] = ProperAnswer(request)[i]

(* A proper answer has exactly the length and bytes the client checks.       *)
LEMMA ProperAnswerBytes ==
  ASSUME NEW p \in Requests, ~BrokerErrs
  PROVE  /\ ProperAnswer(p) \in Seq(Byte)
         /\ Len(ProperAnswer(p)) = AnswerLen(p)
<1>1. ProperAnswer(p) \in Seq(Byte)
  BY AnswerBytes DEF Answers
<1>2. CASE p = ConnectPacket
  <2>1. ProperAnswer(p) = ConnackBytes(0, 0) /\ AnswerLen(p) = 4
    BY <1>2 DEF ProperAnswer, ConnectPacket, AnswerLen
  <2>2. Len(ConnackBytes(0, 0)) = 4
    BY DEF ConnackBytes
  <2>3. QED
    BY <1>1, <2>1, <2>2
<1>3. CASE p = PingreqPacket
  <2>1. ProperAnswer(p) = PingrespBytes /\ AnswerLen(p) = 2
    BY <1>3 DEF ProperAnswer, PingreqPacket, AnswerLen
  <2>2. Len(PingrespBytes) = 2
    BY DEF PingrespBytes
  <2>3. QED
    BY <1>1, <2>1, <2>2
<1>4. CASE p \in Publishes
  <2>1. p.type = "PUBLISH"
    BY <1>4 DEF Publishes
  <2>2. ProperAnswer(p) = PubackBytes(p.id) /\ AnswerLen(p) = 4
    BY <2>1 DEF ProperAnswer, AnswerLen
  <2>3. Len(PubackBytes(p.id)) = 4
    BY DEF PubackBytes
  <2>4. QED
    BY <1>1, <2>2, <2>3
<1>5. QED
  BY <1>1, <1>2, <1>3, <1>4 DEF Requests

(* Reading any part of an answer leaves on the link what is still to be      *)
(* read, and in the buffer the beginning of the same answer.                 *)
LEMMA ReadExchange ==
  ASSUME ~BrokerErrs, Shape, Exchange, NEW k \in 1 .. dataRemain, ReadChunk(k)
  PROVE  Exchange'
<1> DEFINE a == ProperAnswer(request)
<1>1. /\ dataRemain \in Nat /\ dataSize \in Nat /\ k \in Nat
      /\ k >= 1 /\ k <= dataRemain /\ dataRemain <= dataSize
      /\ dataSize = dataRead /\ dataRead = AnswerLen(request)
      /\ dataSize \in {2, 4}
      /\ request \in Requests /\ nextState = AnswerState(request)
      /\ state = "READ" /\ k <= Len(rx)
  BY DEF ReadChunk, Shape, TypeOK, TransferInBounds, RequestAgrees, AnswerLen
<1>2. /\ dataRemain' = dataRemain - k
      /\ UNCHANGED <<dataSize, dataRead, request, inbox, link, nextState>>
      /\ state' = IF k = dataRemain THEN nextState ELSE state
  BY DEF ReadChunk
<1>3. rx # << >>
  BY <1>1
<1>4. inbox = << >> /\ Arriving
  BY <1>1, <1>3 DEF Exchange
<1>5. /\ Len(rx') = dataRemain - k
      /\ \A i \in 1 .. (dataRemain - k) : rx'[i] = rx[k + i]
  <2>1. rx' = SubSeq(rx, k + 1, Len(rx)) /\ Len(rx) = dataRemain
    BY <1>4 DEF ReadChunk, Arriving
  <2>2. \A i \in (k + 1) .. Len(rx) : rx[i] \in Byte
    BY <1>1 DEF Shape, TypeOK
  <2>3. /\ Len(SubSeq(rx, k + 1, Len(rx))) =
             IF k + 1 <= Len(rx) THEN Len(rx) - (k + 1) + 1 ELSE 0
        /\ \A i \in 1 .. Len(rx) - (k + 1) + 1 :
             SubSeq(rx, k + 1, Len(rx))[i] = rx[(k + 1) + i - 1]
    BY <1>1, <2>1, <2>2, SubSeqProperties
  <2>4. QED
    BY <1>1, <2>1, <2>3
<1>6. \A i \in 1 .. (dataRemain - k) : rx'[i] = a[(dataSize - (dataRemain - k)) + i]
  <2> SUFFICES ASSUME NEW i \in 1 .. (dataRemain - k)
               PROVE  rx'[i] = a[(dataSize - (dataRemain - k)) + i]
    OBVIOUS
  <2>1. rx'[i] = rx[k + i] /\ k + i \in 1 .. dataRemain
    BY <1>1, <1>5
  <2>2. rx[k + i] = a[(dataSize - dataRemain) + (k + i)]
    BY <1>4, <2>1 DEF Arriving
  <2>3. (dataSize - dataRemain) + (k + i) = (dataSize - (dataRemain - k)) + i
    BY <1>1
  <2>4. QED
    BY <2>1, <2>2, <2>3
<1>7. \A i \in 1 .. (dataSize - (dataRemain - k)) : front'[i] = a[i]
  <2> SUFFICES ASSUME NEW i \in 1 .. (dataSize - (dataRemain - k))
               PROVE  front'[i] = a[i]
    OBVIOUS
  <2>0. i \in 1 .. 4
    BY <1>1
  <2>1. CASE i <= dataSize - dataRemain
    <3>1. front'[i] = front[i]
      BY <1>1, <2>0, <2>1 DEF ReadChunk
    <3>2. QED
      BY <1>1, <1>4, <2>1, <3>1 DEF Arriving
  <2>2. CASE i > dataSize - dataRemain
    <3>1. front'[i] = rx[i - (dataSize - dataRemain)]
      <4>1. i \in (dataSize - dataRemain + 1) .. (dataSize - dataRemain + k)
        BY <1>1, <2>2
      <4>2. QED
        BY <2>0, <4>1 DEF ReadChunk
    <3>2. i - (dataSize - dataRemain) \in 1 .. dataRemain
      <4>1. i \in Int /\ i <= dataSize - (dataRemain - k) /\ i > dataSize - dataRemain
        BY <1>1, <2>2
      <4>2. dataRemain \in Nat /\ dataSize \in Nat /\ k \in Nat /\ k <= dataRemain
        BY <1>1
      <4>3. QED
        BY <4>1, <4>2
    <3>3. rx[i - (dataSize - dataRemain)] = a[(dataSize - dataRemain) + (i - (dataSize - dataRemain))]
      BY <1>4, <3>2 DEF Arriving
    <3>4. (dataSize - dataRemain) + (i - (dataSize - dataRemain)) = i
      BY <1>1
    <3>5. QED
      BY <3>1, <3>3, <3>4
  <2>3. QED
    BY <1>1, <2>1, <2>2
<1>8. CASE k = dataRemain
  <2>1. rx' = << >>
    BY <1>1, <1>5, <1>8 DEF Shape, TypeOK, ReadChunk
  <2>2. \A i \in 1 .. AnswerLen(request) : front'[i] = a[i]
    BY <1>1, <1>7, <1>8
  <2>3. state' # "READ"
    BY <1>1, <1>2, <1>8 DEF AnswerState
  <2>4. QED
    BY <1>1, <1>2, <1>4, <2>1, <2>2, <2>3 DEF Exchange
<1>9. CASE k # dataRemain
  <2>1. Arriving'
    BY <1>1, <1>2, <1>5, <1>6, <1>7, <1>9 DEF Arriving
  <2>2. QED
    BY <1>1, <1>2, <1>4, <1>9, <2>1 DEF Exchange
<1>10. QED
  BY <1>8, <1>9

(* With a proper broker every call of MqttHandle_App keeps Exchange.         *)
LEMMA AppExchange ==
  ASSUME ~BrokerErrs, Shape, Exchange, NEW isWrite \in BOOLEAN, App(isWrite)
  PROVE  Exchange'
<1>1. CASE AppConnect
  BY <1>1 DEF AppConnect, CreateMessage, wireVars, Exchange
<1>2. CASE AppConnack
  BY <1>2 DEF AppConnack, transfer, wireVars, Exchange
<1>3. CASE AppPingreq(isWrite)
  BY <1>3 DEF AppPingreq, CreateMessage, transfer, wireVars, Exchange
<1>4. CASE AppPingresp
  BY <1>4 DEF AppPingresp, transfer, wireVars, Exchange
<1>5. CASE AppPublish
  BY <1>5 DEF AppPublish, CreateMessage, wireVars, Exchange
<1>6. CASE AppPuback
  BY <1>6 DEF AppPuback, transfer, wireVars, Exchange
<1>7. ASSUME NEW k \in 1 .. dataRemain, WriteChunk(k)
      PROVE  Exchange'
  <2>1. inbox = << >> /\ rx = << >> /\ state = "WRITE"
    BY <1>7 DEF WriteChunk, Exchange
  <2>2. CASE k = dataRemain /\ link = "up"
    <3>1. inbox' = <<request>>
      BY <1>7, <2>1, <2>2 DEF WriteChunk
    <3>2. QED
      BY <1>7, <2>1, <2>2, <3>1 DEF WriteChunk, Exchange
  <2>3. CASE k = dataRemain /\ link # "up"
    BY <1>7, <2>1, <2>3 DEF WriteChunk, Exchange
  <2>4. CASE k # dataRemain
    BY <1>7, <2>1, <2>4 DEF WriteChunk, Exchange
  <2>5. QED
    BY <2>2, <2>3, <2>4
<1>8. ASSUME NEW k \in 1 .. dataRemain, ReadChunk(k)
      PROVE  Exchange'
  BY <1>8, ReadExchange
<1>9. CASE TransferRetry
  BY <1>9 DEF TransferRetry, vars, clientVars, transfer, wireVars, Exchange, Arriving
<1>10. QED
  BY <1>1, <1>2, <1>3, <1>4, <1>5, <1>6, <1>7, <1>8, <1>9 DEF App

(* With a proper broker Exchange is inductive relative to Shape.             *)
LEMMA NextExchange ==
  ASSUME ~BrokerErrs, Shape, Exchange, [Next]_vars
  PROVE  Exchange'
<1>1. CASE UNCHANGED vars
  BY <1>1 DEF vars, clientVars, transfer, wireVars, Exchange, Arriving
<1>2. ASSUME NEW isWrite \in BOOLEAN, App(isWrite)
      PROVE  Exchange'
  BY <1>2, AppExchange
<1>3. CASE BrokerAnswers
  <2>1. state = "READ" /\ inbox = <<request>> /\ rx = << >> /\ dataRemain = dataSize
    BY <1>3 DEF BrokerAnswers, Exchange
  <2>2. request \in Requests /\ dataSize = AnswerLen(request) /\ dataRemain \in Nat
    BY <2>1 DEF Shape, TypeOK, TransferInBounds, RequestAgrees
  <2>3. Head(inbox) = request /\ Tail(inbox) = << >>
    BY <2>1
  <2>4. rx' = ProperAnswer(request)
    BY <1>3, <2>1, <2>2, <2>3, ProperAnswerBytes, ConcatEmptySeq DEF BrokerAnswers, Answers
  <2>5. Arriving'
    BY <1>3, <2>1, <2>2, <2>4, ProperAnswerBytes DEF BrokerAnswers, Arriving, clientVars, transfer
  <2>6. QED
    BY <1>3, <2>1, <2>3, <2>5 DEF BrokerAnswers, Exchange, clientVars, transfer
<1>4. CASE PeerCloses
  BY <1>4 DEF PeerCloses, Exchange, Arriving, clientVars, transfer
<1>5. CASE Open
  BY <1>5 DEF Open, Exchange
<1>6. CASE Close
  BY <1>6 DEF Close, Exchange, Arriving, clientVars, transfer
<1>7. ASSUME NEW r \in Readings, SetPayload(r)
      PROVE  Exchange'
  BY <1>7 DEF SetPayload, Exchange, Arriving, clientVars, transfer, wireVars
<1>8. QED
  BY <1>1, <1>2, <1>3, <1>4, <1>5, <1>6, <1>7 DEF Next

(* The invariants together give the property that is checked.                *)
LEMMA ExchangeIsRequestResponse ==
  ASSUME Shape, Identifiers, ~BrokerErrs => Exchange
  PROVE  RequestResponse
<1> SUFFICES ASSUME ~BrokerErrs, Exchange PROVE RequestResponse
  BY DEF RequestResponse
<1>1. Len(inbox) <= 1
  <2>1. inbox = << >> \/ inbox = <<request>>
    BY DEF Exchange
  <2>2. CASE inbox = << >>
    BY <2>2
  <2>3. CASE inbox = <<request>>
    BY <2>3
  <2>4. QED
    BY <2>1, <2>2, <2>3
<1>2. ASSUME state = "CONNACK" PROVE Connack
  <2>1. ProperAnswer(request) = ConnackBytes(0, 0) /\ AnswerLen(request) = 4
    BY <1>2 DEF Shape, RequestAgrees, ProperAnswer, AnswerLen, ConnectPacket
  <2>2. QED
    BY <1>2, <2>1 DEF Exchange, Connack, ConnackBytes
<1>3. ASSUME state = "PINGRESP" PROVE PingrespReceived
  <2>1. ProperAnswer(request) = PingrespBytes /\ AnswerLen(request) = 2
    BY <1>3 DEF Shape, RequestAgrees, ProperAnswer, AnswerLen, PingreqPacket
  <2>2. QED
    BY <1>3, <2>1 DEF Exchange, PingrespReceived, PingrespBytes
<1>4. ASSUME state = "PUBACK" PROVE Puback
  <2>1. request \in Publishes /\ request.type = "PUBLISH" /\ request.id = packetId
    BY <1>4 DEF Shape, RequestAgrees, Identifiers, Publishes
  <2>2. ProperAnswer(request) = PubackBytes(packetId) /\ AnswerLen(request) = 4
    BY <2>1 DEF ProperAnswer, AnswerLen
  <2>3. QED
    BY <1>4, <2>2 DEF Exchange, Puback, PubackBytes
<1>5. QED
  BY <1>1, <1>2, <1>3, <1>4 DEF RequestResponse, Exchange

(* With a broker that answers properly the client is a strict request and    *)
(* response client, for packets of any length and any fragmentation: one     *)
(* packet at a time awaits its answer, nothing stale is ever on the link,    *)
(* and every check of an answer succeeds, so it never reconnects.            *)
THEOREM ProperExchange == Spec => []RequestResponse
<1> DEFINE Inv == IdInv /\ (~BrokerErrs => Exchange)
<1>1. Init => Inv
  BY InitShape DEF Init, IdInv, Identifiers, PacketIdsInOrder, NextFree, Unanswered, NoPacket,
                   Exchange
<1>2. Inv /\ [Next]_vars => Inv'
  BY NextShape, NextIdentifiers, NextExchange DEF IdInv
<1>3. Inv => RequestResponse
  BY ExchangeIsRequestResponse DEF IdInv
<1>4. QED
  BY <1>1, <1>2, <1>3, PTL DEF Spec
=============================================================================
