------------------------------ MODULE MqttHandle ------------------------------
(***************************************************************************)
(* The MQTT client of the broker application,                              *)
(* src/UserSpace/mqttbroker/files/MqttHandle/MqttHandle.c: a state machine *)
(* that MqttHandle_App advances by one case per call.  It sends one packet *)
(* over TLS, reads the answer into the same buffer, interprets the answer  *)
(* and goes on, so it is a strict request/response client.                 *)
(*                                                                         *)
(* The TLS link and the broker at its other end are the environment.  The  *)
(* link carries bytes in order; SSL_write and SSL_read may move any part   *)
(* of what is asked for, move nothing (WANT_READ / WANT_WRITE, or an       *)
(* error: MqttHandle.c treats them alike), and the peer may close.         *)
(*                                                                         *)
(* The module is open in its caller: MqttHandle_App is called with any     *)
(* isWrite, and the payload may be rewritten whenever the client is IDLE.  *)
(* MqttBroker composes it with the one caller the repository has.          *)
(***************************************************************************)
EXTENDS Naturals, Sequences

CONSTANTS
  ConnectLen,       (* Bytes of the CONNECT packet.                          *)
  PublishLen,       (* Bytes of a PUBLISH packet.                            *)
  PacketIdCount,    (* Values of the 16-bit PacketId: 2^16 in the code.      *)
  Readings,         (* What a payload can carry.                             *)
  NoReading,        (* The empty payload.                                    *)
  BrokerErrs,       (* May the broker answer with any of its packets?        *)
  LinkCloses,       (* May the peer close the link without a reason?         *)
  MaxRx,            (* Bound: bytes on their way from the broker.            *)
  MaxDelivered      (* Bound: PUBLISH packets delivered on one connection.   *)

ASSUME LengthsAssumption ==
  /\ ConnectLen \in Nat \ {0}
  /\ PublishLen \in Nat \ {0}
  /\ PacketIdCount \in Nat \ {0}
  /\ PacketIdCount <= 65536
  /\ MaxRx \in Nat
  /\ MaxDelivered \in Nat
ASSUME ReadingsAssumption == NoReading \notin Readings
ASSUME SwitchesAssumption == BrokerErrs \in BOOLEAN /\ LinkCloses \in BOOLEAN

VARIABLES
  state,        (* mqtt_state                                               *)
  nextState,    (* mqtt_nextstate                                           *)
  dataState,    (* MqttHandle_DataState                                     *)
  dataRead,     (* mqtt_DataInfo.dataRead: bytes of the answer to come      *)
  dataRemain,   (* mqtt_DataInfo.dataRemain: bytes still to be moved        *)
  dataSize,     (* mqtt_DataInfo.dataSize: bytes of the whole transfer      *)
  request,      (* mqtt_buffer while it holds the packet to write           *)
  front,        (* The first four bytes of mqtt_buffer                      *)
  packetId,     (* mqtt_publishCfg.PacketId                                 *)
  payload       (* MqttPayload / publishpayload                             *)

VARIABLES
  link,         (* "none": no session; "up"; "closed": by the peer          *)
  inbox,        (* Whole packets the broker has and has not answered        *)
  rx            (* Answer bytes SSL_read has not returned yet               *)

VARIABLES
  delivered,    (* History: the PUBLISHes the broker got on this connection *)
  acked         (* History: readings whose PUBACK the client accepted       *)

transfer   == <<dataRead, dataRemain, dataSize>>
clientVars == <<state, nextState, dataState, transfer, request, front, packetId>>
wireVars   == <<link, inbox, rx>>
vars       == <<clientVars, payload, wireVars, delivered, acked>>

-----------------------------------------------------------------------------
(* Packets.  A request is what the broker makes of its bytes; an answer is   *)
(* the bytes themselves, since the client compares them one by one.          *)

PacketIds == 0 .. (PacketIdCount - 1)
NextId(i) == (i + 1) % PacketIdCount
Byte      == 0 .. 255

CONNACK_TYPE  == 32
PUBACK_TYPE   == 64
PINGRESP_TYPE == 208

NoPacket         == [type |-> "NONE"]
ConnectPacket    == [type |-> "CONNECT"]
PingreqPacket    == [type |-> "PINGREQ"]
PublishPacket(i) == [type |-> "PUBLISH", id |-> i, reading |-> payload]
Publishes        == [type : {"PUBLISH"}, id : PacketIds, reading : Readings \cup {NoReading}]
Requests         == {ConnectPacket, PingreqPacket} \cup Publishes

(* The first byte of a packet the client writes: 0x10, 0xC0, 0x32.           *)
TypeByte(p) ==
  CASE p.type = "CONNECT" -> 16 [] p.type = "PINGREQ" -> 192 [] OTHER -> 50

(* The state the answer to a packet is interpreted in, and its length.       *)
AnswerState(p) ==
  CASE p.type = "CONNECT" -> "CONNACK"
    [] p.type = "PINGREQ" -> "PINGRESP"
    [] OTHER -> "PUBACK"
AnswerLen(p) == IF p.type = "PINGREQ" THEN 2 ELSE 4

ConnackBytes(present, code) == <<CONNACK_TYPE, 2, present, code>>
PubackBytes(i)              == <<PUBACK_TYPE, 2, i \div 256, i % 256>>
PingrespBytes               == <<PINGRESP_TYPE, 0>>

(* The answer MQTT 3.1.1 gives a request in a clean session.  To a PUBLISH   *)
(* with identifier 0, which it does not allow, a broker may give none: see   *)
(* PeerCloses.                                                               *)
ProperAnswer(p) ==
  CASE p.type = "CONNECT" -> ConnackBytes(0, 0)
    [] p.type = "PINGREQ" -> PingrespBytes
    [] p.type = "PUBLISH" -> PubackBytes(p.id)

AllAnswers ==
  {ConnackBytes(s, c) : s \in {0, 1}, c \in {0, 5}}
    \cup {PingrespBytes} \cup {PubackBytes(i) : i \in PacketIds}

Answers(p) == IF BrokerErrs THEN AllAnswers ELSE {ProperAnswer(p)}

-----------------------------------------------------------------------------
(* The checks the client makes of the answer in its buffer.                  *)

(* SSL_Mqtt_Connack: the return code, byte 4, is not looked at.              *)
Connack == front[1] = CONNACK_TYPE /\ front[2] = 2 /\ front[3] = 0

(* SSL_Mqtt_Puback, as it compares; QoS is fixed at 1 by mqtt_publishCfg.    *)
Puback ==
  /\ front[1] = PUBACK_TYPE
  /\ front[2] = 2
  /\ front[3] = packetId \div 256
  /\ front[4] = packetId % 256

PingrespReceived ==
  dataRead = 2 /\ front[1] = PINGRESP_TYPE /\ front[2] = 0

-----------------------------------------------------------------------------
(* A case that creates a packet: the packet is in the buffer, all of it is   *)
(* still to be written, and what is to be read and interpreted afterwards is *)
(* set.  Of a request only byte 1 is kept in front: no check accepts it.     *)
CreateMessage(packet, len, answerLen, next) ==
  /\ request'   = packet
  /\ front'     = [front EXCEPT ![1] = TypeByte(packet)]
  /\ dataRead' = answerLen /\ dataRemain' = len /\ dataSize' = len
  /\ state'     = "WRITE"
  /\ nextState' = next

AppConnect ==
  /\ state = "CONNECT"
  /\ CreateMessage(ConnectPacket, ConnectLen, 4, "CONNACK")
  /\ UNCHANGED <<dataState, packetId, payload, wireVars, delivered, acked>>

AppConnack ==
  /\ state = "CONNACK"
  /\ IF Connack
       THEN dataState' = "IDLE" /\ state' = "PINGREQ"
       ELSE state' = "CONNECT" /\ UNCHANGED dataState
  /\ UNCHANGED <<nextState, transfer, request, front, packetId, payload, wireVars, delivered, acked>>

AppPingreq(isWrite) ==
  /\ state = "PINGREQ"
  /\ IF isWrite
       THEN state' = "PUBLISH" /\ UNCHANGED <<nextState, transfer, request, front>>
       ELSE CreateMessage(PingreqPacket, 2, 2, "PINGRESP")
  /\ UNCHANGED <<dataState, packetId, payload, wireVars, delivered, acked>>

AppPingresp ==
  /\ state = "PINGRESP"
  /\ IF PingrespReceived
       THEN state' = "PINGREQ" /\ nextState' = "PINGRESP"
       ELSE state' = "CONNECT" /\ UNCHANGED nextState
  /\ UNCHANGED <<dataState, transfer, request, front, packetId, payload, wireVars, delivered, acked>>

AppPublish ==
  /\ state = "PUBLISH"
  /\ dataState' = "SENDING"
  /\ CreateMessage(PublishPacket(packetId), PublishLen, 4, "PUBACK")
  /\ UNCHANGED <<packetId, payload, wireVars, delivered, acked>>

(* Seeded faults of AppPuback: the identifier does not wrap; it moves on     *)
(* only when the answer matched; an answer that does not match is retried.   *)
AppPubackNoWrap ==
  /\ state = "PUBACK"
  /\ packetId' = packetId + 1
  /\ IF Puback
       THEN dataState' = "IDLE" /\ state' = "PINGREQ" /\ acked' = acked \cup {request.reading}
       ELSE state' = "CONNECT" /\ UNCHANGED <<dataState, acked>>
  /\ UNCHANGED <<nextState, transfer, request, front, payload, wireVars, delivered>>

AppPubackOnMatch ==
  /\ state = "PUBACK"
  /\ packetId' = IF Puback THEN NextId(packetId) ELSE packetId
  /\ IF Puback
       THEN dataState' = "IDLE" /\ state' = "PINGREQ" /\ acked' = acked \cup {request.reading}
       ELSE state' = "CONNECT" /\ UNCHANGED <<dataState, acked>>
  /\ UNCHANGED <<nextState, transfer, request, front, payload, wireVars, delivered>>

AppPubackRetries ==
  /\ state = "PUBACK"
  /\ packetId' = NextId(packetId)
  /\ IF Puback
       THEN dataState' = "IDLE" /\ state' = "PINGREQ" /\ acked' = acked \cup {request.reading}
       ELSE state' = "PUBLISH" /\ UNCHANGED <<dataState, acked>>
  /\ UNCHANGED <<nextState, transfer, request, front, payload, wireVars, delivered>>

(* PacketId moves on whether or not the answer matched.                      *)
AppPuback ==
  /\ state = "PUBACK"
  /\ packetId' = NextId(packetId)
  /\ IF Puback
       THEN /\ dataState' = "IDLE"
            /\ state' = "PINGREQ"
            /\ acked' = acked \cup {request.reading}
       ELSE /\ state' = "CONNECT"
            /\ UNCHANGED <<dataState, acked>>
  /\ UNCHANGED <<nextState, transfer, request, front, payload, wireVars, delivered>>

(* Seeded fault: dataSize is not set for the answer.                         *)
WriteChunkKeepsSize(k) ==
  /\ state = "WRITE"
  /\ k \in 1 .. dataRemain
  /\ IF k = dataRemain
       THEN /\ dataRemain' = dataRead
            /\ state' = "READ"
       ELSE /\ dataRemain' = dataRemain - k
            /\ UNCHANGED state
  /\ inbox' = IF k = dataRemain THEN Append(inbox, request) ELSE inbox
  /\ UNCHANGED <<nextState, dataState, dataRead, dataSize, request, front, packetId, payload, link, rx,
                 delivered, acked>>

(* SSL_write took k bytes.  With the last of them the broker has the packet, *)
(* unless the link is closed: the bytes then go nowhere.                     *)
WriteChunk(k) ==
  /\ state = "WRITE"
  /\ k \in 1 .. dataRemain
  /\ IF k = dataRemain
       THEN /\ dataSize' = dataRead /\ dataRemain' = dataRead
            /\ state' = "READ"
            /\ IF link = "up"
                 THEN /\ inbox' = Append(inbox, request)
                      /\ delivered' = IF request.type = "PUBLISH"
                                        THEN Append(delivered, request)
                                        ELSE delivered
                 ELSE UNCHANGED <<inbox, delivered>>
       ELSE /\ dataRemain' = dataRemain - k
            /\ UNCHANGED <<state, dataSize, inbox, delivered>>
  /\ UNCHANGED <<nextState, dataState, dataRead, request, front, packetId, payload, link, rx, acked>>

(* Seeded fault: the answer is taken to be complete after the first read.    *)
ReadChunkOnce(k) ==
  LET bufIdx == dataSize - dataRemain IN
  /\ state = "READ"
  /\ k \in 1 .. dataRemain
  /\ k <= Len(rx)
  /\ front' = [i \in 1 .. 4 |-> IF i \in (bufIdx + 1) .. (bufIdx + k)
                                  THEN rx[i - bufIdx] ELSE front[i]]
  /\ rx' = SubSeq(rx, k + 1, Len(rx))
  /\ dataRemain' = dataRemain - k
  /\ state' = nextState
  /\ UNCHANGED <<nextState, dataState, dataRead, dataSize, request, packetId, payload, link, inbox, delivered, acked>>

(* SSL_read returned k bytes: they land at dataSize - dataRemain.            *)
ReadChunk(k) ==
  LET bufIdx == dataSize - dataRemain IN
  /\ state = "READ"
  /\ k \in 1 .. dataRemain
  /\ k <= Len(rx)
  /\ front' = [i \in 1 .. 4 |-> IF i \in (bufIdx + 1) .. (bufIdx + k)
                                  THEN rx[i - bufIdx] ELSE front[i]]
  /\ rx' = SubSeq(rx, k + 1, Len(rx))
  /\ dataRemain' = dataRemain - k
  /\ state' = IF k = dataRemain THEN nextState ELSE state
  /\ UNCHANGED <<nextState, dataState, dataRead, dataSize, request, packetId, payload, link, inbox, delivered, acked>>

(* Seeded fault: a closed link is answered with a new CONNECT.               *)
TransferReconnects ==
  /\ state \in {"WRITE", "READ"}
  /\ state' = IF link = "closed" THEN "CONNECT" ELSE state
  /\ UNCHANGED <<nextState, dataState, transfer, request, front, packetId, payload,
                 wireVars, delivered, acked>>

(* SSL_write or SSL_read moved nothing: -2 to retry, any other error, 0 for  *)
(* a closed peer.  Both handlers report "not finished" and keep everything.  *)
(* Over a reset link that is the first SSL_write only: the next one raises   *)
(* SIGPIPE, which ends the process (MqttBroker, Killed).                     *)
TransferRetry ==
  /\ state \in {"WRITE", "READ"}
  /\ UNCHANGED vars

App(isWrite) ==
  /\ link # "none"
  /\ \/ AppConnect \/ AppConnack \/ AppPingreq(isWrite) \/ AppPingresp
     \/ AppPublish \/ AppPuback
     \/ \E k \in 1 .. dataRemain : WriteChunk(k)
     \/ \E k \in 1 .. dataRemain : ReadChunk(k)
     \/ TransferRetry

-----------------------------------------------------------------------------
(* The environment: the broker, the link and the process that calls.         *)

BrokerAnswers ==
  /\ link = "up"
  /\ inbox # << >>
  /\ \E a \in Answers(Head(inbox)) :
       /\ Len(rx) + Len(a) <= MaxRx
       /\ rx' = rx \o a
  /\ inbox' = Tail(inbox)
  /\ UNCHANGED <<clientVars, payload, link, delivered, acked>>

(* The client numbers its PUBLISHes from 0, and comes back to 0 when the     *)
(* identifier wraps; a broker need not put up with it.                       *)
ZeroIdPending ==
  inbox # << >> /\ Head(inbox).type = "PUBLISH" /\ Head(inbox).id = 0

(* The peer closes.  Bytes on their way may still arrive (close_notify comes *)
(* after them) or be lost (reset).                                           *)
PeerCloses ==
  /\ LinkCloses \/ ZeroIdPending
  /\ link = "up"
  /\ link' = "closed"
  /\ rx' \in {rx, << >>}
  /\ inbox' = << >>
  /\ UNCHANGED <<clientVars, payload, delivered, acked>>

NoBytes == <<0, 0, 0, 0>>

(* A new process: its static initialisers, then MqttHandle_Init, in which    *)
(* ssl_init, tcp_connect and ssl_handshake all succeeded.                    *)
Open ==
  /\ link = "none"
  /\ link' = "up"
  /\ inbox' = << >> /\ rx' = << >>
  /\ delivered' = << >> /\ acked' = {}
  /\ payload' = NoReading
  /\ state' = "CONNECT" /\ nextState' = "CONNECT" /\ dataState' = "INIT"
  /\ dataRead' = 0 /\ dataRemain' = 0 /\ dataSize' = 0 /\ request' = NoPacket /\ front' = NoBytes
  /\ packetId' = 0

(* The process ends, through MqttHandle_DeInit or by dying; the statics of   *)
(* the next one are set when it opens its link.                              *)
Close ==
  /\ link # "none"
  /\ link' = "none"
  /\ inbox' = << >> /\ rx' = << >>
  /\ payload' = NoReading
  /\ UNCHANGED <<clientVars, delivered, acked>>

(* MqttHandle_ResetPayload and MqttHandle_AppendPayload, one after the other *)
(* in the only place that appends.                                           *)
SetPayload(r) ==
  /\ link # "none"
  /\ dataState = "IDLE"
  /\ payload' = r
  /\ UNCHANGED <<clientVars, wireVars, delivered, acked>>

Init ==
  /\ state = "CONNECT" /\ nextState = "CONNECT" /\ dataState = "INIT"
  /\ dataRead = 0 /\ dataRemain = 0 /\ dataSize = 0 /\ request = NoPacket /\ front = NoBytes
  /\ packetId = 0
  /\ payload = NoReading
  /\ link = "none"
  /\ inbox = << >> /\ rx = << >>
  /\ delivered = << >> /\ acked = {}

Next ==
  \/ \E isWrite \in BOOLEAN :
       /\ isWrite => Len(delivered) < MaxDelivered
       /\ App(isWrite)
  \/ BrokerAnswers
  \/ PeerCloses
  \/ Open
  \/ Close
  \/ \E r \in Readings : SetPayload(r)

Spec == Init /\ [][Next]_vars

-----------------------------------------------------------------------------
TypeOK ==
  /\ state \in {"CONNECT", "CONNACK", "PINGREQ", "PINGRESP", "PUBLISH", "PUBACK", "WRITE", "READ"}
  /\ nextState \in {"CONNECT", "CONNACK", "PINGRESP", "PUBACK"}
  /\ dataState \in {"INIT", "IDLE", "SENDING"}
  /\ dataRead \in {0, 2, 4} /\ dataRemain \in Nat /\ dataSize \in Nat
  /\ request \in Requests \cup {NoPacket}
  /\ front \in [1 .. 4 -> Byte]
  /\ packetId \in PacketIds
  /\ payload \in Readings \cup {NoReading}
  /\ link \in {"none", "up", "closed"}
  /\ inbox \in Seq(Requests)
  /\ rx \in Seq(Byte)
  /\ delivered \in Seq(Publishes)
  /\ acked \subseteq Readings \cup {NoReading}

(* What is read back always fits what was asked: whatever the fragmentation  *)
(* of writes and reads, the offset dataSize - dataRemain stays inside the    *)
(* packet being written or the answer being read, and the state the answer   *)
(* is interpreted in agrees with its length (SSL_MqttWriteHandler,           *)
(* SSL_MqttReadHandler, MqttHandle_App).                                     *)
TransferInBounds ==
  /\ state \in {"WRITE", "READ"} =>
       /\ dataRemain \in 1 .. dataSize
       /\ nextState = AnswerState(request)
       /\ dataRead = AnswerLen(request)
  /\ state = "READ" => dataSize = dataRead

(* The PUBLISHes of a connection carry packet identifiers 0, 1, 2, ...       *)
(* around the 16 bits: none is skipped or reused early, although it is       *)
(* advanced in SSL_Mqtt_Puback, several calls after the packet was made,     *)
(* and whatever the broker answered in between.                              *)
PacketIdsInOrder ==
  /\ delivered # << >> => delivered[1].id = 0
  /\ \A i \in 1 .. (Len(delivered) - 1) : delivered[i + 1].id = NextId(delivered[i].id)

(* A broker that answers each packet properly finds a proper client: at most *)
(* one packet awaits its answer, none is being written while one does, and   *)
(* an interpreted answer is the answer to the last packet written.  Nothing  *)
(* is left on the link between an answer and the next packet.                *)
RequestResponse ==
  ~BrokerErrs =>
    /\ Len(inbox) <= 1
    /\ state # "READ" => inbox = << >> /\ rx = << >>
    /\ state = "CONNACK" => Connack
    /\ state = "PINGRESP" => PingrespReceived
    /\ state = "PUBACK" => Puback
=============================================================================
