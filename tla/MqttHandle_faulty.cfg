SPECIFICATION Spec
CONSTANTS
  ConnectLen = 2
  PublishLen = 3
  PacketIdCount = 3
  Readings = {r1}
  NoReading = none
  BrokerErrs = TRUE
  LinkCloses = TRUE
  MaxRx = 6
  MaxDelivered = 4
INVARIANTS
  TypeOK
  TransferInBounds
  PacketIdsInOrder
