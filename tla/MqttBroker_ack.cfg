SPECIFICATION BrokerSpec
CONSTANTS
  ConnectLen = 1
  PublishLen = 2
  PacketIdCount = 2
  Readings = {1, 2, 3}
  NoReading = 0
  BrokerErrs = TRUE
  LinkCloses = FALSE
  Signals = FALSE
  StartLimit = 2
  MaxRx = 4
  MaxDelivered = 4
INVARIANTS
  FinishedIsAcked
