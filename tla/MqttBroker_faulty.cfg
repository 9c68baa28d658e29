SPECIFICATION BrokerSpec
CONSTANTS
  ConnectLen = 1
  PublishLen = 2
  PacketIdCount = 2
  Readings = {1, 2, 3}
  NoReading = 0
  BrokerErrs = TRUE
  LinkCloses = TRUE
  Signals = TRUE
  StartLimit = 1
  MaxRx = 6
  MaxDelivered = 4
INVARIANTS
  HandOff
  SessionWhole
PROPERTIES
  PayloadStable
  ImplementsFeed
