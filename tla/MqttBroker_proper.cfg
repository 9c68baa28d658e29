SPECIFICATION FairSpec
CONSTANTS
  ConnectLen = 1
  PublishLen = 2
  PacketIdCount = 2
  Readings = {1, 2}
  NoReading = 0
  BrokerErrs = FALSE
  LinkCloses = TRUE
  Signals = FALSE
  StartLimit = 2
  MaxRx = 4
  MaxDelivered = 4
INVARIANTS
  RequestResponse
  FinishedIsAcked
PROPERTIES
  FreshReadingReachesBroker
  ClosedLinkIsForever
