CONSTANTS
  Radix = 2
  SizeOfInt = 3
  Payloads <- MCPayloads
  Capacity = 5
  MaxMessages = 3
SPECIFICATION FairSpec
CHECK_DEADLOCK FALSE
INVARIANTS
  StreamExact
PROPERTIES
  ImplementsChannel
  SentIsReceived
