\* Two senders that compete for two blocks, each sending three times.
CONSTANTS
  Senders = {a, b}
  BlockCount = 2
  MaxSends = 3
SPECIFICATION FairSpec
INVARIANTS
  TypeOK
  OneOwner
  PushesSucceed
  SenderOrder
PROPERTIES
  PresentIsReceived
  EverythingReceived
  Implements
