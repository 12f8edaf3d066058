SPECIFICATION Spec
CONSTANTS
  Message <- MCMessage
  Protos <- MCProtos
  FieldNames <- MCFieldNames
  Field <- MCField
  Instances <- MCInstances
  PeerMessages <- MCPeerMessages
  Depth = 5
  Second = 2
  ZoneOffset = 1
  FirstTick <- MCFirstTick
  LastTick <- MCLastTick
  Rounding <- MCRounding
INVARIANTS
  PlainModelsRoundTrip
  MessagesCanBeRead
  TimestampsKeepInstant
\* A message is sent once.
CHECK_DEADLOCK FALSE
