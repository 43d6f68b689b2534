SPECIFICATION FairSpec
CONSTANTS
  Entry = {"r1", "r4"}
  MessageId = {"i", "j"}
  Body = {"x", "y"}
  NoBody = NoBody
  IdOf <- MCId
  BodyOf <- MCBody
  FormOf <- MCForm
  EpochOf <- MCEpoch
  Commands = {"i"}
  Worker = {w1, w2}
  FetchBatch = 2
  MaxInFlight = 2
  Epoch = {1, 2}
  Fenced = TRUE
PROPERTIES
  EventuallyAcknowledged
  MalformedIsRejected
