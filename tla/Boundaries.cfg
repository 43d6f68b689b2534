SPECIFICATION BoundarySpec
CONSTANTS
  Width = 20
  Absent = Absent
  None = None
  Invalid = Invalid
  LastNano = 9999
  MaxEpoch = 255
  Services <- MCServices
  BaseSources <- MCBaseSources
  FieldValues <- MCFieldValues
  Coupled <- MCCoupled
  Metadata <- MCMetadata
  MetadataEdits <- MCMetadataEdits
  Payloads <- MCPayloads
  EnvelopeEdits <- MCEnvelopeEdits
  HeaderEdits <- MCHeaderEdits
  Delays = {1, 250, 999, 1000, 1001, 30000, 300000}
  Entropies = {Absent, 0, 1, 250, 29751, 1048575}
  MaxEdits = 2
INVARIANTS
  AcceptedConfigRuns
  OnlyDevTurnsTlsOff
  RetryDelayIsBounded
  StoredMessageIsAccepted
  AcceptedEnvelopeIsCanonical
  HandledAsAddressed
  EveryCommandCanBeAnswered
  IsolationIsTransitive
CHECK_DEADLOCK FALSE
