CONSTANTS
  trust = trust
  revocations = revocations
  Kinds = {trust, revocations}
  MaxVersion = 3
  Snapshots <- MCSnapshots
  Times <- MCTimes
  MaxGeneration = 2
  Nothing = Nothing
  Torn = Torn
SPECIFICATION SpecAll
INVARIANTS
  RoundTrip
  OnlyCanonical
  CommittedSurvives
  EtagOfActiveSnapshot
CHECK_DEADLOCK FALSE
