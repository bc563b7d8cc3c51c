CONSTANTS
  hostA = hostA
  hostB = hostB
  A = A
  AAAA = AAAA
  Names <- MCNames
  Zones <- MCZones
  Kinds = {A, AAAA}
  Ttls = {1, 2}
  Capacities = {1, 2}
  Timeout = 2
  BaseDelay = 1
  MaxAttempts = 2
  DNS_MAX_ALIAS_DEPTH = 16
  Nothing = Nothing
  Error = Error
  SeqSpace = 16
  Mss = 2
  SendCapacity = 2
  ReceiveCapacity = 2
  MaxInFlight = 2
  ClientBytes = 2
  ServerBytes = 1
  TotalBytes = 2
  Handles = {h1, h2, h3, h4}
  Backlogs = {1, 2}
  Capacity = 4
  Threads = {1, 2}
  Numbers = {1, 2, 3, 4, 5, 6, 7}
  MaxKept = 0
SPECIFICATION SpecAll
SYMMETRY Symmetry
INVARIANTS
  AnswersHold
  StreamIntegrity
  OrderlyClose
  BacklogAccountsForAll
  HandlesSettled
  AttachedWithinSource
CHECK_DEADLOCK FALSE
