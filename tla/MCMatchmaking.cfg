CONSTANTS
  Endpoint = {a, b}
  PlayersPerMatch = 2
  MaxAttempts = 1
  MAX_RETRIES = 0
  MaxMatchID = 2
  QueueBound = 2
SPECIFICATION Spec
SYMMETRY Clients
INVARIANTS MatchIDsAreUnique OneGroupPerMatchID
PROPERTIES PlayersAreConserved NonePassedOver
