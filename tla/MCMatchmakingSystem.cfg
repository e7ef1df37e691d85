CONSTANTS
  Endpoint = {a, b}
  PlayersPerMatch = 2
  MaxAttempts = 1
  MAX_RETRIES = 0
  MaxMatchID = 2
  QueueBound = 2
  Searched = {"NORMAL"}
  None = None
  Earlier = Earlier
SPECIFICATION SystemSpec
SYMMETRY Players2
INVARIANTS SeatsAgree SessionsAreKnown
