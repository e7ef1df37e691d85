CONSTANTS
  Endpoint = {a, b}
  PlayersPerMatch = 2
  MaxAttempts = 1
  MAX_RETRIES = 1
  MaxMatchID = 1
  QueueBound = 2
SPECIFICATION Spec
INVARIANTS ResendsMatchFound
