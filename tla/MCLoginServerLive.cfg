CONSTANTS
  nick = nick
  pass = pass
  other = other
  Connection = {a, b, c}
  Nickname = {nick}
  Password = {pass, other}
  Empty = Empty
  None = None
  Offered <- OddCommands
  SelectorLimit = 3
  Room = 1
  MaxCommands = 2
  MaxRestarts = 0
SPECIFICATION FairSpec
PROPERTIES CommandsAreTaken
