CONSTANTS
  nick = nick
  pass = pass
  other = other
  Connection = {a, b}
  Nickname = {nick}
  Password = {pass, other}
  Empty = Empty
  None = None
  Offered <- Commands
  SelectorLimit = 3
  Room = 1
  MaxCommands = 3
  MaxRestarts = 1
SPECIFICATION Spec
INVARIANTS TypeOK OneOwner
PROPERTIES AnswersAsPromised
SYMMETRY Symmetry
