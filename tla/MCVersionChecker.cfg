CONSTANTS
  BufferSize <- MCBufferSize
  Client = {a}
  Version <- MCVersion
  VersionLine <- MCVersionLine
  DefaultVersion <- MCDefaultVersion
  MapFiles <- MCMapFiles
  Newline = 10
  Noise <- MCNoise
  None = None
  QueueBound = 1
  MaxNoise = 1
SPECIFICATION FairSpec
INVARIANTS TypeOK SettledIsUpToDate
PROPERTIES ClientsSettle
