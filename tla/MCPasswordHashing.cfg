SPECIFICATION Spec
CONSTANTS
  Quarter = 2
  XorByte <- MCXorByte
  initstate <- MCinitstate
  BCRYPT_MAXSALT = 4
  BCRYPT_BLOCKS = 2
  MinLogRounds = 1
  MaxLogRounds = 2
  Repeats = 2
  Magic <- MCMagic
  Passwords <- MCPasswords
  LogRounds = {17}
  Seeds <- MCSeeds
  Buffers <- MCBuffers
  Keys <- MCKeys
  IVs <- MCIVs
  Buffered <- MCBuffered
INVARIANTS TextsAreWhole OwnerIsLetIn OthersAreRefused DamagedTextsAreRefused VerdictIsDefined DecryptionInverts
