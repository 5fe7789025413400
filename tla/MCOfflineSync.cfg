CONSTANTS
  Users = {ann, bob}
  Owner = ann
  NoUser = NoUser
  MaxLevel = 2
  MaxRecords = 2
  MaxDrops = 1
  MaxMishaps = 2
SPECIFICATION Spec
CHECK_DEADLOCK FALSE
INVARIANTS
  TypeOK
  CreditedOnce
  ChainKept
PROPERTIES
  SafeDeparture
  TokenKept
  EveryPlayIsJudged
  SessionReturns
