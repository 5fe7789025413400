SPECIFICATION Spec
CONSTANTS
  Challenger = chal
  Opponent = opp
  Reqs = {r1, r2}
  NormalRounds = 1
  SuddenDeath = 1
  RoundsToWin = 1
  MaxMishaps = 1
INVARIANTS
  TypeOK
  RoundsAgree
  ShownScoreIsReal
  NotLeftWaiting
PROPERTY PlayGoesOn
CHECK_DEADLOCK FALSE
