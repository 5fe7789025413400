CONSTANTS
    Duels = {d1}
    Reqs = {r1, r2}
    Jobs = {job}
    NormalRounds = 2
    RoundsToWin = 2
    SuddenDeath = 1
    EntryGems <- MCEntry
    PoolGems <- MCPool
    UnlockWins <- MCUnlock
    StartGems = 1
    Plays <- MCPlays

SPECIFICATION Spec

INVARIANT
    AbandonedUnpaid

CHECK_DEADLOCK FALSE
