CONSTANTS
    Duels = {d1}
    Reqs = {r1, r2}
    Jobs = {job}
    NormalRounds = 3
    RoundsToWin = 2
    SuddenDeath = 1
    EntryGems <- MCEntry
    PoolGems <- MCPool
    UnlockWins <- MCUnlock
    StartGems = 1
    Plays <- MCPlays

SPECIFICATION Spec

INVARIANT
    FirstToWin

CHECK_DEADLOCK FALSE
