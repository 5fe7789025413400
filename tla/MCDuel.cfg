CONSTANTS
    Duels = {d1}
    Reqs = {r1, r2}
    Jobs = {job}
    NormalRounds = 3
    RoundsToWin = 2
    SuddenDeath = 1
    EntryGems <- MCEntry
    PoolGems <- MCPool
    UnlockWins <- MCUnlock
    StartGems = 1
    Plays <- MCPlays

SPECIFICATION FairSpec

INVARIANTS
    TypeOK
    GemsAddUp
    WinsPaidOnce
    RoundsInOrder
    NeverHangs

PROPERTIES
    NeverReopened
    EveryDuelEnds

CHECK_DEADLOCK FALSE
