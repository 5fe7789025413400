CONSTANTS
    right = right
    wrong = wrong
    NoPick = NoPick
    Nothing = Nothing
    Users = {ann}
    Reqs = {r1, r2}
    NumRounds = 3
    Kind <- MCKind
    Options <- MCOptions
    Answer = right
    OpenAt = 1
    CloseAt = 2
    Grace = 1
    Patience = 1
    Horizon = 3
    MaxDeploys = 1

SPECIFICATION FairSpec

INVARIANTS
    TypeOK
    WellFormed
    ScoreAgrees
    NoLateSubmit

PROPERTIES
    Recorded
    EveryWindowSettles
