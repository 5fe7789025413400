CONSTANTS
    right = right
    wrong = wrong
    NoPick = NoPick
    Nothing = Nothing
    Users = {ann}
    Reqs = {r1, r2}
    NumRounds = 1
    Kind <- MCKind
    Options <- MCOptions
    Answer = right
    OpenAt = 1
    CloseAt = 2
    Grace = 1
    Patience = 1
    Horizon = 3
    MaxDeploys = 0

SPECIFICATION Spec

INVARIANTS
    OneSecondChance
