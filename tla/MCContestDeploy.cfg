CONSTANTS
    right = right
    wrong = wrong
    NoPick = NoPick
    Nothing = Nothing
    Users = {ann, bob}
    Reqs = {r1, r2}
    NumRounds = 1
    Kind <- MCKind
    Options <- MCOptions
    Answer = right
    OpenAt = 1
    CloseAt = 2
    Grace = 1
    Patience = 1
    Horizon = 3
    MaxDeploys = 1

SPECIFICATION Spec

INVARIANTS
    IdenticalQuestions
