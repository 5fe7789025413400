CONSTANTS
    ann = ann
    bob = bob
    Users <- MCUsers
    NewGuests = {bob}
    Runners = {r1}
    Heartbeats = {r1}
    MaxDeaths = 1
    NumDays = 2
    Week <- MCWeek
    Season <- MCSeason
    Never = Never
    Histories <- MCHistories

SPECIFICATION Spec

INVARIANTS
    SeasonFinal
