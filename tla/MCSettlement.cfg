CONSTANTS
    ann = ann
    bob = bob
    Users <- MCUsers
    NewGuests = {bob}
    Runners = {r1, r2}
    Heartbeats = {r1, r2}
    MaxDeaths = 1
    NumDays = 2
    Week <- MCWeek
    Season <- MCSeason
    Never = Never
    Histories <- MCHistories

SPECIFICATION FairSpec

INVARIANTS
    TypeOK
    RatingFollowsPlaces
    StreakFollowsDays
    GemsMatchPlaces
    SeasonClosedOnce

PROPERTIES
    EveryNightIsDone
