\* Three lawyers, two refusals trip.
SPECIFICATION FairSpec
CONSTANTS
    Lawyers = {l1, l2, l3}
    Trip = 2
    Cooldown = 1
    Logins = 2
CHECK_DEADLOCK FALSE
INVARIANTS
    TypeOK
    BlockIsSilent
PROPERTIES
    TripOnlyOnRejections
    NoOneLeftOut
    StalenessIsFair
