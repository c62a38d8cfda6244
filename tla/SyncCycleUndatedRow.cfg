\* Two lawyers: a run that dies between two chunks of its listing.
SPECIFICATION Spec
CONSTANTS
    Lawyers = {l1, l2}
    Trip = 2
    Cooldown = 1
    Logins = 2
CHECK_DEADLOCK FALSE
PROPERTIES
    FreshIsSkipped
