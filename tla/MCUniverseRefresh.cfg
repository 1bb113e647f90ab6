CONSTANTS
    a = a  b = b  r1 = r1  r2 = r2
    None = None  Keep = Keep
    Replicas = {r1, r2}
    Symbols = {a, b}
    Memberships <- mcSmall
    HoldUntilExit = TRUE
    ForceAllowed = FALSE
    LastTick = 2
    MaxFailures = 1
SPECIFICATION FairSpec
INVARIANTS OneResolver MembersAudited
PROPERTIES CommitsItsResolution  EveryTickServed
CHECK_DEADLOCK FALSE
