SPECIFICATION FairSpec
CONSTANTS
    a = a  b = b  c = c
    Replicas = {a, b, c}
    Known <- KnownToEach
    Size = 2
    MaxFaults = 2
INVARIANTS TypeOK AllOrNothing InOrder OnceEach ServesOnItsSchema NobodyWaitsForAWaiter
PROPERTIES ImplementsUpgrades EventuallyServes
\* Every replica serves and no fault is left: the system stops.
CHECK_DEADLOCK FALSE
