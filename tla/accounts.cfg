SPECIFICATION FairSpec
CONSTANTS
    p = p  q = q  a = a  b = b  root = root  pw1 = pw1  pw2 = pw2  long = long  s = s
    Nothing = Nothing
    Replicas = {p, q}
    Clients = {a, b}
    MaxBoots = 2
    Names = {root}
    AdminName = root
    Passwords = {pw1, pw2, long}
    Knows <- WhoKnows
    AdminPassword = pw1
    Unhashable = {long}
    Secret = s
    Environments <- Deployments
    MaxFaults = 1
INVARIANTS TypeOK OneAccountPerName CreatedMeansYours OnlyAdminWrites AdminBeforeService GoodEverywhere
PROPERTIES ImplementsBook ShutdownEnds
CHECK_DEADLOCK FALSE
