SPECIFICATION FairSpec
CONSTANTS
    a = a  b = b
    t1 = t1  t2 = t2  t3 = t3
    Nothing = Nothing
    Tokens = {t1, t2}
    Requests = {a, b}
    Ttl = 1
    MaxTime = 2
    Faults = {"db", "crash", "abandon"}
INVARIANTS TypeOK ReplacedTokensAreDead
PROPERTIES PurgeSparesUsable OverForGood DeadTokensPurged
