SPECIFICATION Spec
CONSTANTS
    a = a  b = b
    t1 = t1  t2 = t2  t3 = t3
    Nothing = Nothing
    Tokens = {t1, t2, t3}
    Requests = {a, b}
    Ttl = 1
    MaxTime = 3
    Faults = {}
INVARIANTS LogoutEndsSession
