SPECIFICATION Spec
CONSTANTS
    a = a  b = b  c = c
    c1 = c1  c2 = c2  n1 = n1  n2 = n2
    Gen0 = g0
    Nothing = Nothing
    Ids = {1, 2}
    CPFs = {c1}
    Infos = {n1}
    ListParams <- FirstActive
    Requests = {a, b, c}
    May <- ListsAndWrites
    Uncached = {}
    Faults = {"get", "set", "del", "db", "genGet", "bump", "abandon"}
    Gens = {g0, g1, g2}
    MaxWrites = 2
    Stored <- OneStudent
INVARIANTS TypeOK ListCoherent ListInv
