SPECIFICATION FairSpec
CONSTANTS
    a = a  b = b  c = c
    c1 = c1  n1 = n1
    Gen0 = g0
    Nothing = Nothing
    Ids = {1, 2}
    CPFs = {c1}
    Infos = {n1}
    ListParams <- FirstActive
    Requests = {a, b, c}
    May <- ReaderAndWriters
    Uncached = {c}
    Faults = {"get", "genGet", "del", "bump", "abandon"}
    Gens = {g0, g1}
    MaxWrites = 1
    MaxRestarts = 1
    Stored <- OneStudent
INVARIANTS ListCoherent
PROPERTIES EventuallyFresh
