SPECIFICATION ApiSpec
CONSTANTS
    ana = ana  spaces = spaces  addr = addr  noAddr = noAddr  junk = junk
    Nothing = Nothing
    Junk = junk
    Ids = {1, 2, 3}
    CPFs <- Valid
    Infos <- FitInfos
    ListParams <- Pages
    Stored <- OneStudent
    Names = {ana, spaces}
    Blank = {spaces}
    Emails = {addr, noAddr}
    Addresses = {addr}
    Ages <- SomeAges
    Numbers <- Written
    Bodies <- AllBodies
    PathIds = {1, 2, 3, 4}
    MaxId = 3
    Queries <- AllQueries
    DefaultLimit = 2
    MaxLimit = 2
INVARIANTS TypeOK RowsShareNoCPF OnlyFitRows WalkMissesNobody WalkRepeatsNobody
PROPERTIES RefusedOnlyIfUnfit ServesTheRegistry
