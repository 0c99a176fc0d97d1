CONSTANTS
    Absent = Absent
    Bare = Bare
    here = here
    elsewhere = elsewhere
    repo = repo
    prebuilt = prebuilt
    home = home
    c1 = c1
    c2 = c2
    Scripts <- SomeScripts
    Directories = {repo}
    Percents = {8999, 9000, 9001}
    Prebuilt = {prebuilt}
    ProxyBin = ProxyBin
    DefaultListen = DefaultListen
    DefaultHttp = DefaultHttp
    DefaultBoard = DefaultBoard
    ProxyListen = DefaultListen
    ProxyHttp = DefaultHttp
    Ids <- SomeIds
    Cwds = {home}
    Clients <- Pairs
    Starts = {c1, c2}
    MaxPid = 2
SPECIFICATION FairSpec
CHECK_DEADLOCK FALSE
INVARIANTS
    TypeOK
    OwnArtefacts
    LaunchedAsAsked
    SeededAsAsked
    DirsApart
    OrphanMeansCrash
PROPERTIES
    ProxyEnds
