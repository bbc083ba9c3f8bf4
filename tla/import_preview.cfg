SPECIFICATION FairSpec
CONSTANTS
    Users = {"u1", "u2"}
    Files = {"ab", "bab"}
    Lines <- MCLines
    PreviewIds = {"p1", "p2"}
    Commits = {"c1", "c2", "c3"}
    TTL = 1
    LastTick = 2
INVARIANTS
    CountsExact
    RegisteredOnce
    WholeFiles
    OwedIsCached
PROPERTIES
    ImplementsAtomicImport
    CommitsEnd
