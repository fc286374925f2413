CONSTANTS
    c = c
    d = d
    Client = {c, d}
    Main = Main
    Reporter = Reporter
    Handler = Handler
    NoThread = NoThread
    MenuOps = {"enroll"}
    RingSize = 1
    LogSize = 2
    RenameCanFail = FALSE
    MaxChoices <- OneChoice
    Menus <- MenusOfC
    LockKinds = {"write"}
    Vanishing = {c}
    Interrupted = {c}

SPECIFICATION FairSpec
INVARIANTS
    TypeOK
    NothingStale
    ClientsCounted
    RingHoldsLatest
    StructuresAgree
    LogKeepsLatest
PROPERTIES
    InterruptEndsServer
    LostMenuEnds
