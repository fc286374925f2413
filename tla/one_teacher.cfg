CONSTANTS
    f = f
    g = g
    a = a
    b = b
    x = x
    y = y
    z = z
    NoThread = NoThread
    NoCode = NoCode
    Teacher = {f}
    Shopper = {a, b}
    Code = {x, y}
    Seats = 2
    ListCap = 100
    FirstCourses <- TwoOfF
    FirstEnrolled <- BInSecond
    FilesCanFail = FALSE
    MaxCalls <- TwoThenOne
    MaxId = 3
    MaxCrashes = 1

SPECIFICATION FairSpec
INVARIANTS
    TypeOK
    OfferedListed
    CoursesDistinct
    OfferedFound
PROPERTIES
    SeatsLostOnlyBy
    EveryCallReturns
