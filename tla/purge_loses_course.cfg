CONSTANTS
    f = f
    g = g
    a = a
    b = b
    x = x
    y = y
    z = z
    NoThread = NoThread
    NoCode = NoCode
    Teacher = {f, g}
    Shopper = {}
    Code = {x, y, z}
    Seats = 2
    ListCap = 100
    FirstCourses <- OneOfEach
    FirstEnrolled <- Nobody
    FilesCanFail = FALSE
    MaxCalls <- OneEach
    MaxId = 3
    MaxCrashes = 0

SPECIFICATION Spec
INVARIANTS
    OfferedListed
