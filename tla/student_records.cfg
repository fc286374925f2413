CONSTANTS
    m = m
    n = n
    a = a
    b = b
    p = p
    q = q
    c1 = c1
    c2 = c2
    NoThread = NoThread
    Admin = {m}
    Session = {a, b}
    Password = {p, q}
    Course = {c1, c2}
    FirstStudents <- OneStudent
    ListCap = 1
    FilesCanFail = TRUE
    MaxCalls <- TwoEach
    MaxId = 2

SPECIFICATION Spec
INVARIANTS
    TypeOK
    IdsDistinct
PROPERTIES
    OthersUntouched
    ChangesLostOnlyBy
    ListsApart
SYMMETRY SessionSymmetry
