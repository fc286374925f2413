CONSTANTS
    m = m
    n = n
    a = a
    b = b
    p = p
    q = q
    c1 = c1
    c2 = c2
    NoThread = NoThread
    Admin = {m}
    Session = {a}
    Password = {p, q}
    Course = {c1, c2}
    FirstStudents <- TwoStudents
    ListCap = 2
    FilesCanFail = FALSE
    MaxCalls <- TwoEach
    MaxId = 3

SPECIFICATION Spec
PROPERTIES
    NextIdIsHighest
