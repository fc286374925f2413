CONSTANTS
    c1 = c1
    c2 = c2
    s1 = s1
    s2 = s2
    s3 = s3
    a = a
    b = b
    d = d
    f = f
    NoSuchCourse = NoSuchCourse
    Dropped = Dropped
    NoThread = NoThread
    Course <- TwoCourses
    Student = {s1, s2}
    StudentSession = {a, b, d}
    FacultySession = {}
    Account <- SharedSessions
    Teaches <- NoTeaching
    InitialSeats <- OneAndTwoSeats
    NewMaxSeats <- NoLimits
    MaxCourses = 10
    Menu = {"enroll"}
    FilesCanFail = FALSE
    MaxCalls <- TwoEach
    MaxCrashes = 0

SPECIFICATION Spec
INVARIANTS
    SeatsAccounted
    NoOverbooking
PROPERTIES
    ImplementsLedger
