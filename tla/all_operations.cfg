CONSTANTS
    c1 = c1
    c2 = c2
    s1 = s1
    s2 = s2
    s3 = s3
    a = a
    b = b
    d = d
    f = f
    NoSuchCourse = NoSuchCourse
    Dropped = Dropped
    NoThread = NoThread
    Course <- TwoCourses
    Student = {s1}
    StudentSession = {a, b}
    FacultySession = {f}
    Account <- SharedOnly
    Teaches <- FTeaches
    InitialSeats <- TwoOrNegative
    NewMaxSeats <- Limits
    MaxCourses = 1
    Menu = {"enroll", "drop", "edit"}
    FilesCanFail = TRUE
    MaxCalls <- ATwice
    MaxCrashes = 1

SPECIFICATION Spec
INVARIANTS
    TypeOK
    LockDiscipline
    SeatsNonNegative
    NoDuplicateEnrollment
    EnrollmentIdsDense
    StudentListBounded
    CancelsOwnRecord
PROPERTIES
    HistoryKept
    SeatsLostOnlyBy
VIEW Underway
