CONSTANTS
    c1 = c1
    c2 = c2
    s1 = s1
    s2 = s2
    s3 = s3
    a = a
    b = b
    d = d
    f = f
    NoSuchCourse = NoSuchCourse
    Dropped = Dropped
    NoThread = NoThread
    Course <- OneCourse
    Student = {s1, s2, s3}
    StudentSession = {a, b, d}
    FacultySession = {}
    Account <- OwnSessions3
    Teaches <- NoTeaching
    InitialSeats <- TwoSeats
    NewMaxSeats <- NoLimits
    MaxCourses = 10
    Menu = {"enroll", "drop"}
    FilesCanFail = FALSE
    MaxCalls <- ThreeEach
    MaxCrashes = 0

SPECIFICATION Spec
INVARIANTS
    NoOverbooking
