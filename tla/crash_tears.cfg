CONSTANTS
    c1 = c1
    c2 = c2
    s1 = s1
    s2 = s2
    s3 = s3
    a = a
    b = b
    d = d
    f = f
    NoSuchCourse = NoSuchCourse
    Dropped = Dropped
    NoThread = NoThread
    Course <- OneCourse
    Student = {s1, s2}
    StudentSession = {a, b}
    FacultySession = {}
    Account <- OwnSessions2
    Teaches <- NoTeaching
    InitialSeats <- TwoSeats
    NewMaxSeats <- NoLimits
    MaxCourses = 10
    Menu = {"enroll"}
    FilesCanFail = FALSE
    MaxCalls <- TwoEach
    MaxCrashes = 1

SPECIFICATION Spec
INVARIANTS
    SeatsMatchRecords
