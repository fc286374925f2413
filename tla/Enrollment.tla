------------------------------ MODULE Enrollment ------------------------------
(***************************************************************************)
(* Enrolling in a course, dropping it, and editing its seat limit: the     *)
(* three operations that move seats (utils/file_ops_enrollment.c,          *)
(* controllers/faculty_controller_ops.c), run by the threads of one server *)
(* process, one thread per connected client (server.c, handle_client).     *)
(*                                                                         *)
(* Each session runs one call at a time.  A call is cut where another      *)
(* thread can get in between: at every mutex acquisition and at every      *)
(* access to a shared file.  A single read or write of one record is       *)
(* atomic.  The fcntl locks are not represented: they belong to the        *)
(* process and never make one of its threads wait for another, as the      *)
(* header comment of enroll_student says.  The course catalogue is fixed   *)
(* here and every course is ACTIVE.                                        *)
(***************************************************************************)
EXTENDS Integers, Sequences, FiniteSets, FiniteSetsExt, SequencesExt

CONSTANTS
    Course,           \* ids of the courses in courses.dat, all ACTIVE
    NoSuchCourse,     \* an id a user may type that no course has
    Student,          \* ids of the students in student.dat
    StudentSession,   \* threads serving a logged-in student
    FacultySession,   \* threads serving a logged-in faculty member
    Account,          \* Account[t]: the student logged in on session t
    Teaches,          \* Teaches[t]: the courses of the faculty member on t
    Dropped,          \* the student id (-1) of a cancelled enrollment record
    NoThread,         \* the holder of a free mutex
    InitialSeats,     \* InitialSeats[c]: max_seats of course c at the start, any
                      \* number its teacher typed (atoi)
    NewMaxSeats,      \* seat limits a faculty member may type
    MaxCourses,       \* length of the array Student.enrolled_courses (10)
    Menu,             \* menu entries used: a subset of {"enroll","drop","edit"}
    FilesCanFail,     \* TRUE if open, fcntl, read and write may report an error
    MaxCalls,         \* bound: MaxCalls[t] calls are made by session t
    MaxCrashes        \* bound: times the process dies and is restarted

Thread == StudentSession \cup FacultySession

ASSUME SessionsAssumption ==
    /\ StudentSession \cap FacultySession = {}
    /\ NoThread \notin Thread
    /\ Account \in [StudentSession -> Student]
    /\ Teaches \in [FacultySession -> SUBSET Course]
ASSUME DataAssumption ==
    /\ NoSuchCourse \notin Course
    /\ Dropped \notin Student
    /\ InitialSeats \in [Course -> Int]
    /\ NewMaxSeats \subseteq Int
    /\ MaxCourses \in Nat
ASSUME BoundsAssumption ==
    /\ Menu \subseteq {"enroll", "drop", "edit"}
    /\ FilesCanFail \in BOOLEAN
    /\ MaxCalls \in [Thread -> Nat]
    /\ MaxCrashes \in Nat

VARIABLES
    courses,      \* courses.dat: seat limit and free seats of each course
    enrollments,  \* enrollments.dat: the records in file order
    students,     \* student.dat: enrolled_courses of each student
    owner,        \* the thread holding each of the three mutexes
    pc,           \* where each thread is
    call,         \* the last call of each session
    answer,       \* the status code of that call, once it returned
    snap,         \* local Course course: the call's copy of a course record
    list,         \* local Student student: the call's copy of enrolled_courses
    slot,         \* next_id of an enroll; index of the record found by a drop
    calls,        \* calls made so far by each session
    crashes,      \* crashes so far
    blind         \* history: the places in enrollments.dat that were filled, or
                  \* are about to be, after a scan that a failing read cut short

files  == <<courses, enrollments, students>>
locals == <<snap, list, slot>>
vars   == <<courses, enrollments, students, owner, pc, call, answer,
            snap, list, slot, calls, crashes, blind>>

-----------------------------------------------------------------------------
(* Where a thread can be, and which mutexes it holds there.                *)

EnrollSteps == {"waitCourse", "readCourse", "waitEnroll", "scan", "append",
                "takeSeat", "waitStudent", "reread", "addToList"}
DropSteps   == {"getCourse", "waitEnrollToDrop", "findRecord", "markDropped",
                "waitCourseToReturn", "returnSeat", "waitStudentToRemove",
                "rereadToRemove", "removeFromList"}
EditSteps   == {"getCourseToEdit", "editing"}
Steps       == {"idle"} \cup EnrollSteps \cup DropSteps \cup EditSteps

Mutex == {"course", "enroll", "student"}

(* Between which steps each mutex is held.                                 *)
Holds(step, m) ==
    \/ /\ m = "course"
       /\ step \in {"readCourse", "waitEnroll", "scan", "append", "takeSeat",
                    "returnSeat"}
    \/ /\ m = "enroll"
       /\ step \in {"scan", "append", "findRecord", "markDropped"}
    \/ /\ m = "student"
       /\ step \in {"reread", "addToList", "rereadToRemove", "removeFromList"}

SeatRecord == [max : Int, avail : Int]
NoRecord   == [max |-> 0, avail |-> 0]   \* a local not assigned yet
EnrollmentRecord ==
    [id : Nat, student : Student \cup {Dropped}, course : Course]
Call       == [op : {"none", "enroll", "drop", "edit"},
               course : Course \cup {NoSuchCourse}]
NoCall     == [op |-> "none", course |-> NoSuchCourse]
Codes      == {"none", "SUCCESS", "FAILURE", "USER_NOT_FOUND", "COURSE_NOT_FOUND",
               "COURSE_FULL", "ALREADY_ENROLLED", "NOT_ENROLLED"}

(* enrollments[i] is a live enrollment of student s in course c.           *)
IsRecordOf(i, s, c) == /\ enrollments[i].student = s
                       /\ enrollments[i].course = c

OnRoster(s, c) == \E i \in DOMAIN enrollments : IsRecordOf(i, s, c)

-----------------------------------------------------------------------------
Init ==
    /\ courses = [c \in Course |->
                     [max |-> InitialSeats[c], avail |-> InitialSeats[c]]]
    /\ enrollments = << >>
    /\ students = [s \in Student |-> << >>]
    /\ owner = [m \in Mutex |-> NoThread]
    /\ pc = [t \in Thread |-> "idle"]
    /\ call = [t \in Thread |-> NoCall]
    /\ answer = [t \in Thread |-> "none"]
    /\ snap = [t \in Thread |-> NoRecord]
    /\ list = [t \in Thread |-> << >>]
    /\ slot = [t \in Thread |-> 0]
    /\ calls = [t \in Thread |-> 0]
    /\ crashes = 0
    /\ blind = {}

Goto(t, step) == pc' = [pc EXCEPT ![t] = step]

(* Mutant: fcntl alone, which does not make threads of a process wait.     *)
AcquireFcntlOnly(t, m) == owner' = [owner EXCEPT ![m] = t]
Acquire(t, m) == /\ owner[m] = NoThread
                 /\ owner' = [owner EXCEPT ![m] = t]

(* Mutant: a return path that holds two mutexes releases only one of them. *)
ReleaseInner(ms) ==
    owner' = [m \in Mutex |-> IF m \in ms /\ (m = "course" => "enroll" \notin ms)
                              THEN NoThread ELSE owner[m]]
Release(ms) == owner' = [m \in Mutex |-> IF m \in ms THEN NoThread ELSE owner[m]]

(* The call returns code; its locals go out of scope.                      *)
Return(t, code) == /\ Goto(t, "idle")
                   /\ answer' = [answer EXCEPT ![t] = code]
                   /\ snap' = [snap EXCEPT ![t] = NoRecord]
                   /\ list' = [list EXCEPT ![t] = << >>]
                   /\ slot' = [slot EXCEPT ![t] = 0]

(* A file that cannot be opened or locked is a FAILURE.  A read that fails *)
(* is none: every loop takes it for the end of the file, and the answer is *)
(* that what was looked for is not there.                                  *)
GiveUp(t, missing) ==
    FilesCanFail /\ (Return(t, "FAILURE") \/ Return(t, missing))

(* An idle session starts a call for the course id its user typed.         *)
Begin(t, op, c) == /\ pc[t] = "idle"
                   /\ op \in Menu
                   /\ calls[t] < MaxCalls[t]
                   /\ calls' = [calls EXCEPT ![t] = @ + 1]
                   /\ call' = [call EXCEPT ![t] = [op |-> op, course |-> c]]

(* The first thing enroll_student and unenroll_student do.                 *)
ReadStudent(t) == /\ list' = [list EXCEPT ![t] = students[Account[t]]]
                  /\ answer' = [answer EXCEPT ![t] = "none"]
                  /\ UNCHANGED <<snap, slot>>

-----------------------------------------------------------------------------
(* enroll_student *)

(* The student record is read before any mutex is taken; this copy is      *)
(* looked at again only after the seat has been taken.                     *)
BeginEnroll(t, c) ==
    /\ Begin(t, "enroll", c)
    /\ \/ GiveUp(t, "USER_NOT_FOUND")
       \/ ReadStudent(t) /\ Goto(t, "waitCourse")
    /\ UNCHANGED <<files, owner, crashes, blind>>

LockCourse(t) ==
    /\ pc[t] = "waitCourse"
    /\ Acquire(t, "course")
    /\ Goto(t, "readCourse")
    /\ UNCHANGED <<files, call, answer, locals, calls, crashes, blind>>

(* Mutant: off by one in the seat check.                                   *)
HasSeatOrNone(c) == courses[c].avail >= 0
HasSeat(c)       == courses[c].avail > 0

(* Re-read the course under the mutex and check that it has a seat.        *)
ReadCourse(t) ==
    LET c == call[t].course IN
    /\ pc[t] = "readCourse"
    /\ \/ /\ \/ GiveUp(t, "COURSE_NOT_FOUND")
             \/ c \notin Course /\ Return(t, "COURSE_NOT_FOUND")
             \/ c \in Course /\ ~HasSeat(c) /\ Return(t, "COURSE_FULL")
          /\ Release({"course"})
       \/ /\ c \in Course
          /\ HasSeat(c)
          /\ snap' = [snap EXCEPT ![t] = courses[c]]
          /\ Goto(t, "waitEnroll")
          /\ UNCHANGED <<owner, answer, list, slot>>
    /\ UNCHANGED <<files, call, calls, crashes, blind>>

LockEnroll(t) ==
    /\ pc[t] = "waitEnroll"
    /\ Acquire(t, "enroll")
    /\ Goto(t, "scan")
    /\ UNCHANGED <<files, call, answer, locals, calls, crashes, blind>>

(* The scan has read n records when it ends: all of them, or those before  *)
(* a read that failed.                                                     *)
ReadBefore == IF FilesCanFail THEN 0..Len(enrollments) ELSE {Len(enrollments)}

(* One more than the highest id read; cancelled records count too.         *)
(* Mutant: the ids of cancelled records are free again.                    *)
NextLiveId(n) == 1 + Max({0} \cup
    {enrollments[i].id : i \in {j \in 1..n : enrollments[j].student # Dropped}})
NextId(n) == 1 + Max({0} \cup {enrollments[i].id : i \in 1..n})

(* Mutant: the file is read for the next id only.                          *)
NeverEnrolled(t, n)   == FALSE
AlreadyEnrolled(t, n) == \E i \in 1..n : IsRecordOf(i, Account[t], call[t].course)

(* The place to be filled next, and whether all before it has been read.   *)
Judged(n) == LET next == Len(enrollments) + 1 IN
             IF n < Len(enrollments) THEN blind \cup {next} ELSE blind \ {next}

Scan(t) ==
    /\ pc[t] = "scan"
    /\ \/ /\ \/ FilesCanFail /\ Return(t, "FAILURE")
             \/ /\ AlreadyEnrolled(t, Len(enrollments))
                /\ Return(t, "ALREADY_ENROLLED")
          /\ Release({"course", "enroll"})
          /\ UNCHANGED blind
       \/ \E n \in ReadBefore :
          /\ ~AlreadyEnrolled(t, n)
          /\ slot' = [slot EXCEPT ![t] = NextId(n)]
          /\ blind' = Judged(n)
          /\ Goto(t, "append")
          /\ UNCHANGED <<owner, answer, snap, list>>
    /\ UNCHANGED <<files, call, calls, crashes>>

(* The record goes to the end of the file; only then is g_enroll_mutex     *)
(* released, while g_course_mutex stays held for the seat.                 *)
AppendRecord(t) ==
    /\ pc[t] = "append"
    /\ \/ /\ FilesCanFail
          /\ Return(t, "FAILURE")
          /\ Release({"course", "enroll"})
          /\ UNCHANGED enrollments
       \/ /\ enrollments' = Append(enrollments,
                                   [id |-> slot[t], student |-> Account[t],
                                    course |-> call[t].course])
          /\ Release({"enroll"})
          /\ Goto(t, "takeSeat")
          /\ UNCHANGED <<answer, locals>>
    /\ UNCHANGED <<courses, students, call, calls, crashes, blind>>

(* Mutant: the array is taken to be long enough.                           *)
AlwaysRoom(l) == TRUE
HasRoom(l)    == Len(l) < MaxCourses

(* The whole record is written back from the copy made by ReadCourse.  The *)
(* result of the write is not looked at.  The student's own list is tried  *)
(* next only if the copy made by BeginEnroll lacks the course and has room.*)
TakeSeat(t) ==
    LET c == call[t].course
        listed == Contains(list[t], c) \/ ~HasRoom(list[t])
    IN
    /\ pc[t] = "takeSeat"
    /\ \/ courses' = [courses EXCEPT ![c] = [snap[t] EXCEPT !.avail = @ - 1]]
       \/ FilesCanFail /\ UNCHANGED courses
    /\ Release({"course"})
    /\ \/ listed /\ Return(t, "SUCCESS")
       \/ ~listed /\ Goto(t, "waitStudent") /\ UNCHANGED <<answer, locals>>
    /\ UNCHANGED <<enrollments, students, call, calls, crashes, blind>>

LockStudent(t) ==
    /\ pc[t] = "waitStudent"
    /\ Acquire(t, "student")
    /\ Goto(t, "reread")
    /\ UNCHANGED <<files, call, answer, locals, calls, crashes, blind>>

(* A failed re-read leaves the old copy in place: its result is ignored.   *)
RereadList(t) ==
    \/ list' = [list EXCEPT ![t] = students[Account[t]]]
    \/ FilesCanFail /\ UNCHANGED list

Reread(t) ==
    /\ pc[t] = "reread"
    /\ RereadList(t)
    /\ Goto(t, "addToList")
    /\ UNCHANGED <<files, owner, call, answer, snap, slot, calls, crashes, blind>>

AddToList(t) ==
    /\ pc[t] = "addToList"
    /\ \/ /\ HasRoom(list[t])
          /\ students' = [students EXCEPT ![Account[t]] =
                             Append(list[t], call[t].course)]
       \/ /\ ~HasRoom(list[t]) \/ FilesCanFail
          /\ UNCHANGED students
    /\ Release({"student"})
    /\ Return(t, "SUCCESS")
    /\ UNCHANGED <<courses, enrollments, call, calls, crashes, blind>>

-----------------------------------------------------------------------------
(* unenroll_student *)

BeginDrop(t, c) ==
    /\ Begin(t, "drop", c)
    /\ \/ GiveUp(t, "USER_NOT_FOUND")
       \/ ReadStudent(t) /\ Goto(t, "getCourse")
    /\ UNCHANGED <<files, owner, crashes, blind>>

(* The copy of the course that returnSeat will write back is made here,    *)
(* before any mutex is taken.                                              *)
GetCourse(t) ==
    LET c == call[t].course IN
    /\ pc[t] = "getCourse"
    /\ \/ GiveUp(t, "COURSE_NOT_FOUND")
       \/ c \notin Course /\ Return(t, "COURSE_NOT_FOUND")
       \/ /\ c \in Course
          /\ snap' = [snap EXCEPT ![t] = courses[c]]
          /\ Goto(t, "waitEnrollToDrop")
          /\ UNCHANGED <<answer, list, slot>>
    /\ UNCHANGED <<files, owner, call, calls, crashes, blind>>

LockEnrollToDrop(t) ==
    /\ pc[t] = "waitEnrollToDrop"
    /\ Acquire(t, "enroll")
    /\ Goto(t, "findRecord")
    /\ UNCHANGED <<files, call, answer, locals, calls, crashes, blind>>

(* Mutant: only the course id of a record is compared.                     *)
AnyonesRecords(t) == {i \in DOMAIN enrollments :
                         /\ enrollments[i].student # Dropped
                         /\ enrollments[i].course = call[t].course}
OwnRecords(t)     == {i \in DOMAIN enrollments :
                         IsRecordOf(i, Account[t], call[t].course)}

(* The first record of this student in this course, if there is one.       *)
FindRecord(t) ==
    /\ pc[t] = "findRecord"
    /\ \/ /\ \/ GiveUp(t, "NOT_ENROLLED")
             \/ OwnRecords(t) = {} /\ Return(t, "NOT_ENROLLED")
          /\ Release({"enroll"})
       \/ /\ OwnRecords(t) # {}
          /\ slot' = [slot EXCEPT ![t] = Min(OwnRecords(t))]
          /\ Goto(t, "markDropped")
          /\ UNCHANGED <<owner, answer, snap, list>>
    /\ UNCHANGED <<files, call, calls, crashes, blind>>

(* Mutants: the record is taken out of the file; its student becomes 0.    *)
Removed(i)  == RemoveAt(enrollments, i)
Zeroed(i)   == [enrollments EXCEPT ![i].student = 0]
Cancelled(i) == [enrollments EXCEPT ![i].student = Dropped]

(* The record keeps its place and its id; only the student id goes.        *)
MarkDropped(t) ==
    /\ pc[t] = "markDropped"
    /\ \/ enrollments' = Cancelled(slot[t])
       \/ FilesCanFail /\ UNCHANGED enrollments
    /\ Release({"enroll"})
    /\ Goto(t, "waitCourseToReturn")
    /\ UNCHANGED <<courses, students, call, answer, locals, calls, crashes, blind>>

LockCourseToReturn(t) ==
    /\ pc[t] = "waitCourseToReturn"
    /\ Acquire(t, "course")
    /\ Goto(t, "returnSeat")
    /\ UNCHANGED <<files, call, answer, locals, calls, crashes, blind>>

(* update_course overwrites the whole record with the copy of GetCourse,   *)
(* one seat added; its result is ignored.                                  *)
ReturnSeat(t) ==
    /\ pc[t] = "returnSeat"
    /\ \/ courses' = [courses EXCEPT ![call[t].course] =
                         [snap[t] EXCEPT !.avail = @ + 1]]
       \/ FilesCanFail /\ UNCHANGED courses
    /\ Release({"course"})
    /\ Goto(t, "waitStudentToRemove")
    /\ UNCHANGED <<enrollments, students, call, answer, locals, calls, crashes, blind>>

LockStudentToRemove(t) ==
    /\ pc[t] = "waitStudentToRemove"
    /\ Acquire(t, "student")
    /\ Goto(t, "rereadToRemove")
    /\ UNCHANGED <<files, call, answer, locals, calls, crashes, blind>>

RereadToRemove(t) ==
    /\ pc[t] = "rereadToRemove"
    /\ RereadList(t)
    /\ Goto(t, "removeFromList")
    /\ UNCHANGED <<files, owner, call, answer, snap, slot, calls, crashes, blind>>

(* Mutant: the tail is shifted but course_count does not go down.          *)
ShiftedOnly(l, c) == IF Contains(l, c) THEN Append(RemoveFirst(l, c), Last(l)) ELSE l
Without(l, c)     == RemoveFirst(l, c)

RemoveFromList(t) ==
    /\ pc[t] = "removeFromList"
    /\ \/ students' = [students EXCEPT ![Account[t]] =
                          Without(list[t], call[t].course)]
       \/ FilesCanFail /\ UNCHANGED students
    /\ Release({"student"})
    /\ Return(t, "SUCCESS")
    /\ UNCHANGED <<courses, enrollments, call, calls, crashes, blind>>

-----------------------------------------------------------------------------
(* update_course_details: read the record, ask the user, write it back,    *)
(* all without a mutex.                                                    *)

BeginEdit(t, c) ==
    /\ Begin(t, "edit", c)
    /\ answer' = [answer EXCEPT ![t] = "none"]
    /\ Goto(t, "getCourseToEdit")
    /\ UNCHANGED <<files, owner, locals, crashes, blind>>

GetCourseToEdit(t) ==
    LET c == call[t].course IN
    /\ pc[t] = "getCourseToEdit"
    /\ \/ (FilesCanFail \/ c \notin Course) /\ Return(t, "COURSE_NOT_FOUND")
       \/ c \in Course \ Teaches[t] /\ Return(t, "FAILURE")
       \/ /\ c \in Teaches[t]
          /\ snap' = [snap EXCEPT ![t] = courses[c]]
          /\ Goto(t, "editing")
          /\ UNCHANGED <<answer, list, slot>>
    /\ UNCHANGED <<files, owner, call, calls, crashes, blind>>

(* update_course overwrites the whole record; its result is the answer, but*)
(* it does not look at the result of its write.                            *)
WriteEdit(t, record) ==
    \/ /\ courses' = [courses EXCEPT ![call[t].course] = record]
       /\ Return(t, "SUCCESS")
    \/ /\ FilesCanFail
       /\ Return(t, "SUCCESS") \/ GiveUp(t, "COURSE_NOT_FOUND")
       /\ UNCHANGED courses

(* The seats taken according to a copy of the record.                      *)
Taken(r) == r.max - r.avail

(* Mutant: any number is accepted.                                         *)
AnyLimit(r, n)   == TRUE
LimitFits(r, n)  == n >= Taken(r)

(* Mutant: the free seats stay as they are.                                *)
LimitOnly(r, n)  == [r EXCEPT !.max = n]
WithLimit(r, n)  == [max |-> n, avail |-> n - Taken(r)]

(* The user has answered.  A new limit is compared with the seats taken    *)
(* according to the copy; Enter keeps the limit, and the copy is written   *)
(* back all the same.                                                      *)
FinishEdit(t) ==
    /\ pc[t] = "editing"
    /\ \/ WriteEdit(t, snap[t])
       \/ \E n \in NewMaxSeats :
             \/ ~LimitFits(snap[t], n) /\ Return(t, "FAILURE") /\ UNCHANGED courses
             \/ LimitFits(snap[t], n) /\ WriteEdit(t, WithLimit(snap[t], n))
    /\ UNCHANGED <<enrollments, students, owner, call, calls, crashes, blind>>

-----------------------------------------------------------------------------
(* The process dies: SIGINT (handle_signal exits with the other threads    *)
(* where they are) or SIGPIPE (a write to a client that has gone).  The    *)
(* files stay, everything in memory goes; the server is started again.     *)
Crash ==
    /\ crashes < MaxCrashes
    /\ crashes' = crashes + 1
    /\ owner' = [m \in Mutex |-> NoThread]
    /\ pc' = [t \in Thread |-> "idle"]
    /\ call' = [t \in Thread |-> NoCall]
    /\ answer' = [t \in Thread |-> "none"]
    /\ snap' = [t \in Thread |-> NoRecord]
    /\ list' = [t \in Thread |-> << >>]
    /\ slot' = [t \in Thread |-> 0]
    /\ UNCHANGED <<files, calls, blind>>

AllIdle == \A t \in Thread : pc[t] = "idle"

(* A server whose sessions all sit at their menu waits for input.          *)
Waiting == AllIdle /\ UNCHANGED vars

EnrollStep(t) == \/ LockCourse(t) \/ ReadCourse(t) \/ LockEnroll(t) \/ Scan(t)
                 \/ AppendRecord(t) \/ TakeSeat(t) \/ LockStudent(t)
                 \/ Reread(t) \/ AddToList(t)

DropStep(t) == \/ GetCourse(t) \/ LockEnrollToDrop(t) \/ FindRecord(t)
               \/ MarkDropped(t) \/ LockCourseToReturn(t) \/ ReturnSeat(t)
               \/ LockStudentToRemove(t) \/ RereadToRemove(t)
               \/ RemoveFromList(t)

StudentStep(t) == EnrollStep(t) \/ DropStep(t)

Next ==
    \/ \E t \in StudentSession :
          \/ \E c \in Course \cup {NoSuchCourse} :
                BeginEnroll(t, c) \/ BeginDrop(t, c)
          \/ StudentStep(t)
    \/ \E t \in FacultySession :
          \/ \E c \in Course \cup {NoSuchCourse} : BeginEdit(t, c)
          \/ GetCourseToEdit(t)
          \/ FinishEdit(t)
    \/ Crash
    \/ Waiting

Spec == Init /\ [][Next]_vars

(* A thread that can run does run; when a user starts a call, how long a   *)
(* faculty member thinks, and when the process dies is left open.          *)
Fairness == \A t \in StudentSession : WF_vars(StudentStep(t))

FairSpec == Spec /\ Fairness

-----------------------------------------------------------------------------
(* Derived state: who is enrolled, and which seats are on their way.       *)

Roster(c) == {s \in Student : OnRoster(s, c)}

Live(c) == {i \in DOMAIN enrollments : /\ enrollments[i].course = c
                                       /\ enrollments[i].student # Dropped}

At(c, steps) == {t \in Thread : pc[t] \in steps /\ call[t].course = c}

(* Enrolled, but the seat not yet taken; cancelled, but not yet given back.*)
Owing(c)     == At(c, {"takeSeat"})
Returning(c) == At(c, {"waitCourseToReturn", "returnSeat"})

(* No free seats, or what the teacher typed if that was less.              *)
Floor(c) == Min({0, InitialSeats[c]})

(* Seats that neither the file nor a call under way accounts for.          *)
Gap(c) == courses[c].max - courses[c].avail - Cardinality(Live(c))
             + Cardinality(Owing(c)) - Cardinality(Returning(c))

-----------------------------------------------------------------------------
(* Properties *)

(* Every variable has its type; one invariant for the whole module.        *)
TypeOK ==
    /\ courses \in [Course -> SeatRecord]
    /\ enrollments \in Seq(EnrollmentRecord)
    /\ students \in [Student -> Seq(Course)]
    /\ owner \in [Mutex -> Thread \cup {NoThread}]
    /\ pc \in [Thread -> Steps]
    /\ call \in [Thread -> Call]
    /\ answer \in [Thread -> Codes]
    /\ snap \in [Thread -> SeatRecord]
    /\ list \in [Thread -> Seq(Course)]
    /\ slot \in [Thread -> Nat]
    /\ calls \in [Thread -> Nat]
    /\ crashes \in Nat
    /\ blind \subseteq Nat

(* A thread holds a mutex exactly between its lock and unlock calls: no    *)
(* return path keeps one, no two threads are in the same critical section. *)
(* (The releases are written out by hand on ten return paths.)             *)
LockDiscipline ==
    \A m \in Mutex, t \in Thread : owner[m] = t <=> Holds(pc[t], m)

(* README "available_seats >= 0", as far as it is true: no interleaving of *)
(* stale seat counts written back, no failed write, no edit and no crash   *)
(* makes the count negative; what the teacher typed when adding the course *)
(* may, for nobody checks it, and then it is never less than that.         *)
SeatsNonNegative == \A c \in Course : courses[c].avail >= Floor(c)

(* README "No duplicate enrollments", as far as it is true: of two live    *)
(* records of one student and course the later was appended after a scan   *)
(* that a failing read cut short; also when one student enrolls from two   *)
(* sessions at once.                                                       *)
NoDuplicateEnrollment ==
    \A i, j \in DOMAIN enrollments :
        /\ i < j
        /\ enrollments[i].student = enrollments[j].student
        /\ enrollments[i].course = enrollments[j].course
        /\ enrollments[i].student # Dropped
        => j \in blind

(* The same of ids: each is above all before it, whatever was dropped or   *)
(* crashed in between, unless the scan was cut short; and while no scan was*)
(* none is skipped: record i has id i.                                     *)
EnrollmentIdsDense ==
    /\ \A i, j \in DOMAIN enrollments :
          i < j /\ enrollments[i].id >= enrollments[j].id => j \in blind
    /\ blind \cap DOMAIN enrollments = {} =>
          \A i \in DOMAIN enrollments : enrollments[i].id = i

(* enrolled_courses never overruns its array, though its length is checked *)
(* on a copy that may be older than the record.                            *)
StudentListBounded ==
    \A s \in Student : Len(students[s]) <= MaxCourses

(* A drop about to write its cancellation still points at a live record of *)
(* its own student and course.                                             *)
CancelsOwnRecord ==
    \A t \in StudentSession :
        pc[t] = "markDropped" =>
            /\ slot[t] \in DOMAIN enrollments
            /\ IsRecordOf(slot[t], Account[t], call[t].course)

(* No step takes a record away; a record changes only by being cancelled,  *)
(* by a session whose student and course it names.                         *)
RecordsKept ==
    /\ Len(enrollments') >= Len(enrollments)
    /\ \A i \in DOMAIN enrollments :
          \/ enrollments'[i] = enrollments[i]
          \/ /\ enrollments'[i] = [enrollments[i] EXCEPT !.student = Dropped]
             /\ \E t \in StudentSession :
                   /\ pc[t] = "markDropped"
                   /\ pc'[t] # pc[t]
                   /\ IsRecordOf(i, Account[t], call[t].course)

(* The enrollment file is a history: a step may add records at the end or  *)
(* cancel the record of the student and course its own session is dropping;*)
(* it changes nothing else.                                                *)
HistoryKept == [][RecordsKept]_vars

(* A write back of a copy that the course record has moved away from.      *)
StaleWrite(c) ==
    \E t \in At(c, {"takeSeat", "returnSeat", "editing"}) :
        pc'[t] # pc[t] /\ snap[t] # courses[c]

(* A write whose error nobody looks at: the file is as it was.             *)
IgnoredError(c) ==
    /\ FilesCanFail
    /\ \/ /\ \E t \in At(c, {"takeSeat", "returnSeat"}) : pc'[t] # pc[t]
          /\ UNCHANGED courses
       \/ /\ \E t \in At(c, {"markDropped"}) : pc'[t] # pc[t]
          /\ UNCHANGED enrollments

(* Why seats get lost or invented: a stale copy written back, an error     *)
(* ignored, or a crash inside a call.  There is no fourth reason: not the  *)
(* order in which calls append, cancel, take and return, and no edit of a  *)
(* record nobody changed meanwhile.                                        *)
SeatsLostOnlyBy ==
    [][\A c \in Course :
          Gap(c)' # Gap(c) =>
              StaleWrite(c) \/ IgnoredError(c) \/ crashes' # crashes]_vars

(* The atomic ledger that enroll_student presents: a seat is gone when the *)
(* enrollment record is appended.                                          *)
Ledger == INSTANCE SeatLedger WITH
    free   <- [c \in Course |-> courses[c].avail - Cardinality(Owing(c))],
    roster <- [c \in Course |-> Roster(c)]

(* README "Write enrollment record + decrement seats atomically": every    *)
(* step is one atomic enrollment or invisible.                             *)
ImplementsLedger == Ledger!Spec

(* Race test check 3, at every instant: the free seats, the live records   *)
(* and the seats owed or on their way back add up to the limit.            *)
SeatsAccounted == \A c \in Course : Gap(c) = 0

(* Race test check 3 where it is observable: no call under way.            *)
SeatsMatchRecords ==
    AllIdle => \A c \in Course :
        courses[c].avail = courses[c].max - Cardinality(Live(c))

(* README "Seat limit never exceeded": who is enrolled fits the limit (that*)
(* nobody is enrolled does not fit a negative one).                        *)
NoOverbooking ==
    \A c \in Course : Live(c) # {} => Cardinality(Live(c)) <= courses[c].max

(* What a student is told agrees with the records when it is told and      *)
(* until the student's next call, as long as each student has one session. *)
AnswersTrue ==
    \A t \in StudentSession :
        LET enrolled == OnRoster(Account[t], call[t].course) IN
        pc[t] = "idle" =>
            /\ call[t].op = "enroll" /\ answer[t] \in {"SUCCESS", "ALREADY_ENROLLED"}
                  => enrolled
            /\ call[t].op = "drop" /\ answer[t] \in {"SUCCESS", "NOT_ENROLLED"}
                  => ~enrolled

(* The list in the student record names the courses of the live records,   *)
(* each once, whenever none of the student's calls is under way and none   *)
(* was ever cut short by a crash.                                          *)
ListMatchesRecords ==
    \A s \in Student :
        /\ crashes = 0
        /\ \A t \in StudentSession : Account[t] = s => pc[t] = "idle"
        =>
            /\ IsInjective(students[s])
            /\ ToSet(students[s]) = {c \in Course : OnRoster(s, c)}

(* Every call of a student returns: no session waits for ever for a mutex. *)
EveryCallReturns ==
    \A t \in StudentSession : pc[t] # "idle" ~> pc[t] = "idle"

=============================================================================
