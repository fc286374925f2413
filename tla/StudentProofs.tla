---------------------------- MODULE StudentProofs ----------------------------
(***************************************************************************)
(* Proofs about what a student sees of Enrollment: that answers agree with *)
(* the records, and that the list of courses in the student record names   *)
(* exactly the live enrollments, drops and enrolls of everybody else going *)
(* on meanwhile.                                                           *)
(***************************************************************************)
EXTENDS EnrollmentProofs, FiniteSetTheorems

-----------------------------------------------------------------------------
(* Lists in which every course stands once                                 *)

(* Adding a course that is not listed.                                     *)
LEMMA AppendListed ==
    ASSUME NEW l \in Seq(Course), NEW c \in Course, IsInjective(l), c \notin ToSet(l)
    PROVE  /\ IsInjective(Append(l, c))
           /\ ToSet(Append(l, c)) = ToSet(l) \cup {c}
<1> DEFINE n == Len(l)
           m == Append(l, c)
<1>1. /\ n \in Nat /\ DOMAIN l = 1..n /\ DOMAIN m = 1..n + 1
      /\ \A i \in 1..n : m[i] = l[i]
      /\ m[n + 1] = c
  BY AppendProperties
<1> HIDE DEF n, m
<1>2. \A i \in 1..n : l[i] # c
  BY <1>1 DEF ToSet
<1>3. IsInjective(m)
  BY <1>1, <1>2 DEF IsInjective
<1>4. ToSet(m) = ToSet(l) \cup {c}
  BY <1>1 DEF ToSet
<1>5. QED
  BY <1>3, <1>4 DEF m

(* Removing a course that is.                                              *)
LEMMA WithoutListed ==
    ASSUME NEW l \in Seq(Course), NEW c \in Course, IsInjective(l), c \in ToSet(l)
    PROVE  /\ IsInjective(Without(l, c))
           /\ ToSet(Without(l, c)) = ToSet(l) \ {c}
<1> DEFINE n == Len(l)
           w == Without(l, c)
<1>1. n \in Nat /\ DOMAIN l = 1..n
  OBVIOUS
<1>2. PICK k \in 1..n : l[k] = c /\ w = SubSeq(l, 1, k-1) \o SubSeq(l, k+1, n)
  <2>1. \E i \in 1..n : l[i] = c
    BY <1>1 DEF ToSet
  <2>2. QED
    BY <2>1, WithoutIs
<1>3. DOMAIN w = 1..(n - 1) /\ \A i \in 1..(n - 1) : w[i] = IF i < k THEN l[i] ELSE l[i + 1]
  <2>1. w \in Seq(Course) /\ Len(w) = n - 1
        /\ \A i \in 1..(n - 1) : w[i] = IF i < k THEN l[i] ELSE l[i + 1]
    BY <1>2, CutOut
  <2> HIDE DEF w
  <2>2. QED
    BY <2>1
<1> HIDE DEF n, w
<1>4. \A i \in 1..n : i # k => l[i] # c
  BY <1>1, <1>2 DEF IsInjective
<1>5. IsInjective(w)
  <2> SUFFICES ASSUME NEW i \in 1..(n - 1), NEW j \in 1..(n - 1), w[i] = w[j]
               PROVE  i = j
    BY <1>3 DEF IsInjective
  <2> DEFINE p(h) == IF h < k THEN h ELSE h + 1
  <2>1. \A h \in 1..(n - 1) : p(h) \in 1..n /\ w[h] = l[p(h)]
    BY <1>1, <1>3
  <2>2. p(i) = p(j)
    <3> HIDE DEF p
    <3>1. QED
      BY <2>1, <1>1 DEF IsInjective
  <2>3. QED
    BY <2>2
<1>6. ToSet(w) = ToSet(l) \ {c}
  <2>1. ASSUME NEW i \in 1..(n - 1)
        PROVE  w[i] \in ToSet(l) /\ w[i] # c
    BY <1>1, <1>3, <1>4 DEF ToSet
  <2>2. ASSUME NEW i \in 1..n, l[i] # c
        PROVE  l[i] \in ToSet(w)
    <3>1. CASE i < k
      <4>1. i \in 1..(n - 1) /\ w[i] = l[i]
        BY <1>1, <1>3, <3>1
      <4>2. QED
        BY <4>1, <1>3 DEF ToSet
    <3>2. CASE i > k
      <4>1. i - 1 \in 1..(n - 1) /\ ~(i - 1 < k) /\ (i - 1) + 1 = i
        BY <1>1, <3>2
      <4>2. w[i - 1] = l[i]
        BY <4>1, <1>3
      <4>3. QED
        BY <4>1, <4>2, <1>3 DEF ToSet
    <3>3. QED
      BY <2>2, <1>2, <3>1, <3>2
  <2>3. QED
    BY <1>1, <1>3, <2>1, <2>2 DEF ToSet
<1>7. QED
  BY <1>5, <1>6 DEF w

(* Counting to n.                                                          *)
LEMMA CountTo == ASSUME NEW n \in Nat PROVE Cardinality(1..n) = n
<1>1. Cardinality(1..n) = IF 1 > n THEN 0 ELSE n - 1 + 1
  BY FS_Interval
<1>2. QED
  BY <1>1

(* A list that lacks a course is shorter than the catalogue.               *)
LEMMA ListLacksRoomForOne ==
    ASSUME NEW l \in Seq(Course), NEW c \in Course, IsInjective(l), c \notin ToSet(l),
           IsFiniteSet(Course)
    PROVE  Len(l) < Cardinality(Course)
<1> DEFINE n == Len(l)
<1>1. n \in Nat /\ l \in Injection(1..n, Course \ {c})
  <2>1. l \in [1..n -> Course] /\ DOMAIN l = 1..n
    OBVIOUS
  <2>2. \A i \in 1..n : l[i] # c
    BY <2>1 DEF ToSet
  <2>3. l \in [1..n -> Course \ {c}]
    BY <2>1, <2>2
  <2>4. QED
    BY <2>3 DEF Injection
<1>2. IsFiniteSet(Course \ {c}) /\ Cardinality(Course \ {c}) = Cardinality(Course) - 1
  BY FS_RemoveElement
<1>3. Cardinality(1..n) <= Cardinality(Course \ {c})
  <2> DEFINE S == 1..n
             T == Course \ {c}
  <2>1. l \in Injection(S, T) /\ IsFiniteSet(T)
    BY <1>1, <1>2
  <2> HIDE DEF S, T
  <2>2. Cardinality(S) <= Cardinality(T)
    BY <2>1, FS_Injection
  <2>3. QED
    BY <2>2 DEF S, T
<1>4. Cardinality(1..n) = n
  BY <1>1, CountTo
<1>5. Cardinality(Course) \in Nat
  BY FS_CardinalityType
<1>6. QED
  BY <1>1, <1>2, <1>3, <1>4, <1>5

-----------------------------------------------------------------------------
(* One session per student, and files that do not fail                     *)

OneSessionEach == /\ \A t, u \in StudentSession : Account[t] = Account[u] => t = u
                  /\ FilesCanFail = FALSE

(* The enrolled_courses array has a place for every course there is.       *)
ListsLongEnough == IsFiniteSet(Course) /\ Cardinality(Course) <= MaxCourses

(* Where the record of the call has been written, or cancelled.            *)
AfterAppend == {"takeSeat", "waitStudent", "reread", "addToList"}
AfterCancel == {"waitCourseToReturn", "returnSeat", "waitStudentToRemove",
                "rereadToRemove", "removeFromList"}
BeforeWrite == Steps \ (AfterAppend \cup AfterCancel)

Enrolled(s) == {c \in Course : OnRoster(s, c)}

(* What a call has done to the records stays done until the student's next  *)
(* call; each thread is in the steps of the call it makes.                  *)
CallKept(t) ==
    LET enrolled == OnRoster(Account[t], call[t].course) IN
    /\ pc[t] \in EnrollSteps => call[t].op = "enroll"
    /\ pc[t] \in DropSteps => call[t].op = "drop"
    /\ pc[t] \in AfterAppend => enrolled
    /\ pc[t] \in AfterCancel => ~enrolled
    /\ pc[t] = "idle" =>
          /\ call[t].op = "enroll" /\ answer[t] \in {"SUCCESS", "ALREADY_ENROLLED"}
                => enrolled
          /\ call[t].op = "drop" /\ answer[t] \in {"SUCCESS", "NOT_ENROLLED"}
                => ~enrolled

CallsKept == \A t \in StudentSession : CallKept(t)

(* The student's list against the records: settled, one course behind, or   *)
(* one course too many; and the copy of it a call is about to use is good.  *)
Settled(s) == IsInjective(students[s]) /\ ToSet(students[s]) = Enrolled(s)

ListKept(t) ==
    LET s == Account[t]
        c == call[t].course
    IN  /\ pc[t] \in BeforeWrite => Settled(s)
        /\ pc[t] \in AfterAppend \cup AfterCancel => IsInjective(students[s])
        /\ pc[t] \in AfterAppend =>
              c \notin ToSet(students[s]) /\ Enrolled(s) = ToSet(students[s]) \cup {c}
        /\ pc[t] \in AfterCancel =>
              c \in ToSet(students[s]) /\ Enrolled(s) = ToSet(students[s]) \ {c}
        /\ pc[t] \in (EnrollSteps \ {"waitStudent", "reread"}) \cup {"removeFromList"}
              => list[t] = students[s]

ListsKept ==
    crashes = 0 =>
        /\ \A t \in StudentSession : ListKept(t)
        /\ \A s \in Student : (\A t \in StudentSession : Account[t] # s) => Settled(s)

-----------------------------------------------------------------------------
(* What a step of one session does to another student's state: nothing     *)

StepOf(u) ==
    \/ /\ u \in StudentSession
       /\ \/ \E c \in Course \cup {NoSuchCourse} : BeginEnroll(u, c) \/ BeginDrop(u, c)
          \/ StudentStep(u)
    \/ /\ u \in FacultySession
       /\ \/ \E c \in Course \cup {NoSuchCourse} : BeginEdit(u, c)
          \/ GetCourseToEdit(u)
          \/ FinishEdit(u)

(* An appended record puts one student on one roster.                      *)
LEMMA RosterAfterAppend ==
    ASSUME IInv, OneSessionEach, NEW u \in StudentSession, AppendRecord(u)
    PROVE  \A s, c : OnRoster(s, c)' <=>
                        \/ OnRoster(s, c)
                        \/ s = Account[u] /\ c = call[u].course
<1> DEFINE n == Len(enrollments)
           r == [id |-> slot[u], student |-> Account[u], course |-> call[u].course]
<1>1. TypeOK /\ CoursesKnown /\ pc[u] = "append" /\ enrollments' = Append(enrollments, r)
  BY DEF IInv, AppendRecord, OneSessionEach
<1>2. r \in EnrollmentRecord /\ r.student = Account[u] /\ r.course = call[u].course
  BY <1>1, SessionsAssumption
     DEF TypeOK, CoursesKnown, CourseFound, EnrollSteps, EnrollmentRecord, Thread
<1> HIDE DEF r
<1>3. /\ DOMAIN enrollments = 1..n /\ n \in Nat
      /\ DOMAIN enrollments' = 1..n + 1
      /\ \A j \in 1..n : enrollments'[j] = enrollments[j]
      /\ enrollments'[n + 1] = r
  BY <1>1, <1>2, AppendIs DEF TypeOK
<1>4. QED
  BY <1>2, <1>3 DEF OnRoster, IsRecordOf

(* A cancelled record takes one student off one roster.                    *)
LEMMA RosterAfterCancel ==
    ASSUME IInv, OneSessionEach, NEW u \in StudentSession, MarkDropped(u),
           NEW s \in Student, NEW c
    PROVE  OnRoster(s, c)' <=> OnRoster(s, c) /\ ~(s = Account[u] /\ c = call[u].course)
<1> DEFINE n == Len(enrollments)
           k == slot[u]
<1>1. /\ TypeOK /\ NoDuplicateEnrollment /\ CancelsOwnRecord
      /\ pc[u] = "markDropped" /\ enrollments' = Cancelled(k) /\ blind = {}
  BY DEF IInv, RecordsInOrder, ScansWhole, MarkDropped, OneSessionEach
<1>2. /\ enrollments \in Seq(EnrollmentRecord) /\ DOMAIN enrollments = 1..n /\ n \in Nat
      /\ k \in 1..n
      /\ enrollments[k].student = Account[u] /\ enrollments[k].course = call[u].course
  BY <1>1 DEF TypeOK, CancelsOwnRecord, IsRecordOf
<1>3. /\ DOMAIN enrollments' = 1..n
      /\ \A j \in 1..n : enrollments'[j] = IF j = k
                                           THEN [enrollments[j] EXCEPT !.student = Dropped]
                                           ELSE enrollments[j]
  BY <1>1, <1>2, CancelledIs
<1> HIDE DEF n, k
<1>4. enrollments'[k].student = Dropped /\ s # Dropped /\ Account[u] # Dropped
  <2>1. enrollments[k] \in EnrollmentRecord
    BY <1>2
  <2>2. enrollments'[k] = [enrollments[k] EXCEPT !.student = Dropped]
    BY <1>2, <1>3
  <2>3. Account[u] \in Student
    BY SessionsAssumption
  <2>4. QED
    BY <2>1, <2>2, <2>3, DataAssumption DEF EnrollmentRecord
<1>5. \A j \in 1..n :
         enrollments[j].student = Account[u] /\ enrollments[j].course = call[u].course
            => j = k
  <2> SUFFICES ASSUME NEW j \in 1..n, enrollments[j].student = Account[u],
                      enrollments[j].course = call[u].course
               PROVE  j = k
    OBVIOUS
  <2>1. /\ j \in DOMAIN enrollments /\ k \in DOMAIN enrollments
        /\ enrollments[j].student = enrollments[k].student
        /\ enrollments[j].course = enrollments[k].course
        /\ enrollments[j].student # Dropped
    BY <1>2, <1>4
  <2>2. ~(j < k) /\ ~(k < j)
    BY <1>1, <2>1 DEF NoDuplicateEnrollment
  <2>3. QED
    BY <1>2, <2>2
<1>6. \A j \in 1..n : j # k => enrollments'[j] = enrollments[j]
  BY <1>3
<1>7. OnRoster(s, c)' => OnRoster(s, c) /\ ~(s = Account[u] /\ c = call[u].course)
  <2> SUFFICES ASSUME NEW j \in 1..n,
                      enrollments'[j].student = s, enrollments'[j].course = c
               PROVE  OnRoster(s, c) /\ ~(s = Account[u] /\ c = call[u].course)
    BY <1>3 DEF OnRoster, IsRecordOf
  <2>1. j # k
    BY <1>4
  <2>2. QED
    BY <1>2, <1>5, <1>6, <2>1 DEF OnRoster, IsRecordOf
<1>8. OnRoster(s, c) /\ ~(s = Account[u] /\ c = call[u].course) => OnRoster(s, c)'
  <2> SUFFICES ASSUME NEW j \in 1..n,
                      enrollments[j].student = s, enrollments[j].course = c,
                      ~(s = Account[u] /\ c = call[u].course)
               PROVE  OnRoster(s, c)'
    BY <1>2 DEF OnRoster, IsRecordOf
  <2>1. j # k
    BY <1>2
  <2>2. QED
    BY <1>3, <1>6, <2>1 DEF OnRoster, IsRecordOf
<1>9. QED
  BY <1>7, <1>8

(* Every other step of a session leaves the enrollment file alone.         *)
LEMMA RosterElsewise ==
    ASSUME NEW u \in Thread, StepOf(u),
           ~(u \in StudentSession /\ (AppendRecord(u) \/ MarkDropped(u)))
    PROVE  /\ UNCHANGED enrollments
           /\ \A s, c : OnRoster(s, c)' <=> OnRoster(s, c)
<1>1. UNCHANGED enrollments
  BY DEF StepOf, StudentStep, EnrollStep, DropStep, LockCourse, ReadCourse, LockEnroll,
     Scan, TakeSeat, LockStudent, Reread, AddToList, GetCourse, LockEnrollToDrop,
     FindRecord, LockCourseToReturn, ReturnSeat, LockStudentToRemove,
     RereadToRemove, RemoveFromList, BeginEnroll, BeginDrop, BeginEdit,
     GetCourseToEdit, FinishEdit, files
<1>2. QED
  BY <1>1 DEF OnRoster, IsRecordOf

(* A session's step touches no other session, no other student's records   *)
(* and no other student's list.                                            *)
LEMMA Elsewhere ==
    ASSUME IInv, OneSessionEach, NEW t \in StudentSession, NEW u \in Thread, u # t,
           StepOf(u)
    PROVE  /\ pc'[t] = pc[t] /\ call'[t] = call[t]
           /\ answer'[t] = answer[t] /\ list'[t] = list[t]
           /\ students'[Account[t]] = students[Account[t]]
           /\ \A c : OnRoster(Account[t], c)' <=> OnRoster(Account[t], c)
<1> USE SessionsAssumption DEF Thread, GiveUp, files, locals
<1>1. TypeOK
  BY DEF IInv
<1>2. u \in StudentSession => Account[u] # Account[t]
  BY DEF OneSessionEach
<1>3. \A c : OnRoster(Account[t], c)' <=> OnRoster(Account[t], c)
  BY <1>2, RosterAfterAppend, RosterAfterCancel, RosterElsewise
<1>4. CASE u \in FacultySession
  BY <1>1, <1>3, <1>4
     DEF StepOf, BeginEdit, GetCourseToEdit, FinishEdit, WriteEdit, Begin, Goto, Return,
         TypeOK
<1>5. CASE u \in StudentSession /\ \E c \in Course \cup {NoSuchCourse} :
                                      BeginEnroll(u, c) \/ BeginDrop(u, c)
  BY <1>1, <1>3, <1>5
     DEF BeginEnroll, BeginDrop, Begin, Goto, Return, ReadStudent, TypeOK
<1>6. CASE u \in StudentSession /\ EnrollStep(u)
  <2>1. /\ pc'[t] = pc[t] /\ call'[t] = call[t]
        /\ answer'[t] = answer[t] /\ list'[t] = list[t]
    BY <1>1, <1>6
       DEF EnrollStep, LockCourse, ReadCourse, LockEnroll, Scan, AppendRecord, TakeSeat,
           LockStudent, Reread, RereadList, AddToList, Goto, Return, TypeOK
  <2>2. students'[Account[t]] = students[Account[t]]
    BY <1>1, <1>2, <1>6
       DEF EnrollStep, LockCourse, ReadCourse, LockEnroll, Scan, AppendRecord, TakeSeat,
           LockStudent, Reread, AddToList, TypeOK
  <2>3. QED
    BY <1>3, <2>1, <2>2
<1>7. CASE u \in StudentSession /\ DropStep(u)
  <2>1. /\ pc'[t] = pc[t] /\ call'[t] = call[t]
        /\ answer'[t] = answer[t] /\ list'[t] = list[t]
    BY <1>1, <1>7
       DEF DropStep, GetCourse, LockEnrollToDrop, FindRecord, MarkDropped,
           LockCourseToReturn, ReturnSeat, LockStudentToRemove, RereadToRemove,
           RereadList, RemoveFromList, Goto, Return, TypeOK
  <2>2. students'[Account[t]] = students[Account[t]]
    BY <1>1, <1>2, <1>7
       DEF DropStep, GetCourse, LockEnrollToDrop, FindRecord, MarkDropped,
           LockCourseToReturn, ReturnSeat, LockStudentToRemove, RereadToRemove,
           RemoveFromList, TypeOK
  <2>3. QED
    BY <1>3, <2>1, <2>2
<1>8. QED
  BY <1>4, <1>5, <1>6, <1>7 DEF StepOf, StudentStep

-----------------------------------------------------------------------------
(* What a session's own steps do to its student's records                  *)

(* The answer a call returns with is the answer of its session.            *)
LEMMA ReturnAnswers ==
    ASSUME TypeOK, NEW t \in Thread, NEW code, Return(t, code)
    PROVE  pc'[t] = "idle" /\ answer'[t] = code
  BY DEF TypeOK, Return, Goto

(* A call keeps its course and its operation till the next one begins.     *)
LEMMA CallStays ==
    ASSUME NEW t \in StudentSession, StudentStep(t)
    PROVE  UNCHANGED <<call, crashes>>
  BY DEF StudentStep, EnrollStep, DropStep, LockCourse, ReadCourse, LockEnroll, Scan,
     AppendRecord, TakeSeat, LockStudent, Reread, AddToList, GetCourse,
     LockEnrollToDrop, FindRecord, MarkDropped, LockCourseToReturn, ReturnSeat,
     LockStudentToRemove, RereadToRemove, RemoveFromList, locals

(* The session's own step keeps its call's account of the records.         *)
LEMMA CallOwn ==
    ASSUME IInv, OneSessionEach, NEW t \in StudentSession, CallKept(t), StepOf(t)
    PROVE  CallKept(t)'
<1> DEFINE s == Account[t]
           Same == \A c : OnRoster(s, c)' <=> OnRoster(s, c)
<1>1. /\ TypeOK /\ t \in Thread /\ t \notin FacultySession /\ s \in Student
      /\ FilesCanFail = FALSE
  BY SessionsAssumption DEF IInv, Thread, OneSessionEach
<1> USE <1>1 DEF EnrollSteps, DropSteps, AfterAppend, AfterCancel, GiveUp
<1>2. ASSUME NEW c \in Course \cup {NoSuchCourse}, BeginEnroll(t, c)
      PROVE  CallKept(t)'
  <2>1. /\ pc'[t] = "waitCourse" /\ call'[t].op = "enroll"
    BY <1>2 DEF TypeOK, BeginEnroll, Begin, Goto
  <2>2. QED
    BY <2>1 DEF CallKept
<1>3. ASSUME NEW c \in Course \cup {NoSuchCourse}, BeginDrop(t, c)
      PROVE  CallKept(t)'
  <2>1. /\ pc'[t] = "getCourse" /\ call'[t].op = "drop"
    BY <1>3 DEF TypeOK, BeginDrop, Begin, Goto
  <2>2. QED
    BY <2>1 DEF CallKept
<1>4. ASSUME StudentStep(t)
      PROVE  CallKept(t)'
  <2>0. call' = call
    BY <1>4, CallStays
  <2> USE <2>0
  <2>1. CASE AppendRecord(t)
    <3>1. pc[t] = "append" /\ pc'[t] = "takeSeat"
      BY <2>1 DEF AppendRecord, Goto, TypeOK
    <3>2. OnRoster(s, call[t].course)'
      BY <2>1, <1>4, RosterAfterAppend
    <3>3. QED
      BY <3>1, <3>2 DEF CallKept
  <2>2. CASE MarkDropped(t)
    <3>1. pc[t] = "markDropped" /\ pc'[t] = "waitCourseToReturn"
      BY <2>2 DEF MarkDropped, Goto, TypeOK
    <3>2. ~ OnRoster(s, call[t].course)'
      BY <2>2, <1>4, RosterAfterCancel
    <3>3. QED
      BY <3>1, <3>2 DEF CallKept
  <2>3. CASE ~(AppendRecord(t) \/ MarkDropped(t))
    <3>0. Same
      BY <2>3, RosterElsewise
    <3>1. CASE Scan(t)
      <4>1. pc[t] = "scan"
            /\ \/ /\ pc'[t] = "idle" /\ answer'[t] = "ALREADY_ENROLLED"
                  /\ OnRoster(s, call[t].course)
               \/ pc'[t] = "append"
        BY <3>1, ReturnAnswers DEF Scan, AlreadyEnrolled, OnRoster, Goto, TypeOK
      <4>2. QED
        BY <3>0, <4>1 DEF CallKept
    <3>2. CASE FindRecord(t)
      <4>1. pc[t] = "findRecord"
            /\ \/ /\ pc'[t] = "idle" /\ answer'[t] = "NOT_ENROLLED"
                  /\ ~OnRoster(s, call[t].course)
               \/ pc'[t] = "markDropped"
        BY <3>2, ReturnAnswers DEF FindRecord, OwnRecords, OnRoster, Goto, TypeOK
      <4>2. QED
        BY <3>0, <4>1 DEF CallKept
    <3>3. CASE ReadCourse(t) \/ GetCourse(t)
      <4>1. /\ pc[t] \in {"readCourse", "getCourse"}
            /\ \/ pc'[t] = "idle" /\ answer'[t] \in {"COURSE_NOT_FOUND", "COURSE_FULL"}
               \/ pc[t] = "readCourse" /\ pc'[t] = "waitEnroll"
               \/ pc[t] = "getCourse" /\ pc'[t] = "waitEnrollToDrop"
        BY <3>3, ReturnAnswers, GotoIs, Zenon DEF ReadCourse, GetCourse
      <4>2. QED
        BY <3>0, <4>1 DEF CallKept
    <3>4. CASE TakeSeat(t) \/ AddToList(t)
      <4>1. /\ pc[t] \in {"takeSeat", "addToList"}
            /\ \/ pc'[t] = "idle" /\ answer'[t] = "SUCCESS"
               \/ pc'[t] = "waitStudent"
        BY <3>4, ReturnAnswers, GotoIs, Zenon DEF TakeSeat, AddToList
      <4>2. QED
        BY <3>0, <4>1 DEF CallKept
    <3>5. CASE RemoveFromList(t)
      <4>1. pc[t] = "removeFromList" /\ pc'[t] = "idle" /\ answer'[t] = "SUCCESS"
        BY <3>5, ReturnAnswers DEF RemoveFromList
      <4>2. QED
        BY <3>0, <4>1 DEF CallKept
    <3>6. CASE \/ LockCourse(t) \/ LockEnroll(t) \/ LockStudent(t) \/ Reread(t)
               \/ LockEnrollToDrop(t) \/ LockCourseToReturn(t) \/ ReturnSeat(t)
               \/ LockStudentToRemove(t) \/ RereadToRemove(t)
      <4>1. \E step, next :
               /\ pc[t] = step /\ pc'[t] = next
               /\ <<step, next>> \in
                     {<<"waitCourse", "readCourse">>, <<"waitEnroll", "scan">>,
                      <<"waitStudent", "reread">>, <<"reread", "addToList">>,
                      <<"waitEnrollToDrop", "findRecord">>,
                      <<"waitCourseToReturn", "returnSeat">>,
                      <<"returnSeat", "waitStudentToRemove">>,
                      <<"waitStudentToRemove", "rereadToRemove">>,
                      <<"rereadToRemove", "removeFromList">>}
        BY <3>6, GotoIs
           DEF LockCourse, LockEnroll, LockStudent, Reread, LockEnrollToDrop,
               LockCourseToReturn, ReturnSeat, LockStudentToRemove, RereadToRemove
      <4>2. QED
        BY <3>0, <4>1 DEF CallKept
    <3>7. QED
      BY <1>4, <2>3, <3>1, <3>2, <3>3, <3>4, <3>5, <3>6
         DEF StudentStep, EnrollStep, DropStep
  <2>4. QED
    BY <2>1, <2>2, <2>3
<1>5. QED
  BY <1>1, <1>2, <1>3, <1>4 DEF StepOf

(* Every step keeps it for every session.                                  *)
LEMMA CallsKeptStep ==
    ASSUME IInv, OneSessionEach, CallsKept, [Next]_vars
    PROVE  CallsKept'
<1>1. ASSUME NEW u \in Thread, StepOf(u)
      PROVE  CallsKept'
  <2> SUFFICES ASSUME NEW t \in StudentSession
               PROVE  CallKept(t)'
    BY DEF CallsKept
  <2>1. CallKept(t)
    BY DEF CallsKept
  <2>2. CASE u = t
    BY <1>1, <2>1, <2>2, CallOwn
  <2>3. CASE u # t
    <3>1. /\ pc'[t] = pc[t] /\ call'[t] = call[t] /\ answer'[t] = answer[t]
          /\ \A c : OnRoster(Account[t], c)' <=> OnRoster(Account[t], c)
      BY <1>1, <2>3, Elsewhere
    <3>2. QED
      BY <2>1, <3>1 DEF CallKept
  <2>4. QED
    BY <2>2, <2>3
<1>2. CASE Crash
  <2>1. \A t \in StudentSession : pc'[t] = "idle" /\ call'[t].op = "none"
    BY <1>2 DEF Crash, NoCall, Thread
  <2>2. QED
    BY <2>1 DEF CallsKept, CallKept, EnrollSteps, DropSteps, AfterAppend, AfterCancel
<1>3. CASE UNCHANGED vars
  BY <1>3 DEF CallsKept, CallKept, OnRoster, IsRecordOf, vars
<1>4. QED
  BY <1>1, <1>2, <1>3 DEF Next, StepOf, Thread, Waiting

(* Before the first call.                                                  *)
LEMMA InitCallsKept == Init => CallsKept
BY DEF Init, CallsKept, CallKept, NoCall, EnrollSteps, DropSteps, AfterAppend,
   AfterCancel, Thread

(* A student with one session is told what the records say: enrolled after *)
(* SUCCESS or ALREADY_ENROLLED of an enroll, not enrolled after SUCCESS or *)
(* NOT_ENROLLED of a drop, whatever other students, the faculty and        *)
(* crashes do, until the student's next call.                              *)
THEOREM AnswersAreTrue ==
    ASSUME OneSessionEach
    PROVE  Spec => []AnswersTrue
<1>1. IInv /\ CallsKept /\ [Next]_vars => CallsKept'
  BY CallsKeptStep
<1>2. CallsKept => AnswersTrue
  BY DEF CallsKept, CallKept, AnswersTrue
<1>3. QED
  BY <1>1, <1>2, InitCallsKept, Invariance, PTL DEF Spec

-----------------------------------------------------------------------------
(* The student's list                                                      *)

(* ToSet asks where a course stands, Contains whether it stands anywhere.  *)
LEMMA NotContained ==
    ASSUME NEW l \in Seq(Course), NEW c, c \notin ToSet(l)
    PROVE  ~Contains(l, c)
BY DEF Contains, ToSet

(* The session's own step keeps the list in step with the records.         *)
LEMMA ListOwn ==
    ASSUME IInv, OneSessionEach, ListsLongEnough, NEW t \in StudentSession,
           ListKept(t), StepOf(t)
    PROVE  ListKept(t)'
<1> DEFINE s == Account[t]
           Same == Enrolled(s)' = Enrolled(s)
<1>1. /\ TypeOK /\ t \in Thread /\ t \notin FacultySession /\ s \in Student
      /\ FilesCanFail = FALSE /\ students[s] \in Seq(Course)
      /\ MaxCourses \in Nat
  BY SessionsAssumption, DataAssumption DEF IInv, Thread, OneSessionEach, TypeOK
<1> USE <1>1 DEF EnrollSteps, DropSteps, EditSteps, Steps, BeforeWrite, AfterAppend,
                 AfterCancel, GiveUp
<1>2. ASSUME NEW c \in Course \cup {NoSuchCourse},
             BeginEnroll(t, c) \/ BeginDrop(t, c)
      PROVE  ListKept(t)'
  <2>1. /\ pc[t] = "idle" /\ pc'[t] \in {"waitCourse", "getCourse"}
        /\ students' = students /\ list'[t] = students[s]
    BY <1>2 DEF TypeOK, BeginEnroll, BeginDrop, Begin, Goto, ReadStudent, files
  <2>2. Same
    <3>1. ~(AppendRecord(t) \/ MarkDropped(t))
      BY <2>1 DEF AppendRecord, MarkDropped
    <3>2. QED
      BY <3>1, RosterElsewise DEF Enrolled
  <2> HIDE DEF s
  <2>3. Settled(s) /\ Settled(s)'
    BY <2>1, <2>2 DEF ListKept, Settled, s
  <2>4. QED
    BY <2>1, <2>3 DEF ListKept, s
<1>3. ASSUME StudentStep(t), NEW c, c = call[t].course
      PROVE  ListKept(t)'
  <2>0. call'[t].course = c
    BY <1>3, CallStays
  <2>1. CASE AppendRecord(t)
    <3>1. /\ pc[t] = "append" /\ pc'[t] = "takeSeat" /\ c \in Course
          /\ students' = students /\ list'[t] = list[t] /\ ~OnRoster(s, c)
      BY <2>1, <1>3
         DEF AppendRecord, Goto, TypeOK, IInv, CoursesKnown, CourseFound,
             RecordsInOrder, AppendIsFresh, ScansWhole, locals
    <3>2. Enrolled(s)' = Enrolled(s) \cup {c}
      BY <2>1, <1>3, <3>1, RosterAfterAppend DEF Enrolled
    <3>3. c \notin Enrolled(s)
      BY <3>1 DEF Enrolled
    <3>4. Settled(s) /\ list[t] = students[s]
      BY <3>1 DEF ListKept
    <3>5. QED
      BY <2>0, <3>1, <3>2, <3>3, <3>4 DEF ListKept, Settled
  <2>2. CASE MarkDropped(t)
    <3>1. /\ pc[t] = "markDropped" /\ pc'[t] = "waitCourseToReturn" /\ c \in Course
          /\ students' = students /\ OnRoster(s, c)
      BY <2>2, <1>3
         DEF MarkDropped, Goto, TypeOK, IInv, CoursesKnown, CourseFound,
             RecordsInOrder, CancelsOwnRecord, OnRoster
    <3>2. Enrolled(s)' = Enrolled(s) \ {c}
      BY <2>2, <1>3, <3>1, RosterAfterCancel DEF Enrolled
    <3>3. c \in Enrolled(s)
      BY <3>1 DEF Enrolled
    <3>4. Settled(s)
      BY <3>1 DEF ListKept
    <3>5. QED
      BY <2>0, <3>1, <3>2, <3>3, <3>4 DEF ListKept, Settled
  <2>3. CASE ~(AppendRecord(t) \/ MarkDropped(t))
    <3>0. Same
      BY <2>3, RosterElsewise DEF Enrolled
    <3>1. CASE AddToList(t)
      <4>1. /\ pc[t] = "addToList" /\ pc'[t] = "idle" /\ c \in Course
            /\ \/ HasRoom(list[t]) /\ students' = [students EXCEPT ![s] = Append(list[t], c)]
               \/ ~HasRoom(list[t])
        BY <3>1, <1>3, ReturnIs DEF AddToList, IInv, CoursesKnown, CourseFound
      <4>2. /\ list[t] = students[s] /\ IsInjective(students[s])
            /\ c \notin ToSet(students[s])
            /\ Enrolled(s) = ToSet(students[s]) \cup {c}
        BY <4>1, <1>3 DEF ListKept
      <4>3. HasRoom(list[t])
        <5>1. Len(students[s]) < Cardinality(Course)
          BY <4>1, <4>2, ListLacksRoomForOne DEF ListsLongEnough
        <5>2. Cardinality(Course) \in Nat /\ Len(students[s]) \in Nat
          BY FS_CardinalityType DEF ListsLongEnough
        <5>3. QED
          BY <4>2, <5>1, <5>2 DEF HasRoom, ListsLongEnough
      <4>4. students'[s] = Append(students[s], c)
        BY <4>1, <4>2, <4>3 DEF TypeOK
      <4>5. IsInjective(students'[s]) /\ ToSet(students'[s]) = ToSet(students[s]) \cup {c}
        BY <4>1, <4>2, <4>4, AppendListed
      <4>6. Settled(s)'
        BY <3>0, <4>2, <4>5 DEF Settled
      <4>7. QED
        BY <4>1, <4>6 DEF ListKept
    <3>2. CASE RemoveFromList(t)
      <4>1. /\ pc[t] = "removeFromList" /\ pc'[t] = "idle" /\ c \in Course
            /\ students' = [students EXCEPT ![s] = Without(list[t], c)]
        BY <3>2, <1>3, ReturnIs DEF RemoveFromList, IInv, CoursesKnown, CourseFound
      <4>2. /\ list[t] = students[s] /\ IsInjective(students[s])
            /\ c \in ToSet(students[s])
            /\ Enrolled(s) = ToSet(students[s]) \ {c}
        BY <4>1, <1>3 DEF ListKept
      <4>3. students'[s] = Without(students[s], c)
        BY <4>1, <4>2 DEF TypeOK
      <4>4. IsInjective(students'[s]) /\ ToSet(students'[s]) = ToSet(students[s]) \ {c}
        BY <4>1, <4>2, <4>3, WithoutListed
      <4>5. Settled(s)'
        BY <3>0, <4>2, <4>4 DEF Settled
      <4>6. QED
        BY <4>1, <4>5 DEF ListKept
    <3>3. CASE TakeSeat(t)
      <4>1. pc[t] = "takeSeat" /\ c \in Course /\ students' = students
        BY <3>3, <1>3 DEF TakeSeat, IInv, CoursesKnown, CourseFound
      <4>2. /\ list[t] = students[s] /\ IsInjective(students[s])
            /\ c \notin ToSet(students[s])
        BY <4>1, <1>3 DEF ListKept
      <4>3. HasRoom(list[t])
        <5>1. Len(students[s]) < Cardinality(Course)
          BY <4>1, <4>2, ListLacksRoomForOne DEF ListsLongEnough
        <5>2. Cardinality(Course) \in Nat /\ Len(students[s]) \in Nat
          BY FS_CardinalityType DEF ListsLongEnough
        <5>3. QED
          BY <4>2, <5>1, <5>2 DEF HasRoom, ListsLongEnough
      <4>4. ~Contains(list[t], c)
        BY <4>2, NotContained
      <4>5. pc'[t] = "waitStudent"
        BY <3>3, <1>3, <4>3, <4>4, GotoIs DEF TakeSeat
      <4>6. QED
        BY <2>0, <1>3, <3>0, <4>1, <4>5 DEF ListKept
    <3>4. CASE Reread(t) \/ RereadToRemove(t)
      <4>1. /\ students' = students /\ list'[t] = students[s]
            /\ \/ pc[t] = "reread" /\ pc'[t] = "addToList"
               \/ pc[t] = "rereadToRemove" /\ pc'[t] = "removeFromList"
        BY <3>4 DEF Reread, RereadToRemove, RereadList, Goto, TypeOK, files
      <4>2. QED
        BY <2>0, <1>3, <3>0, <4>1 DEF ListKept
    <3>5. CASE LockStudent(t) \/ ReturnSeat(t) \/ LockCourseToReturn(t)
               \/ LockStudentToRemove(t)
      <4>1. /\ students' = students
            /\ \/ pc[t] = "waitStudent" /\ pc'[t] = "reread"
               \/ pc[t] = "waitCourseToReturn" /\ pc'[t] = "returnSeat"
               \/ pc[t] = "returnSeat" /\ pc'[t] = "waitStudentToRemove"
               \/ pc[t] = "waitStudentToRemove" /\ pc'[t] = "rereadToRemove"
        BY <3>5, GotoIs
           DEF LockStudent, ReturnSeat, LockCourseToReturn, LockStudentToRemove, files
      <4>2. QED
        BY <2>0, <1>3, <3>0, <4>1 DEF ListKept
    <3>6. CASE \/ LockCourse(t) \/ ReadCourse(t) \/ LockEnroll(t) \/ Scan(t)
               \/ GetCourse(t) \/ LockEnrollToDrop(t) \/ FindRecord(t)
      <4>1. /\ students' = students /\ pc[t] \in BeforeWrite
            /\ \/ pc'[t] \in {"idle", "waitEnrollToDrop", "findRecord", "markDropped"}
               \/ /\ pc[t] \in EnrollSteps \ {"waitStudent", "reread"}
                  /\ pc'[t] \in {"readCourse", "waitEnroll", "scan", "append"}
                  /\ list'[t] = list[t]
        <5>1. CASE LockCourse(t) \/ ReadCourse(t) \/ LockEnroll(t) \/ Scan(t)
          BY <5>1, ReturnIs, GotoIs
             DEF LockCourse, ReadCourse, LockEnroll, Scan, files, locals
        <5>2. CASE GetCourse(t) \/ LockEnrollToDrop(t) \/ FindRecord(t)
          BY <5>2, ReturnIs, GotoIs
             DEF GetCourse, LockEnrollToDrop, FindRecord, files, locals
        <5>3. QED
          BY <3>6, <5>1, <5>2
      <4> HIDE DEF s
      <4>2. Settled(s) /\ Settled(s)'
        BY <3>0, <4>1 DEF ListKept, Settled, s
      <4>3. QED
        BY <4>1, <4>2 DEF ListKept, s
    <3>7. QED
      BY <1>3, <2>3, <3>1, <3>2, <3>3, <3>4, <3>5, <3>6
         DEF StudentStep, EnrollStep, DropStep
  <2>4. QED
    BY <2>1, <2>2, <2>3
<1>4. QED
  BY <1>1, <1>2, <1>3 DEF StepOf

(* A session leaves the list and the records of a student it does not      *)
(* serve as they are.                                                      *)
LEMMA NotServed ==
    ASSUME IInv, OneSessionEach, NEW u \in Thread, StepOf(u), NEW s \in Student,
           u \in StudentSession => Account[u] # s
    PROVE  students'[s] = students[s] /\ Enrolled(s)' = Enrolled(s)
<1> USE SessionsAssumption DEF Thread, files
<1>1. TypeOK
  BY DEF IInv
<1>2. Enrolled(s)' = Enrolled(s)
  <2>1. \A c : OnRoster(s, c)' <=> OnRoster(s, c)
    BY RosterAfterAppend, RosterAfterCancel, RosterElsewise
  <2>2. QED
    BY <2>1 DEF Enrolled
<1>3. CASE u \in StudentSession /\ (AddToList(u) \/ RemoveFromList(u))
  BY <1>1, <1>2, <1>3 DEF AddToList, RemoveFromList, TypeOK
<1>4. CASE ~(u \in StudentSession /\ (AddToList(u) \/ RemoveFromList(u)))
  <2>1. students' = students
    BY <1>4
       DEF StepOf, StudentStep, EnrollStep, DropStep, LockCourse, ReadCourse, LockEnroll,
           Scan, AppendRecord, TakeSeat, LockStudent, Reread, GetCourse,
           LockEnrollToDrop, FindRecord, MarkDropped, LockCourseToReturn, ReturnSeat,
           LockStudentToRemove, RereadToRemove, BeginEnroll, BeginDrop, BeginEdit,
           GetCourseToEdit, FinishEdit
  <2>2. QED
    BY <1>2, <2>1
<1>5. QED
  BY <1>3, <1>4

(* Every step keeps every list until the first crash.                      *)
LEMMA ListsKeptStep ==
    ASSUME IInv, OneSessionEach, ListsLongEnough, ListsKept, [Next]_vars
    PROVE  ListsKept'
<1>1. ASSUME NEW u \in Thread, StepOf(u)
      PROVE  ListsKept'
  <2>1. crashes' = crashes
    BY <1>1, CallStays
       DEF StepOf, BeginEnroll, BeginDrop, BeginEdit, GetCourseToEdit, FinishEdit
  <2> SUFFICES ASSUME crashes = 0
               PROVE  ListsKept'
    BY <2>1 DEF ListsKept
  <2>2. ASSUME NEW t \in StudentSession
        PROVE  ListKept(t)'
    <3>1. ListKept(t)
      BY DEF ListsKept
    <3>2. CASE u = t
      BY <1>1, <3>1, <3>2, ListOwn
    <3>3. CASE u # t
      <4>1. /\ pc'[t] = pc[t] /\ call'[t] = call[t] /\ list'[t] = list[t]
            /\ students'[Account[t]] = students[Account[t]]
            /\ \A c : OnRoster(Account[t], c)' <=> OnRoster(Account[t], c)
        BY <1>1, <3>3, Elsewhere
      <4>2. Enrolled(Account[t])' = Enrolled(Account[t])
        BY <4>1 DEF Enrolled
      <4>3. QED
        BY <3>1, <4>1, <4>2 DEF ListKept, Settled
    <3>4. QED
      BY <3>2, <3>3
  <2>3. ASSUME NEW s \in Student, \A t \in StudentSession : Account[t] # s
        PROVE  Settled(s)'
    <3>1. Settled(s)
      BY <2>3 DEF ListsKept
    <3>2. students'[s] = students[s] /\ Enrolled(s)' = Enrolled(s)
      BY <1>1, <2>3, NotServed
    <3>3. QED
      BY <3>1, <3>2 DEF Settled
  <2>4. QED
    BY <2>2, <2>3 DEF ListsKept
<1>2. CASE Crash
  <2>1. crashes' # 0
    BY <1>2 DEF Crash, IInv, TypeOK
  <2>2. QED
    BY <2>1 DEF ListsKept
<1>3. CASE UNCHANGED vars
  BY <1>3 DEF ListsKept, ListKept, Settled, Enrolled, OnRoster, IsRecordOf, vars
<1>4. QED
  BY <1>1, <1>2, <1>3 DEF Next, StepOf, Thread, Waiting

(* No records, and empty lists.                                            *)
LEMMA InitListsKept == Init => ListsKept
<1> SUFFICES ASSUME Init
             PROVE  ListsKept
  OBVIOUS
<1>1. ASSUME NEW s \in Student
      PROVE  Settled(s)
  <2>1. students[s] = << >>
    BY DEF Init
  <2>2. Enrolled(s) = {}
    BY DEF Init, Enrolled, OnRoster
  <2>3. IsInjective(<< >>) /\ ToSet(<< >>) = {}
    BY DEF IsInjective, ToSet
  <2>4. QED
    BY <2>1, <2>2, <2>3 DEF Settled
<1>2. \A t \in StudentSession : pc[t] = "idle" /\ Account[t] \in Student
  BY SessionsAssumption DEF Init, Thread
<1>3. QED
  <2>1. ASSUME NEW t \in StudentSession
        PROVE  ListKept(t)
    <3>1. Settled(Account[t]) /\ pc[t] = "idle"
      BY <1>1, <1>2
    <3>2. QED
      BY <3>1 DEF ListKept, EnrollSteps, AfterAppend, AfterCancel
  <2>2. QED
    BY <1>1, <2>1 DEF ListsKept

(* The courses a student record lists are exactly those of the student's   *)
(* live enrollments, each once, between the student's calls: the list is   *)
(* changed under another mutex than the records, from a copy, and is right *)
(* again when the call returns, however the calls of others fall.          *)
THEOREM ListsAgree ==
    ASSUME OneSessionEach, ListsLongEnough
    PROVE  Spec => []ListMatchesRecords
<1>1. IInv /\ ListsKept /\ [Next]_vars => ListsKept'
  BY ListsKeptStep
<1>2. ListsKept => ListMatchesRecords
  <2> SUFFICES ASSUME ListsKept, NEW s \in Student, crashes = 0,
                      \A t \in StudentSession : Account[t] = s => pc[t] = "idle"
               PROVE  Settled(s)
    BY DEF ListMatchesRecords, Settled, Enrolled
  <2>1. CASE \A t \in StudentSession : Account[t] # s
    BY <2>1 DEF ListsKept
  <2>2. ASSUME NEW t \in StudentSession, Account[t] = s
        PROVE  Settled(s)
    <3>1. pc[t] \in BeforeWrite
      BY <2>2 DEF BeforeWrite, Steps, AfterAppend, AfterCancel
    <3>2. QED
      BY <2>2, <3>1 DEF ListsKept, ListKept
  <2>3. QED
    BY <2>1, <2>2
<1>3. QED
  BY <1>1, <1>2, InitListsKept, Invariance, PTL DEF Spec

=============================================================================
