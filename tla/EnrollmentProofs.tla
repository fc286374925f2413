--------------------------- MODULE EnrollmentProofs ---------------------------
(***************************************************************************)
(* Proofs about Enrollment for any number of students, courses, sessions,  *)
(* calls and crashes.                                                      *)
(***************************************************************************)
EXTENDS Enrollment, Extremes, SequenceTheorems, TLAPS

(* RemoveFirst (the shifting loop of unenroll_student) takes out one place *)
(* of a list where the course stands.                                      *)
LEMMA WithoutIs ==
    ASSUME NEW l \in Seq(Course), NEW c, \E i \in 1..Len(l) : l[i] = c
    PROVE  \E k \in 1..Len(l) :
              /\ l[k] = c
              /\ Without(l, c) = SubSeq(l, 1, k-1) \o SubSeq(l, k+1, Len(l))
<1> DEFINE I == {i \in 1..Len(l) : l[i] = c}
<1>1. PICK k : k = Min(I) /\ Without(l, c) = RemoveAt(l, k)
  <2>1. I # {}
    OBVIOUS
  <2>2. SelectInSeq(l, LAMBDA v : v = c) = Min(I)
    BY <2>1, Zenon DEF SelectInSeq
  <2>3. Without(l, c) = RemoveAt(l, SelectInSeq(l, LAMBDA v : v = c))
    BY Zenon DEF Without, RemoveFirst
  <2>4. Without(l, c) = RemoveAt(l, Min(I))
    BY <2>2, <2>3, Zenon
  <2>5. QED
    BY <2>4, Zenon
<1>2. k \in I
  <2>1. I \in SUBSET Nat /\ I # {}
    OBVIOUS
  <2>2. QED
    BY <1>1, <2>1, MinIsIn
<1>3. QED
  BY <1>1, <1>2 DEF RemoveAt

(* The list without its k-th place: the places after k move up by one.     *)
LEMMA CutOut ==
    ASSUME NEW l \in Seq(Course), NEW k \in 1..Len(l),
           NEW w, w = SubSeq(l, 1, k-1) \o SubSeq(l, k+1, Len(l))
    PROVE  /\ w \in Seq(Course)
           /\ Len(w) = Len(l) - 1
           /\ \A i \in 1..(Len(l) - 1) : w[i] = IF i < k THEN l[i] ELSE l[i + 1]
<1> DEFINE n == Len(l)
           x == SubSeq(l, 1, k-1)
           y == SubSeq(l, k+1, n)
<1>1. n \in Nat /\ \A i \in 1..n : l[i] \in Course
  OBVIOUS
<1>2. x \in Seq(Course) /\ Len(x) = k-1 /\ \A i \in 1..(k-1) : x[i] = l[i]
  <2>1. \A i \in 1..(k-1) : l[i] \in Course
    BY <1>1
  <2>2. /\ x \in Seq(Course) /\ Len(x) = IF 1 <= k-1 THEN (k-1)-1+1 ELSE 0
        /\ \A i \in 1..((k-1)-1+1) : x[i] = l[1+i-1]
    BY <2>1, SubSeqProperties
  <2> HIDE DEF x
  <2>3. QED
    BY <2>2
<1>3. y \in Seq(Course) /\ Len(y) = n-k /\ \A i \in 1..(n-k) : y[i] = l[i+k]
  <2>1. \A i \in (k+1)..n : l[i] \in Course
    BY <1>1
  <2>2. /\ y \in Seq(Course) /\ Len(y) = IF k+1 <= n THEN n-(k+1)+1 ELSE 0
        /\ \A i \in 1..(n-(k+1)+1) : y[i] = l[(k+1)+i-1]
    BY <1>1, <2>1, SubSeqProperties
  <2> HIDE DEF y, n
  <2>3. n \in Int /\ k \in Int /\ k <= n
    BY DEF n
  <2>4. \A i \in 1..(n-k) : i \in 1..(n-(k+1)+1) /\ (k+1)+i-1 = i+k
    BY <2>3
  <2>5. \A i \in 1..(n-k) : y[i] = l[i+k]
    BY <2>2, <2>4
  <2>6. QED
    BY <2>2, <2>3, <2>5
<1> HIDE DEF x, y
<1>4. /\ x \o y \in Seq(Course) /\ Len(x \o y) = Len(x) + Len(y)
      /\ \A i \in 1..(Len(x) + Len(y)) :
            (x \o y)[i] = IF i <= Len(x) THEN x[i] ELSE y[i - Len(x)]
  BY <1>2, <1>3, ConcatProperties
<1>5. w = x \o y
  BY DEF x, y
<1> HIDE DEF n
<1>6. n \in Nat /\ k \in 1..n
  BY <1>1 DEF n
<1>7. Len(x) + Len(y) = n-1
  BY <1>2, <1>3, <1>6
<1>8. ASSUME NEW i \in 1..(n-1)
      PROVE  w[i] = IF i < k THEN l[i] ELSE l[i+1]
  <2>0. i \in Int /\ k \in Int /\ n \in Int /\ 1 <= i /\ i <= n-1 /\ 1 <= k /\ k <= n
    BY <1>6
  <2>1. w[i] = IF i <= k-1 THEN x[i] ELSE y[i - (k-1)]
    BY <1>2, <1>4, <1>5, <1>7
  <2>2. CASE i < k
    <3>1. i \in 1..(k-1) /\ i <= k-1
      BY <2>0, <2>2
    <3>2. w[i] = l[i]
      BY <2>1, <3>1, <1>2
    <3>3. QED
      BY <2>2, <3>2
  <2>3. CASE ~(i < k)
    <3>1. i - (k-1) \in 1..(n-k) /\ (i - (k-1)) + k = i+1 /\ ~(i <= k-1)
      BY <2>0, <2>3
    <3>2. w[i] = l[i+1]
      BY <2>1, <3>1, <1>3
    <3>3. QED
      BY <2>3, <3>2
  <2>4. QED
    BY <2>2, <2>3
<1>9. QED
  BY <1>4, <1>5, <1>7, <1>8 DEF n

(* It never lengthens a list and keeps it a list of courses.               *)
LEMMA WithoutType ==
    ASSUME NEW l \in Seq(Course), NEW c
    PROVE  Without(l, c) \in Seq(Course) /\ Len(Without(l, c)) <= Len(l)
<1>1. CASE ~ \E i \in 1..Len(l) : l[i] = c
  BY <1>1 DEF Without, RemoveFirst
<1>2. CASE \E i \in 1..Len(l) : l[i] = c
  <2>1. PICK k \in 1..Len(l) :
           Without(l, c) = SubSeq(l, 1, k-1) \o SubSeq(l, k+1, Len(l))
    BY <1>2, WithoutIs
  <2>2. Without(l, c) \in Seq(Course) /\ Len(Without(l, c)) = Len(l) - 1
    BY <2>1, CutOut
  <2>3. QED
    BY <2>2
<1>3. QED
  BY <1>1, <1>2

(* No id is higher than its place in the file.                             *)
IdsInPlace == \A i \in DOMAIN enrollments : enrollments[i].id <= i

(* The id computed from the first n records is above all of theirs, and is *)
(* the next number when record i carries id i.                             *)
LEMMA NextIdIs ==
    ASSUME TypeOK, IdsInPlace, NEW n \in 0..Len(enrollments)
    PROVE  /\ NextId(n) \in 1..(n + 1)
           /\ \A i \in 1..n : enrollments[i].id < NextId(n)
           /\ (\A i \in 1..n : enrollments[i].id = i) => NextId(n) = n + 1
<1> DEFINE Ids == {0} \cup {enrollments[i].id : i \in 1..n}
<1>1. enrollments \in Seq(EnrollmentRecord) /\ Len(enrollments) \in Nat
  BY DEF TypeOK
<1>2. \A i \in 1..n : enrollments[i].id \in Nat /\ enrollments[i].id <= i
  <2>1. \A i \in 1..n : i \in DOMAIN enrollments /\ enrollments[i] \in EnrollmentRecord
    BY <1>1
  <2>2. QED
    BY <2>1 DEF IdsInPlace, EnrollmentRecord
<1>3. Ids \in SUBSET (0..n) /\ Ids # {}
  BY <1>2
<1>4. \A i \in 1..n : enrollments[i].id \in Ids
  OBVIOUS
<1>5. NextId(n) = 1 + Max(Ids)
  BY Zenon DEF NextId
<1> HIDE DEF Ids
<1>6. PICK m \in Ids : \A y \in Ids : m >= y
  <2>1. n \in Nat
    BY <1>1
  <2>2. QED
    BY <1>3, <2>1, GreatestExists
<1>7. Max(Ids) = m
  BY <1>3, <1>6, MaxIs
<1>8. m \in 0..n
  BY <1>3, <1>6
<1>9. NextId(n) \in 1..(n + 1) /\ \A i \in 1..n : enrollments[i].id < NextId(n)
  BY <1>2, <1>4, <1>5, <1>6, <1>7, <1>8
<1>10. ASSUME \A i \in 1..n : enrollments[i].id = i
       PROVE  NextId(n) = n + 1
  <2>1. CASE n = 0
    BY <1>9, <2>1
  <2>2. CASE n # 0
    <3>1. n \in 1..n
      BY <2>2
    <3>2. n < NextId(n)
      BY <1>9, <1>10, <3>1
    <3>3. QED
      BY <1>9, <3>2
  <2>3. QED
    BY <2>1, <2>2
<1>11. QED
  BY <1>9, <1>10

(* Cancelling changes one field of one record.                             *)
LEMMA CancelledIs ==
    ASSUME TypeOK, NEW i \in 1..Len(enrollments)
    PROVE  /\ Cancelled(i) \in Seq(EnrollmentRecord)
           /\ Len(Cancelled(i)) = Len(enrollments)
           /\ DOMAIN Cancelled(i) = DOMAIN enrollments
           /\ \A j \in 1..Len(enrollments) :
                 Cancelled(i)[j] = IF j = i
                                   THEN [enrollments[j] EXCEPT !.student = Dropped]
                                   ELSE enrollments[j]
<1> DEFINE r == [enrollments[i] EXCEPT !.student = Dropped]
<1>1. enrollments \in Seq(EnrollmentRecord)
  BY DEF TypeOK
<1>2. enrollments[i] \in EnrollmentRecord
  BY <1>1
<1>3. r \in EnrollmentRecord
  BY <1>2 DEF EnrollmentRecord
<1>4. Cancelled(i) = [enrollments EXCEPT ![i] = r]
  BY DEF Cancelled
<1> HIDE DEF r
<1>5. /\ Cancelled(i) \in Seq(EnrollmentRecord)
      /\ Len(Cancelled(i)) = Len(enrollments)
      /\ \A j \in 1..Len(enrollments) :
            Cancelled(i)[j] = IF j = i THEN r ELSE enrollments[j]
  BY <1>1, <1>3, <1>4, ExceptSeq
<1>6. DOMAIN Cancelled(i) = DOMAIN enrollments
  BY <1>1, <1>5
<1>7. QED
  BY <1>5, <1>6 DEF r

(* Appending adds one record at the end.                                   *)
LEMMA AppendIs ==
    ASSUME TypeOK, NEW r \in EnrollmentRecord
    PROVE  /\ Append(enrollments, r) \in Seq(EnrollmentRecord)
           /\ Len(Append(enrollments, r)) = Len(enrollments) + 1
           /\ DOMAIN Append(enrollments, r) = 1..Len(enrollments) + 1
           /\ \A j \in 1..Len(enrollments) : Append(enrollments, r)[j] = enrollments[j]
           /\ Append(enrollments, r)[Len(enrollments) + 1] = r
  BY AppendProperties DEF TypeOK

(* Taking or returning a seat changes one field of a course record.        *)
LEMMA SeatsMoved ==
    ASSUME NEW r \in SeatRecord
    PROVE  /\ [r EXCEPT !.avail = @ - 1] \in SeatRecord
           /\ [r EXCEPT !.avail = @ - 1].avail = r.avail - 1
           /\ [r EXCEPT !.avail = @ - 1].max = r.max
           /\ [r EXCEPT !.avail = @ + 1] \in SeatRecord
           /\ [r EXCEPT !.avail = @ + 1].avail = r.avail + 1
           /\ [r EXCEPT !.avail = @ + 1].max = r.max
  BY DEF SeatRecord

(* The least number of free seats of a course: none, or what was typed.    *)
LEMMA FloorIs ==
    ASSUME NEW c \in Course
    PROVE  /\ Floor(c) \in Int /\ Floor(c) \in {0, InitialSeats[c]}
           /\ Floor(c) <= 0 /\ Floor(c) <= InitialSeats[c]
<1>1. 0 \in Int /\ InitialSeats[c] \in Int
  BY DataAssumption
<1>2. /\ Floor(c) \in {0, InitialSeats[c]}
      /\ Floor(c) <= 0 /\ Floor(c) <= InitialSeats[c]
  BY <1>1, MinOfTwo, Zenon DEF Floor
<1>3. QED
  BY <1>1, <1>2

-----------------------------------------------------------------------------
(* The inductive invariant *)

(* From these steps on the course id of the call is known to be in the file.*)
CourseFound == (EnrollSteps \ {"waitCourse", "readCourse"})
                  \cup (DropSteps \ {"getCourse"}) \cup {"editing"}

CoursesKnown == \A t \in Thread : pc[t] \in CourseFound => call[t].course \in Course

(* From these steps on the call's copy of the course record may be written. *)
CopyWritten == {"waitEnrollToDrop", "findRecord", "markDropped",
                "waitCourseToReturn", "returnSeat", "editing"}

(* A copy made after the seat check still shows the seat it found; no copy  *)
(* shows fewer seats than the course may have.                              *)
CopiesHaveSeats ==
    \A t \in Thread :
        /\ pc[t] \in {"waitEnroll", "scan", "append", "takeSeat"} =>
              snap[t].avail > 0
        /\ pc[t] \in CopyWritten =>
              snap[t].avail >= Floor(call[t].course)

(* What the scan found still holds when the record is appended; a scan that *)
(* saw the whole file found no record of the pair and an id above all.      *)
AppendIsFresh ==
    \A t \in StudentSession :
        LET next == Len(enrollments) + 1 IN
        pc[t] = "append" =>
            /\ slot[t] <= next
            /\ next \notin blind =>
                  /\ ~OnRoster(Account[t], call[t].course)
                  /\ \A i \in DOMAIN enrollments : enrollments[i].id < slot[t]
            /\ (\A i \in 1..next : i \notin blind) => slot[t] = next

CopiesBounded == \A t \in Thread : Len(list[t]) <= MaxCourses

-----------------------------------------------------------------------------
(* Types: first what the shared parts of the actions do to the variables    *)
(* they assign, then one step per action.                                   *)

(* A thread moves only from step to step.                                  *)
LEMMA GotoType ==
    ASSUME TypeOK, NEW t \in Thread, NEW step \in Steps, Goto(t, step)
    PROVE  pc' \in [Thread -> Steps]
  BY DEF TypeOK, Goto

(* A locked mutex belongs to a thread.                                     *)
LEMMA AcquireType ==
    ASSUME TypeOK, NEW t \in Thread, NEW m \in Mutex, Acquire(t, m)
    PROVE  owner' \in [Mutex -> Thread \cup {NoThread}]
  BY DEF TypeOK, Acquire

(* An unlocked mutex belongs to a thread or to nobody.                     *)
LEMMA ReleaseType ==
    ASSUME TypeOK, NEW ms, Release(ms)
    PROVE  owner' \in [Mutex -> Thread \cup {NoThread}]
  BY DEF TypeOK, Release

(* A call that returns resets its locals to values of their types.         *)
LEMMA ReturnType ==
    ASSUME TypeOK, NEW t \in Thread, NEW code \in Codes, Return(t, code)
    PROVE  /\ pc' \in [Thread -> Steps]
           /\ answer' \in [Thread -> Codes]
           /\ snap' \in [Thread -> SeatRecord]
           /\ list' \in [Thread -> Seq(Course)]
           /\ slot' \in [Thread -> Nat]
<1>1. "idle" \in Steps /\ NoRecord \in SeatRecord /\ << >> \in Seq(Course)
  BY DEF Steps, NoRecord, SeatRecord
<1>2. QED
  BY <1>1, GotoType DEF TypeOK, Return

(* Goto moves one thread and no other.                                     *)
LEMMA GotoIs ==
    ASSUME TypeOK, NEW t \in Thread, NEW step, Goto(t, step)
    PROVE  \A u \in Thread : pc'[u] = IF u = t THEN step ELSE pc[u]
  BY DEF TypeOK, Goto

(* Return ends the call of one thread and clears its locals, nobody else's.*)
LEMMA ReturnIs ==
    ASSUME TypeOK, NEW t \in Thread, NEW code, Return(t, code)
    PROVE  \A u \in Thread :
              /\ pc'[u] = IF u = t THEN "idle" ELSE pc[u]
              /\ snap'[u] = IF u = t THEN NoRecord ELSE snap[u]
              /\ list'[u] = IF u = t THEN << >> ELSE list[u]
              /\ slot'[u] = IF u = t THEN 0 ELSE slot[u]
  BY GotoIs DEF TypeOK, Return

(* Release frees the mutexes it names and no other.                        *)
LEMMA ReleaseIs ==
    ASSUME TypeOK, NEW ms, Release(ms)
    PROVE  \A m \in Mutex : owner'[m] = IF m \in ms THEN NoThread ELSE owner[m]
  BY DEF Release

(* Acquire takes a free mutex and touches no other.                        *)
LEMMA AcquireIs ==
    ASSUME TypeOK, NEW t \in Thread, NEW m \in Mutex, Acquire(t, m)
    PROVE  /\ owner[m] = NoThread
           /\ \A n \in Mutex : owner'[n] = IF n = m THEN t ELSE owner[n]
  BY DEF TypeOK, Acquire

(* Begin records the course id that an idle session's user typed.          *)
LEMMA BeginIs ==
    ASSUME TypeOK, NEW t \in Thread, NEW op, NEW c, Begin(t, op, c)
    PROVE  /\ pc[t] = "idle"
           /\ call'[t].course = c
           /\ \A u \in Thread \ {t} : call'[u] = call[u]
  BY DEF TypeOK, Begin

(* Re-reading the student record leaves each copy as it was or fresh.      *)
LEMMA RereadIs ==
    ASSUME TypeOK, NEW t \in StudentSession, RereadList(t)
    PROVE  \A u \in Thread : \/ list'[u] = list[u]
                              \/ list'[u] = students[Account[t]]
  BY DEF TypeOK, RereadList, Thread

(* ReadStudent copies one student's list.                                  *)
LEMMA ReadStudentIs ==
    ASSUME TypeOK, NEW t \in StudentSession, ReadStudent(t)
    PROVE  /\ list' \in [Thread -> Seq(Course)]
           /\ answer' \in [Thread -> Codes]
           /\ UNCHANGED <<snap, slot>>
           /\ \A u \in Thread : list'[u] \in {list[u], students[Account[t]]}
<1>1. students[Account[t]] \in Seq(Course) /\ "none" \in Codes
  BY SessionsAssumption DEF TypeOK, Codes
<1>2. QED
  BY <1>1 DEF TypeOK, ReadStudent

(* A call is begun with an id from the input set, hence is a Call.         *)
LEMMA BeginType ==
    ASSUME TypeOK, NEW t \in Thread, NEW op \in {"enroll", "drop", "edit"},
           NEW c \in Course \cup {NoSuchCourse}, Begin(t, op, c)
    PROVE  /\ calls' \in [Thread -> Nat]
           /\ call' \in [Thread -> Call]
<1>1. [op |-> op, course |-> c] \in Call
  BY DEF Call
<1>2. QED
  BY <1>1 DEF TypeOK, Begin

(* Every step keeps the types. *)
LEMMA TypeStep ==
    ASSUME TypeOK, CoursesKnown, IdsInPlace, CancelsOwnRecord, [Next]_vars
    PROVE  TypeOK'
<1> USE SessionsAssumption, DataAssumption, GotoType, AcquireType, ReleaseType,
        ReturnType, BeginType
    DEF Thread, Mutex, Codes, GiveUp, Steps, EnrollSteps, DropSteps, EditSteps,
        files, locals
<1>1. ASSUME NEW t \in StudentSession, NEW c \in Course \cup {NoSuchCourse},
            BeginEnroll(t, c)
     PROVE  TypeOK'
  <2>1. CASE \E code \in Codes : Return(t, code)
    <3>1. /\ pc' \in [Thread -> Steps] /\ answer' \in [Thread -> Codes]
          /\ snap' \in [Thread -> SeatRecord] /\ list' \in [Thread -> Seq(Course)]
          /\ slot' \in [Thread -> Nat]
      <4>1. PICK code \in Codes : Return(t, code)
        BY <2>1
      <4>2. t \in Thread
        OBVIOUS
      <4> HIDE DEF Thread, Codes, Steps
      <4>3. QED
        BY <4>1, <4>2, ReturnType
    <3>2. calls' \in [Thread -> Nat] /\ call' \in [Thread -> Call]
      BY <1>1 DEF BeginEnroll
    <3>3. QED
      BY <1>1, <3>1, <3>2 DEF TypeOK, BeginEnroll
  <2>2. CASE ReadStudent(t) /\ \E step \in Steps : Goto(t, step)
    BY <1>1, <2>2, ReadStudentIs DEF TypeOK, BeginEnroll
  <2>3. QED
    BY <1>1, <2>1, <2>2 DEF BeginEnroll
<1>2. ASSUME NEW t \in StudentSession, NEW c \in Course \cup {NoSuchCourse},
            BeginDrop(t, c)
     PROVE  TypeOK'
  <2>1. CASE \E code \in Codes : Return(t, code)
    <3>1. /\ pc' \in [Thread -> Steps] /\ answer' \in [Thread -> Codes]
          /\ snap' \in [Thread -> SeatRecord] /\ list' \in [Thread -> Seq(Course)]
          /\ slot' \in [Thread -> Nat]
      <4>1. PICK code \in Codes : Return(t, code)
        BY <2>1
      <4>2. t \in Thread
        OBVIOUS
      <4> HIDE DEF Thread, Codes, Steps
      <4>3. QED
        BY <4>1, <4>2, ReturnType
    <3>2. calls' \in [Thread -> Nat] /\ call' \in [Thread -> Call]
      BY <1>2 DEF BeginDrop
    <3>3. QED
      BY <1>2, <3>1, <3>2 DEF TypeOK, BeginDrop
  <2>2. CASE ReadStudent(t) /\ \E step \in Steps : Goto(t, step)
    BY <1>2, <2>2, ReadStudentIs DEF TypeOK, BeginDrop
  <2>3. QED
    BY <1>2, <2>1, <2>2 DEF BeginDrop
<1>3. ASSUME NEW t \in FacultySession, NEW c \in Course \cup {NoSuchCourse},
            BeginEdit(t, c)
     PROVE  TypeOK'
  BY <1>3 DEF TypeOK, BeginEdit
<1>4. ASSUME NEW t \in StudentSession, LockCourse(t)
     PROVE  TypeOK'
  BY <1>4 DEF TypeOK, LockCourse
<1>5. ASSUME NEW t \in StudentSession, ReadCourse(t)
     PROVE  TypeOK'
  BY ZenonT(30), <1>5 DEF TypeOK, ReadCourse
<1>6. ASSUME NEW t \in StudentSession, LockEnroll(t)
     PROVE  TypeOK'
  BY <1>6 DEF TypeOK, LockEnroll
<1>7. ASSUME NEW t \in StudentSession, Scan(t)
     PROVE  TypeOK'
  <2>1. CASE /\ \E code \in Codes : Return(t, code)
             /\ Release({"course", "enroll"})
             /\ UNCHANGED blind
    <3>1. PICK code \in Codes : Return(t, code)
      BY <2>1
    <3>2. /\ pc' \in [Thread -> Steps] /\ answer' \in [Thread -> Codes]
          /\ snap' \in [Thread -> SeatRecord] /\ list' \in [Thread -> Seq(Course)]
          /\ slot' \in [Thread -> Nat]
      <4>1. t \in Thread
        OBVIOUS
      <4> HIDE DEF Thread, Codes, Steps
      <4>2. QED
        BY <3>1, <4>1, ReturnType
    <3>3. owner' \in [Mutex -> Thread \cup {NoThread}]
      BY <2>1
    <3>4. UNCHANGED <<files, call, calls, crashes, blind>>
      BY <1>7, <2>1 DEF Scan
    <3>5. QED
      BY <3>2, <3>3, <3>4 DEF TypeOK
  <2>2. CASE \E n \in ReadBefore : /\ slot' = [slot EXCEPT ![t] = NextId(n)]
                                   /\ blind' = Judged(n)
                                   /\ Goto(t, "append")
                                   /\ UNCHANGED <<owner, answer, snap, list>>
    <3>1. ReadBefore \in SUBSET (0..Len(enrollments)) /\ Len(enrollments) \in Nat
      BY DEF ReadBefore, TypeOK
    <3>2. PICK n \in 0..Len(enrollments) : /\ slot' = [slot EXCEPT ![t] = NextId(n)]
                                           /\ blind' = Judged(n)
      BY <2>2, <3>1
    <3>3. NextId(n) \in Nat
      BY <3>1, NextIdIs
    <3>4. slot' \in [Thread -> Nat] /\ blind' \subseteq Nat
      <4>1. Len(enrollments) + 1 \in Nat /\ blind \subseteq Nat
        BY <3>1 DEF TypeOK
      <4>2. blind' \subseteq blind \cup {Len(enrollments) + 1}
        BY <3>2 DEF Judged
      <4>3. slot' \in [Thread -> Nat]
        BY <3>2, <3>3 DEF TypeOK
      <4>4. QED
        BY <4>1, <4>2, <4>3
    <3>5. QED
      BY <1>7, <2>2, <3>4 DEF TypeOK, Scan
  <2>3. QED
    BY <1>7, <2>1, <2>2 DEF Scan
<1>8. ASSUME NEW t \in StudentSession, AppendRecord(t)
     PROVE  TypeOK'
  <2>1. [id |-> slot[t], student |-> Account[t], course |-> call[t].course]
           \in EnrollmentRecord
    BY <1>8 DEF TypeOK, CoursesKnown, CourseFound, AppendRecord, EnrollmentRecord
  <2>2. Append(enrollments, [id |-> slot[t], student |-> Account[t],
                             course |-> call[t].course]) \in Seq(EnrollmentRecord)
    BY <2>1, AppendIs
  <2>3. enrollments' \in Seq(EnrollmentRecord)
    BY <1>8, <2>2 DEF TypeOK, AppendRecord
  <2>4. QED
    BY <1>8, <2>3 DEF TypeOK, AppendRecord
<1>9. ASSUME NEW t \in StudentSession, TakeSeat(t)
     PROVE  TypeOK'
  <2>1. [snap[t] EXCEPT !.avail = @ - 1] \in SeatRecord
    <3>1. snap[t] \in SeatRecord
      BY DEF TypeOK
    <3>2. QED
      BY <3>1, SeatsMoved
  <2>2. courses' \in [Course -> SeatRecord]
    BY <1>9, <2>1 DEF TypeOK, TakeSeat
  <2>3. QED
    BY <1>9, <2>2 DEF TypeOK, TakeSeat
<1>10. ASSUME NEW t \in StudentSession, LockStudent(t)
     PROVE  TypeOK'
  BY <1>10 DEF TypeOK, LockStudent
<1>11. ASSUME NEW t \in StudentSession, Reread(t)
     PROVE  TypeOK'
  <2>1. list' \in [Thread -> Seq(Course)]
    BY <1>11 DEF TypeOK, Reread, RereadList
  <2>2. QED
    BY <1>11, <2>1 DEF TypeOK, Reread
<1>12. ASSUME NEW t \in StudentSession, AddToList(t)
     PROVE  TypeOK'
  <2>1. Append(list[t], call[t].course) \in Seq(Course)
    BY <1>12, AppendProperties DEF TypeOK, CoursesKnown, CourseFound, AddToList
  <2>2. students' \in [Student -> Seq(Course)]
    BY <1>12, <2>1 DEF TypeOK, AddToList
  <2>3. QED
    BY <1>12, <2>2 DEF TypeOK, AddToList
<1>13. ASSUME NEW t \in StudentSession, GetCourse(t)
     PROVE  TypeOK'
  BY <1>13 DEF TypeOK, GetCourse
<1>14. ASSUME NEW t \in StudentSession, LockEnrollToDrop(t)
     PROVE  TypeOK'
  BY <1>14 DEF TypeOK, LockEnrollToDrop
<1>15. ASSUME NEW t \in StudentSession, FindRecord(t)
     PROVE  TypeOK'
  <2>1. ASSUME OwnRecords(t) # {}
        PROVE  Min(OwnRecords(t)) \in Nat
    <3>1. OwnRecords(t) \in SUBSET Nat
      BY DEF OwnRecords, TypeOK
    <3>2. QED
      BY <2>1, <3>1, MinIsIn
  <2>2. slot' \in [Thread -> Nat]
    BY <1>15, <2>1 DEF TypeOK, FindRecord
  <2>3. QED
    BY <1>15, <2>2 DEF TypeOK, FindRecord
<1>16. ASSUME NEW t \in StudentSession, MarkDropped(t)
     PROVE  TypeOK'
  <2>1. Cancelled(slot[t]) \in Seq(EnrollmentRecord)
    <3>1. slot[t] \in 1..Len(enrollments)
      BY <1>16 DEF CancelsOwnRecord, TypeOK, MarkDropped
    <3>2. QED
      BY <3>1, CancelledIs
  <2>2. QED
    BY <1>16, <2>1 DEF TypeOK, MarkDropped
<1>17. ASSUME NEW t \in StudentSession, LockCourseToReturn(t)
     PROVE  TypeOK'
  BY <1>17 DEF TypeOK, LockCourseToReturn
<1>18. ASSUME NEW t \in StudentSession, ReturnSeat(t)
     PROVE  TypeOK'
  <2>1. [snap[t] EXCEPT !.avail = @ + 1] \in SeatRecord
    <3>1. snap[t] \in SeatRecord
      BY DEF TypeOK
    <3>2. QED
      BY <3>1, SeatsMoved
  <2>2. courses' \in [Course -> SeatRecord]
    BY <1>18, <2>1 DEF TypeOK, ReturnSeat
  <2>3. QED
    BY <1>18, <2>2 DEF TypeOK, ReturnSeat
<1>19. ASSUME NEW t \in StudentSession, LockStudentToRemove(t)
     PROVE  TypeOK'
  BY <1>19 DEF TypeOK, LockStudentToRemove
<1>20. ASSUME NEW t \in StudentSession, RereadToRemove(t)
     PROVE  TypeOK'
  <2>1. list' \in [Thread -> Seq(Course)]
    BY <1>20 DEF TypeOK, RereadToRemove, RereadList
  <2>2. QED
    BY <1>20, <2>1 DEF TypeOK, RereadToRemove
<1>21. ASSUME NEW t \in StudentSession, RemoveFromList(t)
     PROVE  TypeOK'
  <2>1. Without(list[t], call[t].course) \in Seq(Course)
    BY WithoutType DEF TypeOK
  <2>2. students' \in [Student -> Seq(Course)]
    BY <1>21, <2>1 DEF TypeOK, RemoveFromList
  <2>3. QED
    BY <1>21, <2>2 DEF TypeOK, RemoveFromList
<1>22. ASSUME NEW t \in FacultySession, GetCourseToEdit(t)
     PROVE  TypeOK'
  BY <1>22 DEF TypeOK, GetCourseToEdit
<1>23. ASSUME NEW t \in FacultySession, FinishEdit(t)
     PROVE  TypeOK'
  <2>1. snap[t] \in SeatRecord /\ \A n \in NewMaxSeats : WithLimit(snap[t], n) \in SeatRecord
    BY DEF TypeOK, SeatRecord, WithLimit, Taken
  <2>2. ASSUME NEW r \in SeatRecord, WriteEdit(t, r)
        PROVE  TypeOK'
    <3>1. courses' \in [Course -> SeatRecord]
      BY <2>2 DEF TypeOK, WriteEdit
    <3>2. QED
      BY <1>23, <2>2, <3>1 DEF TypeOK, FinishEdit, WriteEdit
  <2>3. QED
    BY <1>23, <2>1, <2>2 DEF TypeOK, FinishEdit
<1>24. CASE Crash
  <2>1. "idle" \in Steps /\ NoRecord \in SeatRecord /\ << >> \in Seq(Course)
        /\ NoCall \in Call /\ "none" \in Codes
    BY DEF NoRecord, SeatRecord, NoCall, Call
  <2>2. QED
    BY <1>24, <2>1 DEF TypeOK, Crash
<1>25. CASE UNCHANGED vars
  BY <1>25 DEF TypeOK, vars
<1>26. QED
  BY <1>1, <1>2, <1>3, <1>4, <1>5, <1>6, <1>7, <1>8, <1>9, <1>10, <1>11,
     <1>12, <1>13, <1>14, <1>15, <1>16, <1>17, <1>18, <1>19, <1>20,
     <1>21, <1>22, <1>23, <1>24, <1>25
     DEF Next, StudentStep, EnrollStep, DropStep, Waiting

(* Every step keeps the mutexes and the places of the threads in agreement. *)
LEMMA LockDisciplineStep ==
    ASSUME TypeOK, LockDiscipline, [Next]_vars
    PROVE  LockDiscipline'
<1> USE SessionsAssumption, GotoIs, ReturnIs, ReleaseIs, AcquireIs
    DEF LockDiscipline, Holds, Mutex, Thread, GiveUp
<1>1. ASSUME NEW t \in StudentSession, NEW c \in Course \cup {NoSuchCourse},
            BeginEnroll(t, c)
     PROVE  LockDiscipline'
  BY <1>1 DEF BeginEnroll, Begin
<1>2. ASSUME NEW t \in StudentSession, NEW c \in Course \cup {NoSuchCourse},
            BeginDrop(t, c)
     PROVE  LockDiscipline'
  BY <1>2 DEF BeginDrop, Begin
<1>3. ASSUME NEW t \in FacultySession, NEW c \in Course \cup {NoSuchCourse},
            BeginEdit(t, c)
     PROVE  LockDiscipline'
  BY <1>3 DEF BeginEdit, Begin
<1>4. ASSUME NEW t \in StudentSession, LockCourse(t)
     PROVE  LockDiscipline'
  BY <1>4 DEF LockCourse
<1>5. ASSUME NEW t \in StudentSession, ReadCourse(t)
     PROVE  LockDiscipline'
  BY <1>5 DEF ReadCourse
<1>6. ASSUME NEW t \in StudentSession, LockEnroll(t)
     PROVE  LockDiscipline'
  BY <1>6 DEF LockEnroll
<1>7. ASSUME NEW t \in StudentSession, Scan(t)
     PROVE  LockDiscipline'
  BY <1>7 DEF Scan
<1>8. ASSUME NEW t \in StudentSession, AppendRecord(t)
     PROVE  LockDiscipline'
  BY <1>8 DEF AppendRecord
<1>9. ASSUME NEW t \in StudentSession, TakeSeat(t)
     PROVE  LockDiscipline'
  BY <1>9 DEF TakeSeat
<1>10. ASSUME NEW t \in StudentSession, LockStudent(t)
     PROVE  LockDiscipline'
  BY <1>10 DEF LockStudent
<1>11. ASSUME NEW t \in StudentSession, Reread(t)
     PROVE  LockDiscipline'
  BY <1>11 DEF Reread
<1>12. ASSUME NEW t \in StudentSession, AddToList(t)
     PROVE  LockDiscipline'
  BY <1>12 DEF AddToList
<1>13. ASSUME NEW t \in StudentSession, GetCourse(t)
     PROVE  LockDiscipline'
  BY <1>13 DEF GetCourse
<1>14. ASSUME NEW t \in StudentSession, LockEnrollToDrop(t)
     PROVE  LockDiscipline'
  BY <1>14 DEF LockEnrollToDrop
<1>15. ASSUME NEW t \in StudentSession, FindRecord(t)
     PROVE  LockDiscipline'
  BY <1>15 DEF FindRecord
<1>16. ASSUME NEW t \in StudentSession, MarkDropped(t)
     PROVE  LockDiscipline'
  BY <1>16 DEF MarkDropped
<1>17. ASSUME NEW t \in StudentSession, LockCourseToReturn(t)
     PROVE  LockDiscipline'
  BY <1>17 DEF LockCourseToReturn
<1>18. ASSUME NEW t \in StudentSession, ReturnSeat(t)
     PROVE  LockDiscipline'
  BY <1>18 DEF ReturnSeat
<1>19. ASSUME NEW t \in StudentSession, LockStudentToRemove(t)
     PROVE  LockDiscipline'
  BY <1>19 DEF LockStudentToRemove
<1>20. ASSUME NEW t \in StudentSession, RereadToRemove(t)
     PROVE  LockDiscipline'
  BY <1>20 DEF RereadToRemove
<1>21. ASSUME NEW t \in StudentSession, RemoveFromList(t)
     PROVE  LockDiscipline'
  BY <1>21 DEF RemoveFromList
<1>22. ASSUME NEW t \in FacultySession, GetCourseToEdit(t)
     PROVE  LockDiscipline'
  BY <1>22 DEF GetCourseToEdit
<1>23. ASSUME NEW t \in FacultySession, FinishEdit(t)
     PROVE  LockDiscipline'
  BY <1>23 DEF FinishEdit, WriteEdit
<1>24. CASE Crash
  BY <1>24 DEF Crash
<1>25. CASE UNCHANGED vars
  BY <1>25 DEF vars
<1>26. QED
  BY <1>1, <1>2, <1>3, <1>4, <1>5, <1>6, <1>7, <1>8, <1>9, <1>10, <1>11,
     <1>12, <1>13, <1>14, <1>15, <1>16, <1>17, <1>18, <1>19, <1>20,
     <1>21, <1>22, <1>23, <1>24, <1>25
     DEF Next, StudentStep, EnrollStep, DropStep, Waiting

(* A call gets past its look-up only with the id of a course in the file. *)
LEMMA CoursesKnownStep ==
    ASSUME TypeOK, CoursesKnown, [Next]_vars
    PROVE  CoursesKnown'
<1> USE SessionsAssumption, GotoIs, ReturnIs, BeginIs
    DEF CoursesKnown, Thread, CourseFound, EnrollSteps, DropSteps, GiveUp
<1>1. ASSUME NEW t \in StudentSession, NEW c \in Course \cup {NoSuchCourse},
            BeginEnroll(t, c)
     PROVE  CoursesKnown'
  BY <1>1 DEF BeginEnroll, ReadStudent
<1>2. ASSUME NEW t \in StudentSession, NEW c \in Course \cup {NoSuchCourse},
            BeginDrop(t, c)
     PROVE  CoursesKnown'
  BY <1>2 DEF BeginDrop, ReadStudent
<1>3. ASSUME NEW t \in FacultySession, NEW c \in Course \cup {NoSuchCourse},
            BeginEdit(t, c)
     PROVE  CoursesKnown'
  BY <1>3 DEF BeginEdit
<1>4. ASSUME NEW t \in StudentSession, LockCourse(t)
     PROVE  CoursesKnown'
  BY <1>4 DEF LockCourse
<1>5. ASSUME NEW t \in StudentSession, ReadCourse(t)
     PROVE  CoursesKnown'
  BY <1>5 DEF ReadCourse
<1>6. ASSUME NEW t \in StudentSession, LockEnroll(t)
     PROVE  CoursesKnown'
  BY <1>6 DEF LockEnroll
<1>7. ASSUME NEW t \in StudentSession, Scan(t)
     PROVE  CoursesKnown'
  BY <1>7 DEF Scan
<1>8. ASSUME NEW t \in StudentSession, AppendRecord(t)
     PROVE  CoursesKnown'
  BY <1>8 DEF AppendRecord
<1>9. ASSUME NEW t \in StudentSession, TakeSeat(t)
     PROVE  CoursesKnown'
  BY <1>9 DEF TakeSeat
<1>10. ASSUME NEW t \in StudentSession, LockStudent(t)
     PROVE  CoursesKnown'
  BY <1>10 DEF LockStudent
<1>11. ASSUME NEW t \in StudentSession, Reread(t)
     PROVE  CoursesKnown'
  BY <1>11 DEF Reread
<1>12. ASSUME NEW t \in StudentSession, AddToList(t)
     PROVE  CoursesKnown'
  BY <1>12 DEF AddToList
<1>13. ASSUME NEW t \in StudentSession, GetCourse(t)
     PROVE  CoursesKnown'
  BY <1>13 DEF GetCourse
<1>14. ASSUME NEW t \in StudentSession, LockEnrollToDrop(t)
     PROVE  CoursesKnown'
  BY <1>14 DEF LockEnrollToDrop
<1>15. ASSUME NEW t \in StudentSession, FindRecord(t)
     PROVE  CoursesKnown'
  BY <1>15 DEF FindRecord
<1>16. ASSUME NEW t \in StudentSession, MarkDropped(t)
     PROVE  CoursesKnown'
  BY <1>16 DEF MarkDropped
<1>17. ASSUME NEW t \in StudentSession, LockCourseToReturn(t)
     PROVE  CoursesKnown'
  BY <1>17 DEF LockCourseToReturn
<1>18. ASSUME NEW t \in StudentSession, ReturnSeat(t)
     PROVE  CoursesKnown'
  BY <1>18 DEF ReturnSeat
<1>19. ASSUME NEW t \in StudentSession, LockStudentToRemove(t)
     PROVE  CoursesKnown'
  BY <1>19 DEF LockStudentToRemove
<1>20. ASSUME NEW t \in StudentSession, RereadToRemove(t)
     PROVE  CoursesKnown'
  BY <1>20 DEF RereadToRemove
<1>21. ASSUME NEW t \in StudentSession, RemoveFromList(t)
     PROVE  CoursesKnown'
  BY <1>21 DEF RemoveFromList
<1>22. ASSUME NEW t \in FacultySession, GetCourseToEdit(t)
     PROVE  CoursesKnown'
  BY <1>22 DEF GetCourseToEdit
<1>23. ASSUME NEW t \in FacultySession, FinishEdit(t)
     PROVE  CoursesKnown'
  BY <1>23 DEF FinishEdit, WriteEdit
<1>24. CASE Crash
  BY <1>24 DEF Crash
<1>25. CASE UNCHANGED vars
  BY <1>25 DEF vars
<1>26. QED
  BY <1>1, <1>2, <1>3, <1>4, <1>5, <1>6, <1>7, <1>8, <1>9, <1>10, <1>11,
     <1>12, <1>13, <1>14, <1>15, <1>16, <1>17, <1>18, <1>19, <1>20,
     <1>21, <1>22, <1>23, <1>24, <1>25
     DEF Next, StudentStep, EnrollStep, DropStep, Waiting

(* The list of a student grows only from a copy with room for one more. *)
LEMMA ListsBoundedStep ==
    ASSUME TypeOK, CoursesKnown, StudentListBounded, CopiesBounded, [Next]_vars
    PROVE  StudentListBounded' /\ CopiesBounded'
<1> USE SessionsAssumption, DataAssumption, ReturnIs, RereadIs
    DEF StudentListBounded, CopiesBounded, Thread, GiveUp, files, locals
<1>1. ASSUME NEW t \in StudentSession, NEW c \in Course \cup {NoSuchCourse},
            BeginEnroll(t, c)
     PROVE  StudentListBounded' /\ CopiesBounded'
  <2>1. UNCHANGED students
    BY <1>1 DEF BeginEnroll
  <2>2. \A u \in Thread : list'[u] \in {list[u], << >>, students[Account[t]]}
    BY <1>1, ReadStudentIs DEF BeginEnroll
  <2>3. QED
    BY <2>1, <2>2
<1>2. ASSUME NEW t \in StudentSession, NEW c \in Course \cup {NoSuchCourse},
            BeginDrop(t, c)
     PROVE  StudentListBounded' /\ CopiesBounded'
  <2>1. UNCHANGED students
    BY <1>2 DEF BeginDrop
  <2>2. \A u \in Thread : list'[u] \in {list[u], << >>, students[Account[t]]}
    BY <1>2, ReadStudentIs DEF BeginDrop
  <2>3. QED
    BY <2>1, <2>2
<1>3. ASSUME NEW t \in FacultySession, NEW c \in Course \cup {NoSuchCourse},
            BeginEdit(t, c)
     PROVE  StudentListBounded' /\ CopiesBounded'
  BY <1>3 DEF BeginEdit
<1>4. ASSUME NEW t \in StudentSession, LockCourse(t)
     PROVE  StudentListBounded' /\ CopiesBounded'
  BY <1>4 DEF LockCourse
<1>5. ASSUME NEW t \in StudentSession, ReadCourse(t)
     PROVE  StudentListBounded' /\ CopiesBounded'
  BY <1>5 DEF ReadCourse
<1>6. ASSUME NEW t \in StudentSession, LockEnroll(t)
     PROVE  StudentListBounded' /\ CopiesBounded'
  BY <1>6 DEF LockEnroll
<1>7. ASSUME NEW t \in StudentSession, Scan(t)
     PROVE  StudentListBounded' /\ CopiesBounded'
  BY <1>7 DEF Scan
<1>8. ASSUME NEW t \in StudentSession, AppendRecord(t)
     PROVE  StudentListBounded' /\ CopiesBounded'
  BY <1>8 DEF AppendRecord
<1>9. ASSUME NEW t \in StudentSession, TakeSeat(t)
     PROVE  StudentListBounded' /\ CopiesBounded'
  BY <1>9 DEF TakeSeat
<1>10. ASSUME NEW t \in StudentSession, LockStudent(t)
     PROVE  StudentListBounded' /\ CopiesBounded'
  BY <1>10 DEF LockStudent
<1>11. ASSUME NEW t \in StudentSession, Reread(t)
     PROVE  StudentListBounded' /\ CopiesBounded'
  BY <1>11 DEF Reread
<1>12. ASSUME NEW t \in StudentSession, AddToList(t)
     PROVE  StudentListBounded' /\ CopiesBounded'
  <2>1. call[t].course \in Course /\ list[t] \in Seq(Course) /\ Account[t] \in Student
    BY <1>12 DEF CoursesKnown, CourseFound, EnrollSteps, AddToList, TypeOK
  <2>2. ASSUME HasRoom(list[t])
        PROVE  Len(Append(list[t], call[t].course)) <= MaxCourses
    BY <2>1, <2>2, AppendProperties DEF HasRoom
  <2>3. StudentListBounded'
    BY ZenonT(30), <1>12, <2>1, <2>2 DEF AddToList, TypeOK
  <2>4. CopiesBounded'
    BY <1>12 DEF AddToList
  <2>5. QED
    BY <2>3, <2>4
<1>13. ASSUME NEW t \in StudentSession, GetCourse(t)
     PROVE  StudentListBounded' /\ CopiesBounded'
  BY <1>13 DEF GetCourse
<1>14. ASSUME NEW t \in StudentSession, LockEnrollToDrop(t)
     PROVE  StudentListBounded' /\ CopiesBounded'
  BY <1>14 DEF LockEnrollToDrop
<1>15. ASSUME NEW t \in StudentSession, FindRecord(t)
     PROVE  StudentListBounded' /\ CopiesBounded'
  BY <1>15 DEF FindRecord
<1>16. ASSUME NEW t \in StudentSession, MarkDropped(t)
     PROVE  StudentListBounded' /\ CopiesBounded'
  BY <1>16 DEF MarkDropped
<1>17. ASSUME NEW t \in StudentSession, LockCourseToReturn(t)
     PROVE  StudentListBounded' /\ CopiesBounded'
  BY <1>17 DEF LockCourseToReturn
<1>18. ASSUME NEW t \in StudentSession, ReturnSeat(t)
     PROVE  StudentListBounded' /\ CopiesBounded'
  BY <1>18 DEF ReturnSeat
<1>19. ASSUME NEW t \in StudentSession, LockStudentToRemove(t)
     PROVE  StudentListBounded' /\ CopiesBounded'
  BY <1>19 DEF LockStudentToRemove
<1>20. ASSUME NEW t \in StudentSession, RereadToRemove(t)
     PROVE  StudentListBounded' /\ CopiesBounded'
  BY <1>20 DEF RereadToRemove
<1>21. ASSUME NEW t \in StudentSession, RemoveFromList(t)
     PROVE  StudentListBounded' /\ CopiesBounded'
  <2>1. Len(Without(list[t], call[t].course)) <= MaxCourses
    <3>1. list[t] \in Seq(Course) /\ Len(list[t]) <= MaxCourses
      BY DEF TypeOK
    <3>2. QED
      BY <3>1, WithoutType
  <2>2. StudentListBounded'
    BY ZenonT(30), <1>21, <2>1 DEF RemoveFromList, TypeOK
  <2>3. CopiesBounded'
    BY <1>21 DEF RemoveFromList
  <2>4. QED
    BY <2>2, <2>3
<1>22. ASSUME NEW t \in FacultySession, GetCourseToEdit(t)
     PROVE  StudentListBounded' /\ CopiesBounded'
  BY <1>22 DEF GetCourseToEdit
<1>23. ASSUME NEW t \in FacultySession, FinishEdit(t)
     PROVE  StudentListBounded' /\ CopiesBounded'
  BY <1>23 DEF FinishEdit, WriteEdit
<1>24. CASE Crash
  BY <1>24 DEF Crash
<1>25. CASE UNCHANGED vars
  BY <1>25 DEF vars
<1>26. QED
  BY <1>1, <1>2, <1>3, <1>4, <1>5, <1>6, <1>7, <1>8, <1>9, <1>10, <1>11,
     <1>12, <1>13, <1>14, <1>15, <1>16, <1>17, <1>18, <1>19, <1>20,
     <1>21, <1>22, <1>23, <1>24, <1>25
     DEF Next, StudentStep, EnrollStep, DropStep, Waiting

(* No write of a copy, however old, takes a count below zero, or below what *)
(* was typed.                                                               *)
LEMMA SeatsStep ==
    ASSUME TypeOK, CoursesKnown, SeatsNonNegative, CopiesHaveSeats, [Next]_vars
    PROVE  SeatsNonNegative' /\ CopiesHaveSeats'
<1> USE SessionsAssumption, DataAssumption, GotoIs, ReturnIs
    DEF SeatsNonNegative, CopiesHaveSeats, CopyWritten, Thread, GiveUp, files, locals
<1>1. ASSUME NEW t \in StudentSession, NEW c \in Course \cup {NoSuchCourse},
            BeginEnroll(t, c)
     PROVE  SeatsNonNegative' /\ CopiesHaveSeats'
  BY <1>1, BeginIs DEF BeginEnroll, ReadStudent
<1>2. ASSUME NEW t \in StudentSession, NEW c \in Course \cup {NoSuchCourse},
            BeginDrop(t, c)
     PROVE  SeatsNonNegative' /\ CopiesHaveSeats'
  BY <1>2, BeginIs DEF BeginDrop, ReadStudent
<1>3. ASSUME NEW t \in FacultySession, NEW c \in Course \cup {NoSuchCourse},
            BeginEdit(t, c)
     PROVE  SeatsNonNegative' /\ CopiesHaveSeats'
  BY <1>3, BeginIs DEF BeginEdit
<1>4. ASSUME NEW t \in StudentSession, LockCourse(t)
     PROVE  SeatsNonNegative' /\ CopiesHaveSeats'
  BY <1>4 DEF LockCourse
<1>5. ASSUME NEW t \in StudentSession, ReadCourse(t)
     PROVE  SeatsNonNegative' /\ CopiesHaveSeats'
  <2>1. snap \in [Thread -> SeatRecord] /\ \A c \in Course : courses[c].avail \in Int
    BY DEF TypeOK, SeatRecord
  <2>2. CopiesHaveSeats'
    BY <1>5, <2>1 DEF ReadCourse, HasSeat
  <2>3. SeatsNonNegative'
    BY <1>5 DEF ReadCourse
  <2>4. QED
    BY <2>2, <2>3
<1>6. ASSUME NEW t \in StudentSession, LockEnroll(t)
     PROVE  SeatsNonNegative' /\ CopiesHaveSeats'
  BY <1>6 DEF LockEnroll
<1>7. ASSUME NEW t \in StudentSession, Scan(t)
     PROVE  SeatsNonNegative' /\ CopiesHaveSeats'
  BY <1>7 DEF Scan
<1>8. ASSUME NEW t \in StudentSession, AppendRecord(t)
     PROVE  SeatsNonNegative' /\ CopiesHaveSeats'
  BY <1>8 DEF AppendRecord
<1>9. ASSUME NEW t \in StudentSession, TakeSeat(t)
     PROVE  SeatsNonNegative' /\ CopiesHaveSeats'
  <2>1. snap[t] \in SeatRecord /\ snap[t].avail > 0
    BY <1>9 DEF TakeSeat, TypeOK
  <2>2. /\ [snap[t] EXCEPT !.avail = @ - 1].avail \in Int
        /\ [snap[t] EXCEPT !.avail = @ - 1].avail >= 0
    BY <2>1, SeatsMoved DEF SeatRecord
  <2>3. SeatsNonNegative'
    <3>1. \A c \in Course : [snap[t] EXCEPT !.avail = @ - 1].avail >= Floor(c)
      BY <2>2, FloorIs
    <3>2. QED
      BY <1>9, <3>1 DEF TakeSeat, TypeOK
  <2>4. CopiesHaveSeats'
    BY <1>9 DEF TakeSeat
  <2>5. QED
    BY <2>3, <2>4
<1>10. ASSUME NEW t \in StudentSession, LockStudent(t)
     PROVE  SeatsNonNegative' /\ CopiesHaveSeats'
  BY <1>10 DEF LockStudent
<1>11. ASSUME NEW t \in StudentSession, Reread(t)
     PROVE  SeatsNonNegative' /\ CopiesHaveSeats'
  BY <1>11 DEF Reread
<1>12. ASSUME NEW t \in StudentSession, AddToList(t)
     PROVE  SeatsNonNegative' /\ CopiesHaveSeats'
  BY <1>12 DEF AddToList
<1>13. ASSUME NEW t \in StudentSession, GetCourse(t)
     PROVE  SeatsNonNegative' /\ CopiesHaveSeats'
  <2>1. snap \in [Thread -> SeatRecord] /\ \A c \in Course : courses[c].avail \in Int
    BY DEF TypeOK, SeatRecord
  <2>2. CopiesHaveSeats'
    BY SMTT(30), <1>13, <2>1 DEF GetCourse
  <2>3. SeatsNonNegative'
    BY <1>13 DEF GetCourse
  <2>4. QED
    BY <2>2, <2>3
<1>14. ASSUME NEW t \in StudentSession, LockEnrollToDrop(t)
     PROVE  SeatsNonNegative' /\ CopiesHaveSeats'
  BY <1>14 DEF LockEnrollToDrop
<1>15. ASSUME NEW t \in StudentSession, FindRecord(t)
     PROVE  SeatsNonNegative' /\ CopiesHaveSeats'
  BY <1>15 DEF FindRecord
<1>16. ASSUME NEW t \in StudentSession, MarkDropped(t)
     PROVE  SeatsNonNegative' /\ CopiesHaveSeats'
  BY <1>16 DEF MarkDropped
<1>17. ASSUME NEW t \in StudentSession, LockCourseToReturn(t)
     PROVE  SeatsNonNegative' /\ CopiesHaveSeats'
  BY <1>17 DEF LockCourseToReturn
<1>18. ASSUME NEW t \in StudentSession, ReturnSeat(t)
     PROVE  SeatsNonNegative' /\ CopiesHaveSeats'
  <2> DEFINE c == call[t].course
             floor == Floor(c)
  <2>1. c \in Course /\ snap[t] \in SeatRecord /\ snap[t].avail >= floor
    BY <1>18 DEF ReturnSeat, TypeOK, CoursesKnown, CourseFound, DropSteps
  <2>2. [snap[t] EXCEPT !.avail = @ + 1].avail >= floor
    BY <2>1, FloorIs, SeatsMoved DEF SeatRecord
  <2>3. SeatsNonNegative'
    BY <1>18, <2>1, <2>2 DEF ReturnSeat, TypeOK
  <2>4. CopiesHaveSeats'
    BY <1>18 DEF ReturnSeat
  <2>5. QED
    BY <2>3, <2>4
<1>19. ASSUME NEW t \in StudentSession, LockStudentToRemove(t)
     PROVE  SeatsNonNegative' /\ CopiesHaveSeats'
  BY <1>19 DEF LockStudentToRemove
<1>20. ASSUME NEW t \in StudentSession, RereadToRemove(t)
     PROVE  SeatsNonNegative' /\ CopiesHaveSeats'
  BY <1>20 DEF RereadToRemove
<1>21. ASSUME NEW t \in StudentSession, RemoveFromList(t)
     PROVE  SeatsNonNegative' /\ CopiesHaveSeats'
  BY <1>21 DEF RemoveFromList
<1>22. ASSUME NEW t \in FacultySession, GetCourseToEdit(t)
     PROVE  SeatsNonNegative' /\ CopiesHaveSeats'
  <2>1. snap \in [Thread -> SeatRecord] /\ \A c \in Course : courses[c].avail \in Int
    BY DEF TypeOK, SeatRecord
  <2>2. Teaches[t] \in SUBSET Course
    OBVIOUS
  <2>3. CopiesHaveSeats'
    <3>1. CASE \E code : Return(t, code)
      BY <1>22, <3>1 DEF GetCourseToEdit
    <3>2. CASE /\ call[t].course \in Teaches[t]
               /\ snap' = [snap EXCEPT ![t] = courses[call[t].course]]
               /\ Goto(t, "editing")
      <4>1. courses[call[t].course].avail >= Floor(call[t].course)
        BY <2>2, <3>2
      <4>2. QED
        BY <1>22, <2>1, <3>2, <4>1 DEF GetCourseToEdit
    <3>3. QED
      BY <1>22, <3>1, <3>2 DEF GetCourseToEdit
  <2>4. SeatsNonNegative'
    BY <1>22 DEF GetCourseToEdit
  <2>5. QED
    BY <2>3, <2>4
<1>23. ASSUME NEW t \in FacultySession, FinishEdit(t)
     PROVE  SeatsNonNegative' /\ CopiesHaveSeats'
  <2> DEFINE c == call[t].course
             floor == Floor(c)
  <2>1. c \in Course /\ snap[t] \in SeatRecord /\ snap[t].avail >= floor
    BY <1>23 DEF FinishEdit, TypeOK, CoursesKnown, CourseFound
  <2>2. ASSUME NEW n \in NewMaxSeats, LimitFits(snap[t], n)
        PROVE  WithLimit(snap[t], n).avail >= floor
    <3>1. WithLimit(snap[t], n).avail \in Int /\ WithLimit(snap[t], n).avail >= 0
      BY <2>1, <2>2 DEF LimitFits, WithLimit, Taken, SeatRecord
    <3>2. QED
      BY <2>1, <3>1, FloorIs
  <2>3. ASSUME NEW r, r.avail >= floor, WriteEdit(t, r)
        PROVE  SeatsNonNegative' /\ CopiesHaveSeats'
    <3>1. SeatsNonNegative'
      BY <2>1, <2>3 DEF WriteEdit, TypeOK
    <3>2. \E code : Return(t, code)
      BY <2>3 DEF WriteEdit, Codes
    <3>3. CopiesHaveSeats'
      BY <1>23, <3>2 DEF FinishEdit
    <3>4. QED
      BY <3>1, <3>3
  <2>4. ASSUME Return(t, "FAILURE"), UNCHANGED courses
        PROVE  SeatsNonNegative' /\ CopiesHaveSeats'
    BY <1>23, <2>4 DEF FinishEdit
  <2>5. QED
    BY <1>23, <2>1, <2>2, <2>3, <2>4 DEF FinishEdit
<1>24. CASE Crash
  BY <1>24 DEF Crash
<1>25. CASE UNCHANGED vars
  BY <1>25 DEF vars
<1>26. QED
  BY <1>1, <1>2, <1>3, <1>4, <1>5, <1>6, <1>7, <1>8, <1>9, <1>10, <1>11,
     <1>12, <1>13, <1>14, <1>15, <1>16, <1>17, <1>18, <1>19, <1>20,
     <1>21, <1>22, <1>23, <1>24, <1>25
     DEF Next, StudentStep, EnrollStep, DropStep, Waiting

-----------------------------------------------------------------------------
(* The enrollment file *)

RecordsInOrder == /\ IdsInPlace
                  /\ EnrollmentIdsDense
                  /\ NoDuplicateEnrollment
                  /\ AppendIsFresh
                  /\ CancelsOwnRecord

(* A thread inside a critical section is alone there.                      *)
LEMMA MutualExclusion ==
    ASSUME TypeOK, LockDiscipline, NEW m \in Mutex, NEW t \in Thread, NEW u \in Thread,
           Holds(pc[t], m), Holds(pc[u], m)
    PROVE  t = u
  BY DEF LockDiscipline

(* While one thread holds g_enroll_mutex no other is about to write.       *)
LEMMA NobodyElse ==
    ASSUME TypeOK, LockDiscipline, NEW t \in StudentSession, NEW u \in StudentSession,
           pc[t] \in {"scan", "append", "markDropped"},
           pc[u] \in {"append", "markDropped"}
    PROVE  t = u
<1>1. "enroll" \in Mutex /\ Holds(pc[t], "enroll") /\ Holds(pc[u], "enroll")
  BY DEF Holds, Mutex
<1>2. QED
  BY <1>1, MutualExclusion DEF Thread

(* A step that leaves the file alone and brings no thread to a write of it *)
(* disturbs nothing said about the records.                                *)
LEMMA RecordsUntouched ==
    ASSUME RecordsInOrder, UNCHANGED <<enrollments, blind>>,
           \A u \in StudentSession :
              pc'[u] \in {"append", "markDropped"} =>
                 pc'[u] = pc[u] /\ slot'[u] = slot[u] /\ call'[u] = call[u]
    PROVE  RecordsInOrder'
<1>1. IdsInPlace' /\ EnrollmentIdsDense' /\ NoDuplicateEnrollment'
  BY DEF RecordsInOrder, IdsInPlace, EnrollmentIdsDense, NoDuplicateEnrollment
<1>2. AppendIsFresh'
  BY DEF RecordsInOrder, AppendIsFresh, OnRoster, IsRecordOf
<1>3. CancelsOwnRecord'
  BY DEF RecordsInOrder, CancelsOwnRecord, IsRecordOf
<1>4. QED
  BY <1>1, <1>2, <1>3 DEF RecordsInOrder

(* Every step keeps the enrollment file in order. *)
LEMMA RecordsStep ==
    ASSUME TypeOK, LockDiscipline, CoursesKnown, RecordsInOrder, [Next]_vars
    PROVE  RecordsInOrder'
<1> USE SessionsAssumption, GotoIs, ReturnIs, BeginIs DEF Thread, GiveUp, Codes, files, locals
<1>1. ASSUME NEW t \in StudentSession, NEW c \in Course \cup {NoSuchCourse},
            BeginEnroll(t, c)
     PROVE  RecordsInOrder'
  BY <1>1, RecordsUntouched DEF BeginEnroll, ReadStudent
<1>2. ASSUME NEW t \in StudentSession, NEW c \in Course \cup {NoSuchCourse},
            BeginDrop(t, c)
     PROVE  RecordsInOrder'
  BY <1>2, RecordsUntouched DEF BeginDrop, ReadStudent
<1>3. ASSUME NEW t \in FacultySession, NEW c \in Course \cup {NoSuchCourse},
            BeginEdit(t, c)
     PROVE  RecordsInOrder'
  BY <1>3, RecordsUntouched DEF BeginEdit
<1>4. ASSUME NEW t \in StudentSession, LockCourse(t)
     PROVE  RecordsInOrder'
  BY <1>4, RecordsUntouched DEF LockCourse
<1>5. ASSUME NEW t \in StudentSession, ReadCourse(t)
     PROVE  RecordsInOrder'
  BY <1>5, RecordsUntouched DEF ReadCourse
<1>6. ASSUME NEW t \in StudentSession, LockEnroll(t)
     PROVE  RecordsInOrder'
  BY <1>6, RecordsUntouched DEF LockEnroll
<1>7. ASSUME NEW t \in StudentSession, Scan(t)
     PROVE  RecordsInOrder'
  <2>1. CASE \E code \in Codes : Return(t, code) /\ UNCHANGED blind
    BY <1>7, <2>1, RecordsUntouched DEF Scan
  <2>2. CASE \E n \in ReadBefore : /\ ~AlreadyEnrolled(t, n)
                                   /\ slot' = [slot EXCEPT ![t] = NextId(n)]
                                   /\ blind' = Judged(n)
                                   /\ Goto(t, "append")
    <3> DEFINE next == Len(enrollments) + 1
    <3>0. ReadBefore \in SUBSET (0..Len(enrollments)) /\ Len(enrollments) \in Nat
      BY DEF ReadBefore, TypeOK
    <3>1. PICK n \in 0..Len(enrollments) : /\ ~AlreadyEnrolled(t, n)
                                           /\ slot' = [slot EXCEPT ![t] = NextId(n)]
                                           /\ blind' = Judged(n)
      BY <2>2, <3>0
    <3>2. UNCHANGED <<enrollments, call>> /\ pc[t] = "scan"
      BY <1>7 DEF Scan
    <3>3. /\ \A u \in Thread : pc'[u] = IF u = t THEN "append" ELSE pc[u]
          /\ slot'[t] = NextId(n)
      <4>1. t \in Thread /\ slot \in [Thread -> Nat]
        BY DEF TypeOK
      <4>2. slot'[t] = NextId(n)
        BY <3>1, <4>1
      <4>3. QED
        BY <2>2, <4>1, <4>2
    <3>4. /\ DOMAIN enrollments = 1..Len(enrollments) /\ Len(enrollments) \in Nat
          /\ \A i \in DOMAIN enrollments : enrollments[i].id \in Nat
      <4>1. \A i \in DOMAIN enrollments : enrollments[i] \in EnrollmentRecord
        BY DEF TypeOK
      <4>2. QED
        BY <4>1 DEF TypeOK, EnrollmentRecord
    <3>5. \A i \in DOMAIN enrollments : i \in blind' <=> i \in blind
      BY <3>1, <3>4 DEF Judged
    <3>6. next \in blind' <=> n < Len(enrollments)
      BY <3>1, <3>4 DEF Judged
    <3>7. IdsInPlace'
      BY <3>2 DEF RecordsInOrder, IdsInPlace
    <3>8. EnrollmentIdsDense' /\ NoDuplicateEnrollment'
      BY <3>2, <3>5 DEF RecordsInOrder, EnrollmentIdsDense, NoDuplicateEnrollment
    <3>9. /\ NextId(n) \in 1..(n + 1)
          /\ \A i \in 1..n : enrollments[i].id < NextId(n)
          /\ (\A i \in 1..n : enrollments[i].id = i) => NextId(n) = n + 1
      BY NextIdIs DEF RecordsInOrder
    <3>10. \A u \in StudentSession : pc'[u] = "append" => u = t
      BY <3>2, <3>3, NobodyElse
    <3>11. AppendIsFresh'
      <4>1. slot'[t] <= next
        BY <3>3, <3>4, <3>9
      <4>2. ASSUME next \notin blind'
            PROVE  /\ ~OnRoster(Account[t], call[t].course)
                   /\ \A i \in DOMAIN enrollments : enrollments[i].id < slot'[t]
        <5>1. n = Len(enrollments)
          BY <3>6, <4>2
        <5>2. QED
          BY <3>1, <3>3, <3>4, <3>9, <5>1 DEF AlreadyEnrolled, OnRoster
      <4>3. ASSUME \A i \in 1..next : i \notin blind'
            PROVE  slot'[t] = next
        <5>0. next \notin blind'
          BY <3>4, <4>3
        <5>1. n = Len(enrollments)
          <6> HIDE DEF next
          <6>1. ~(n < Len(enrollments))
            BY <3>6, <5>0
          <6>2. QED
            <7> DEFINE k == Len(enrollments)
            <7>1. k \in Nat /\ n \in 0..k /\ ~(n < k)
              BY <3>1, <3>4, <6>1
            <7> HIDE DEF k
            <7>2. n = k
              BY <7>1
            <7>3. QED
              BY <7>2 DEF k
        <5>2. \A i \in 1..n : enrollments[i].id = i
          BY <3>4, <3>5, <4>3, <5>1 DEF RecordsInOrder, EnrollmentIdsDense
        <5>3. QED
          BY <3>3, <3>9, <5>1, <5>2
      <4> HIDE DEF next
      <4>4. QED
        BY <3>2, <3>10, <4>1, <4>2, <4>3 DEF AppendIsFresh, OnRoster, IsRecordOf, next
    <3>12. CancelsOwnRecord'
      BY <3>2, <3>3, NobodyElse DEF RecordsInOrder, CancelsOwnRecord
    <3>13. QED
      BY <3>7, <3>8, <3>11, <3>12 DEF RecordsInOrder
  <2>3. QED
    BY <1>7, <2>1, <2>2 DEF Scan, Codes
<1>8. ASSUME NEW t \in StudentSession, AppendRecord(t)
     PROVE  RecordsInOrder'
  <2>1. CASE Return(t, "FAILURE") /\ UNCHANGED enrollments
    BY <1>8, <2>1, RecordsUntouched DEF AppendRecord
  <2>2. CASE /\ enrollments' = Append(enrollments,
                                      [id |-> slot[t], student |-> Account[t],
                                       course |-> call[t].course])
             /\ Goto(t, "takeSeat")
    <3> DEFINE r == [id |-> slot[t], student |-> Account[t], course |-> call[t].course]
               n == Len(enrollments)
    <3>1. pc[t] = "append"
      BY <1>8 DEF AppendRecord
    <3>2. /\ slot[t] <= n + 1
          /\ n + 1 \notin blind =>
                /\ ~OnRoster(Account[t], call[t].course)
                /\ \A i \in DOMAIN enrollments : enrollments[i].id < slot[t]
          /\ (\A i \in 1..n + 1 : i \notin blind) => slot[t] = n + 1
      BY <3>1 DEF RecordsInOrder, AppendIsFresh
    <3>3. r \in EnrollmentRecord
      BY <3>1 DEF TypeOK, CoursesKnown, CourseFound, EnrollSteps, EnrollmentRecord
    <3>4. r.id = slot[t] /\ r.student = Account[t] /\ r.course = call[t].course
      OBVIOUS
    <3> HIDE DEF r
    <3>5. /\ enrollments \in Seq(EnrollmentRecord)
          /\ DOMAIN enrollments = 1..n /\ n \in Nat
          /\ slot[t] \in Nat /\ \A i \in 1..n : enrollments[i].id \in Nat
      <4>1. \A i \in 1..n : enrollments[i] \in EnrollmentRecord
        BY DEF TypeOK
      <4>2. QED
        BY <4>1 DEF TypeOK, EnrollmentRecord
    <3>6. /\ DOMAIN enrollments' = 1..n + 1
          /\ \A j \in 1..n : enrollments'[j] = enrollments[j]
          /\ enrollments'[n + 1] = r
      BY <2>2, <3>3, AppendIs DEF r
    <3>7. UNCHANGED blind
      BY <1>8 DEF AppendRecord
    <3> HIDE DEF n
    <3>8. IdsInPlace'
      BY <3>2, <3>4, <3>5, <3>6 DEF RecordsInOrder, IdsInPlace
    <3>9. EnrollmentIdsDense'
      <4>1. ASSUME NEW i \in 1..n + 1, NEW j \in 1..n + 1, i < j,
                   enrollments'[i].id >= enrollments'[j].id
            PROVE  j \in blind
        <5>1. CASE j \in 1..n
          <6>1. i \in 1..n
            BY <3>5, <4>1, <5>1
          <6>2. enrollments[i].id >= enrollments[j].id
            BY <3>6, <4>1, <5>1, <6>1
          <6>3. QED
            BY <3>5, <4>1, <5>1, <6>1, <6>2 DEF RecordsInOrder, EnrollmentIdsDense
        <5>2. CASE j = n + 1
          BY <3>2, <3>4, <3>5, <3>6, <4>1, <5>2
        <5>3. QED
          BY <3>5, <5>1, <5>2
      <4>2. ASSUME \A i \in 1..n + 1 : i \notin blind, NEW i \in 1..n + 1
            PROVE  enrollments'[i].id = i
        <5>1. CASE i \in 1..n
          BY <3>5, <3>6, <4>2, <5>1 DEF RecordsInOrder, EnrollmentIdsDense
        <5>2. CASE i = n + 1
          BY <3>2, <3>4, <3>6, <4>2, <5>2
        <5>3. QED
          BY <3>5, <5>1, <5>2
      <4>3. QED
        BY <3>6, <3>7, <4>1, <4>2 DEF EnrollmentIdsDense
    <3>10. NoDuplicateEnrollment'
      <4>1. n + 1 \notin blind =>
               \A j \in 1..n : ~(/\ enrollments[j].student = r.student
                                 /\ enrollments[j].course = r.course)
        BY <3>2, <3>4, <3>5 DEF OnRoster, IsRecordOf
      <4>2. ASSUME NEW i \in 1..n + 1, NEW j \in 1..n + 1, i < j, j \notin blind,
                   enrollments'[i].student = enrollments'[j].student,
                   enrollments'[i].course = enrollments'[j].course,
                   enrollments'[i].student # Dropped
            PROVE  FALSE
        <5>1. i \in 1..n
          BY <3>5, <4>2
        <5>2. CASE j \in 1..n
          BY <3>5, <3>6, <4>2, <5>1, <5>2 DEF RecordsInOrder, NoDuplicateEnrollment
        <5>3. CASE j = n + 1
          BY <3>6, <4>1, <4>2, <5>1, <5>3
        <5>4. QED
          BY <3>5, <5>2, <5>3
      <4>3. QED
        BY <3>6, <3>7, <4>2 DEF NoDuplicateEnrollment
    <3>11. \A u \in StudentSession : pc'[u] \notin {"append", "markDropped"}
      BY <2>2, <3>1, NobodyElse
    <3>12. QED
      BY <3>8, <3>9, <3>10, <3>11 DEF RecordsInOrder, AppendIsFresh, CancelsOwnRecord
  <2>3. QED
    BY <1>8, <2>1, <2>2 DEF AppendRecord
<1>9. ASSUME NEW t \in StudentSession, TakeSeat(t)
     PROVE  RecordsInOrder'
  BY <1>9, RecordsUntouched DEF TakeSeat
<1>10. ASSUME NEW t \in StudentSession, LockStudent(t)
     PROVE  RecordsInOrder'
  BY <1>10, RecordsUntouched DEF LockStudent
<1>11. ASSUME NEW t \in StudentSession, Reread(t)
     PROVE  RecordsInOrder'
  BY <1>11, RecordsUntouched DEF Reread
<1>12. ASSUME NEW t \in StudentSession, AddToList(t)
     PROVE  RecordsInOrder'
  BY <1>12, RecordsUntouched DEF AddToList
<1>13. ASSUME NEW t \in StudentSession, GetCourse(t)
     PROVE  RecordsInOrder'
  BY <1>13, RecordsUntouched DEF GetCourse
<1>14. ASSUME NEW t \in StudentSession, LockEnrollToDrop(t)
     PROVE  RecordsInOrder'
  BY <1>14, RecordsUntouched DEF LockEnrollToDrop
<1>15. ASSUME NEW t \in StudentSession, FindRecord(t)
     PROVE  RecordsInOrder'
  <2>1. CASE \E code \in Codes : Return(t, code)
    BY <1>15, <2>1, RecordsUntouched DEF FindRecord
  <2>2. CASE /\ OwnRecords(t) # {}
             /\ slot' = [slot EXCEPT ![t] = Min(OwnRecords(t))]
             /\ Goto(t, "markDropped")
    <3>1. UNCHANGED <<enrollments, call, blind>>
      BY <1>15 DEF FindRecord
    <3>2. \A u \in Thread :
             /\ pc'[u] = IF u = t THEN "markDropped" ELSE pc[u]
             /\ slot'[u] = IF u = t THEN Min(OwnRecords(t)) ELSE slot[u]
      <4> DEFINE m == Min(OwnRecords(t))
      <4> HIDE DEF m
      <4>1. slot' = [slot EXCEPT ![t] = m] /\ slot \in [Thread -> Nat]
        BY <2>2 DEF m, TypeOK
      <4>2. \A u \in Thread : slot'[u] = IF u = t THEN m ELSE slot[u]
        BY <4>1
      <4>3. QED
        BY <2>2, <4>2 DEF m
    <3>3. Min(OwnRecords(t)) \in OwnRecords(t)
      <4>1. OwnRecords(t) \in SUBSET Nat
        BY DEF OwnRecords, TypeOK
      <4>2. QED
        BY <2>2, <4>1, MinIsIn
    <3>4. IdsInPlace' /\ EnrollmentIdsDense' /\ NoDuplicateEnrollment'
      BY <3>1 DEF RecordsInOrder, IdsInPlace, EnrollmentIdsDense, NoDuplicateEnrollment
    <3>5. AppendIsFresh'
      BY <3>1, <3>2 DEF RecordsInOrder, AppendIsFresh, OnRoster, IsRecordOf
    <3>6. CancelsOwnRecord'
      <4> DEFINE m == Min(OwnRecords(t))
      <4>1. m \in DOMAIN enrollments /\ IsRecordOf(m, Account[t], call[t].course)
        BY <3>3 DEF OwnRecords
      <4> HIDE DEF m
      <4>2. \A u \in StudentSession :
               \/ u = t /\ slot'[u] = m
               \/ u # t /\ pc'[u] = pc[u] /\ slot'[u] = slot[u]
        BY <3>2 DEF m
      <4>3. QED
        BY <3>1, <4>1, <4>2 DEF RecordsInOrder, CancelsOwnRecord, IsRecordOf
    <3>7. QED
      BY <3>4, <3>5, <3>6 DEF RecordsInOrder
  <2>3. QED
    BY <1>15, <2>1, <2>2 DEF FindRecord, Codes
<1>16. ASSUME NEW t \in StudentSession, MarkDropped(t)
     PROVE  RecordsInOrder'
  <2> DEFINE n == Len(enrollments)
  <2>1. pc[t] = "markDropped" /\ Goto(t, "waitCourseToReturn")
    BY <1>16 DEF MarkDropped
  <2>2. CASE UNCHANGED enrollments
    BY <1>16, <2>2, RecordsUntouched DEF MarkDropped
  <2>3. CASE enrollments' = Cancelled(slot[t])
    <3>1. enrollments \in Seq(EnrollmentRecord) /\ DOMAIN enrollments = 1..n
      BY DEF TypeOK
    <3>2. slot[t] \in 1..n
      BY <2>1, <3>1 DEF RecordsInOrder, CancelsOwnRecord
    <3>3. /\ DOMAIN enrollments' = 1..n
          /\ \A j \in 1..n :
                enrollments'[j] = IF j = slot[t]
                                  THEN [enrollments[j] EXCEPT !.student = Dropped]
                                  ELSE enrollments[j]
      BY <2>3, <3>1, <3>2, CancelledIs
    <3>4. \A j \in 1..n : enrollments[j] \in EnrollmentRecord
      BY <3>1
    <3>5. \A j \in 1..n :
             /\ enrollments'[j].id = enrollments[j].id
             /\ enrollments'[j].course = enrollments[j].course
             /\ \/ enrollments'[j].student = enrollments[j].student
                \/ enrollments'[j].student = Dropped
      BY <3>3, <3>4 DEF EnrollmentRecord
    <3>6. UNCHANGED blind
      BY <1>16 DEF MarkDropped
    <3>7. /\ IdsInPlace'
          /\ EnrollmentIdsDense'
          /\ NoDuplicateEnrollment'
      <4>1. IdsInPlace'
        BY <3>1, <3>3, <3>5 DEF RecordsInOrder, IdsInPlace
      <4>2. EnrollmentIdsDense'
        BY <3>1, <3>3, <3>5, <3>6 DEF RecordsInOrder, EnrollmentIdsDense
      <4>3. NoDuplicateEnrollment'
        BY <3>1, <3>3, <3>5, <3>6 DEF RecordsInOrder, NoDuplicateEnrollment
      <4>4. QED
        BY <4>1, <4>2, <4>3
    <3>8. \A u \in StudentSession : pc'[u] \notin {"append", "markDropped"}
      BY <2>1, NobodyElse
    <3>9. QED
      BY <3>7, <3>8 DEF RecordsInOrder, AppendIsFresh, CancelsOwnRecord
  <2>4. QED
    BY <1>16, <2>2, <2>3 DEF MarkDropped
<1>17. ASSUME NEW t \in StudentSession, LockCourseToReturn(t)
     PROVE  RecordsInOrder'
  BY <1>17, RecordsUntouched DEF LockCourseToReturn
<1>18. ASSUME NEW t \in StudentSession, ReturnSeat(t)
     PROVE  RecordsInOrder'
  BY <1>18, RecordsUntouched DEF ReturnSeat
<1>19. ASSUME NEW t \in StudentSession, LockStudentToRemove(t)
     PROVE  RecordsInOrder'
  BY <1>19, RecordsUntouched DEF LockStudentToRemove
<1>20. ASSUME NEW t \in StudentSession, RereadToRemove(t)
     PROVE  RecordsInOrder'
  BY <1>20, RecordsUntouched DEF RereadToRemove
<1>21. ASSUME NEW t \in StudentSession, RemoveFromList(t)
     PROVE  RecordsInOrder'
  BY <1>21, RecordsUntouched DEF RemoveFromList
<1>22. ASSUME NEW t \in FacultySession, GetCourseToEdit(t)
     PROVE  RecordsInOrder'
  BY <1>22, RecordsUntouched DEF GetCourseToEdit
<1>23. ASSUME NEW t \in FacultySession, FinishEdit(t)
     PROVE  RecordsInOrder'
  BY <1>23, RecordsUntouched DEF FinishEdit, WriteEdit
<1>24. CASE Crash
  BY <1>24, RecordsUntouched DEF Crash, files
<1>25. CASE UNCHANGED vars
  BY <1>25, RecordsUntouched DEF vars
<1>26. QED
  BY <1>1, <1>2, <1>3, <1>4, <1>5, <1>6, <1>7, <1>8, <1>9, <1>10, <1>11,
     <1>12, <1>13, <1>14, <1>15, <1>16, <1>17, <1>18, <1>19, <1>20,
     <1>21, <1>22, <1>23, <1>24, <1>25
     DEF Next, StudentStep, EnrollStep, DropStep, Waiting

-----------------------------------------------------------------------------
(* The inductive invariant and what it gives *)

(* Where no read fails every scan sees the whole file.                     *)
ScansWhole == FilesCanFail = FALSE => blind = {}

(* What TLC checks is not inductive by itself: that a count stays where it  *)
(* may be needs what the copies show (CopiesHaveSeats), that no student is  *)
(* enrolled twice after a scan of the whole file needs what that scan found *)
(* (AppendIsFresh) and that nobody writes the file in between               *)
(* (LockDiscipline), and that the next id is above all needs a bound on the *)
(* ids in use (IdsInPlace).                                                 *)
IInv == /\ TypeOK
        /\ LockDiscipline
        /\ CoursesKnown
        /\ StudentListBounded
        /\ CopiesBounded
        /\ SeatsNonNegative
        /\ CopiesHaveSeats
        /\ RecordsInOrder
        /\ ScansWhole

(* Every step keeps it: no scan is cut short where no read fails.           *)
LEMMA ScansWholeStep ==
    ASSUME TypeOK, ScansWhole, [Next]_vars
    PROVE  ScansWhole'
<1> SUFFICES ASSUME FilesCanFail = FALSE
             PROVE  blind' = {}
  BY DEF ScansWhole
<1>1. blind = {}
  BY DEF ScansWhole
<1>2. ASSUME NEW t \in StudentSession, Scan(t)
      PROVE  blind' = {}
  <2>1. blind' = blind \/ \E n \in {Len(enrollments)} : blind' = Judged(n)
    BY <1>2 DEF Scan, ReadBefore
  <2>2. Len(enrollments) \in Nat
    BY DEF TypeOK
  <2>3. QED
    BY <1>1, <2>1, <2>2 DEF Judged
<1>3. ASSUME ~ \E t \in StudentSession : Scan(t)
      PROVE  UNCHANGED blind
  BY <1>3 DEF Next, StudentStep, EnrollStep, DropStep, Waiting, vars, BeginEnroll,
     BeginDrop, BeginEdit, GetCourseToEdit, FinishEdit, LockCourse, ReadCourse,
     LockEnroll, AppendRecord, TakeSeat, LockStudent, Reread, AddToList, GetCourse,
     LockEnrollToDrop, FindRecord, MarkDropped, LockCourseToReturn, ReturnSeat,
     LockStudentToRemove, RereadToRemove, RemoveFromList, Crash
<1>4. QED
  BY <1>1, <1>2, <1>3

(* The files as first written and a server nobody has logged in to.        *)
LEMMA InitIInv == Init => IInv
<1> SUFFICES ASSUME Init
             PROVE  IInv
  OBVIOUS
<1> USE SessionsAssumption, DataAssumption, BoundsAssumption DEF Init
<1>1. TypeOK
  BY DEF TypeOK, SeatRecord, NoRecord, Call, NoCall, Codes, Steps, Thread
<1>2. LockDiscipline
  BY DEF LockDiscipline, Holds
<1>3. CoursesKnown /\ CopiesBounded /\ CopiesHaveSeats
  BY DEF CoursesKnown, CopiesBounded, CopiesHaveSeats, CopyWritten, CourseFound,
         EnrollSteps, DropSteps
<1>4. StudentListBounded /\ SeatsNonNegative
  BY FloorIs DEF StudentListBounded, SeatsNonNegative
<1>5. RecordsInOrder
  BY DEF RecordsInOrder, IdsInPlace, EnrollmentIdsDense, NoDuplicateEnrollment, AppendIsFresh,
         CancelsOwnRecord, Thread
<1>6. ScansWhole
  BY DEF ScansWhole
<1>7. QED
  BY <1>1, <1>2, <1>3, <1>4, <1>5, <1>6 DEF IInv

(* Every step keeps it, crashes and failing files included.                *)
LEMMA NextIInv == IInv /\ [Next]_vars => IInv'
BY TypeStep, LockDisciplineStep, CoursesKnownStep, ListsBoundedStep, SeatsStep,
   RecordsStep, ScansWholeStep DEF IInv, RecordsInOrder

(* IInv holds in every reachable state.                                    *)
THEOREM Invariance == Spec => []IInv
BY InitIInv, NextIInv, PTL DEF Spec

(* Every variable keeps its type.                                          *)
THEOREM TypeCorrect == Spec => []TypeOK
<1>1. IInv => TypeOK
  BY DEF IInv
<1>2. QED
  BY <1>1, Invariance, PTL

(* Each mutex is held exactly by the thread that is between its lock and   *)
(* unlock calls: no return path of enroll_student or unenroll_student      *)
(* leaves one locked.                                                      *)
THEOREM LocksReleased == Spec => []LockDiscipline
<1>1. IInv => LockDiscipline
  BY DEF IInv
<1>2. QED
  BY <1>1, Invariance, PTL

(* No call makes available_seats negative, though stale copies of the      *)
(* course record are written back: it is below zero only for a course that *)
(* was added so, and then not below what was typed.                        *)
THEOREM SeatsNeverNegative == Spec => []SeatsNonNegative
<1>1. IInv => SeatsNonNegative
  BY DEF IInv
<1>2. QED
  BY <1>1, Invariance, PTL

(* No student is enrolled twice in a course, from however many sessions,   *)
(* but by an enroll whose scan a failing read cut short.                   *)
THEOREM NobodyEnrolledTwice == Spec => []NoDuplicateEnrollment
<1>1. IInv => NoDuplicateEnrollment
  BY DEF IInv, RecordsInOrder
<1>2. QED
  BY <1>1, Invariance, PTL

(* Every record has an id above all before it, but one appended after a    *)
(* scan cut short; while there is none, the n-th record carries id n.      *)
THEOREM IdsAreDense == Spec => []EnrollmentIdsDense
<1>1. IInv => EnrollmentIdsDense
  BY DEF IInv, RecordsInOrder
<1>2. QED
  BY <1>1, Invariance, PTL

(* enrolled_courses never holds more courses than its array has places.    *)
THEOREM ListsFit == Spec => []StudentListBounded
<1>1. IInv => StudentListBounded
  BY DEF IInv
<1>2. QED
  BY <1>1, Invariance, PTL

(* The record a drop is about to cancel is a live one of its own student.  *)
THEOREM DropsItsOwn == Spec => []CancelsOwnRecord
<1>1. IInv => CancelsOwnRecord
  BY DEF IInv, RecordsInOrder
<1>2. QED
  BY <1>1, Invariance, PTL

(* Records are only appended and cancelled, each by a session it names.    *)
LEMMA RecordsKeptStep == IInv /\ [Next]_vars => RecordsKept
<1> SUFFICES ASSUME IInv, [Next]_vars
             PROVE  RecordsKept
  OBVIOUS
<1> DEFINE n == Len(enrollments)
<1>1. TypeOK /\ CancelsOwnRecord /\ CoursesKnown
  BY DEF IInv, RecordsInOrder
<1>2. enrollments \in Seq(EnrollmentRecord) /\ DOMAIN enrollments = 1..n /\ n \in Nat
  BY <1>1 DEF TypeOK
<1>3. CASE UNCHANGED enrollments
  BY <1>2, <1>3 DEF RecordsKept
<1>4. ASSUME NEW t \in StudentSession, AppendRecord(t)
      PROVE  RecordsKept
  <2> DEFINE r == [id |-> slot[t], student |-> Account[t], course |-> call[t].course]
  <2>1. r \in EnrollmentRecord
    BY <1>1, <1>4, SessionsAssumption
       DEF TypeOK, CoursesKnown, CourseFound, EnrollSteps, EnrollmentRecord,
           AppendRecord, Thread
  <2>2. CASE enrollments' = Append(enrollments, r)
    <3>1. Len(enrollments') = n + 1 /\ \A i \in 1..n : enrollments'[i] = enrollments[i]
      BY <1>1, <2>1, <2>2, AppendIs
    <3>2. QED
      BY <1>2, <3>1 DEF RecordsKept
  <2>3. QED
    BY <1>3, <1>4, <2>2 DEF AppendRecord
<1>5. ASSUME NEW t \in StudentSession, MarkDropped(t)
      PROVE  RecordsKept
  <2>1. /\ pc[t] = "markDropped"
        /\ pc'[t] # pc[t]
        /\ slot[t] \in 1..n
        /\ IsRecordOf(slot[t], Account[t], call[t].course)
    BY <1>1, <1>2, <1>5, GotoIs DEF MarkDropped, CancelsOwnRecord, Thread
  <2>2. CASE enrollments' = Cancelled(slot[t])
    <3>1. /\ Len(enrollments') = n
          /\ \A i \in 1..n :
                enrollments'[i] = IF i = slot[t]
                                  THEN [enrollments[i] EXCEPT !.student = Dropped]
                                  ELSE enrollments[i]
      BY <1>1, <2>1, <2>2, CancelledIs
    <3>2. QED
      BY <1>2, <2>1, <3>1 DEF RecordsKept
  <2>3. QED
    BY <1>3, <1>5, <2>2 DEF MarkDropped
<1>6. ASSUME NEW t \in StudentSession, EnrollStep(t) \/ DropStep(t),
             ~AppendRecord(t), ~MarkDropped(t)
      PROVE  UNCHANGED enrollments
  BY <1>6 DEF EnrollStep, DropStep, LockCourse, ReadCourse, LockEnroll, Scan,
     TakeSeat, LockStudent, Reread, AddToList, GetCourse, LockEnrollToDrop,
     FindRecord, LockCourseToReturn, ReturnSeat, LockStudentToRemove,
     RereadToRemove, RemoveFromList, files
<1>7. QED
  BY <1>3, <1>4, <1>5, <1>6
     DEF Next, StudentStep, Waiting, vars, BeginEnroll, BeginDrop, BeginEdit,
         GetCourseToEdit, FinishEdit, Crash, files

(* The enrollment file is a history: no crash, failed write or second      *)
(* session rewrites it.                                                    *)
THEOREM HistoryIsKept == Spec => HistoryKept
BY Invariance, RecordsKeptStep, PTL DEF Spec, HistoryKept

=============================================================================
