------------------------------ MODULE SeatProofs ------------------------------
(***************************************************************************)
(* Proofs about the seats of Enrollment: what can make a seat disappear,   *)
(* that the seats add up while enrolling is all that goes on, and that     *)
(* enrolling then implements the atomic ledger of SeatLedger.              *)
(***************************************************************************)
EXTENDS EnrollmentProofs, FiniteSetTheorems

(* Where a call has moved a record but not yet the seat that goes with it.  *)
ReturnSteps == {"waitCourseToReturn", "returnSeat"}
SeatSteps   == {"takeSeat"} \cup ReturnSteps

(* Calls come under way one by one, so finitely many seats are on their way *)
(* back at a time, whatever the number of sessions.                         *)
ReturningFinite == \A c \in Course : IsFiniteSet(Returning(c))

-----------------------------------------------------------------------------
(* The sets that Gap counts *)

(* One thread moves: it leaves the sets it was in and enters those of its  *)
(* new step.                                                               *)
LEMMA AtMoves ==
    ASSUME TypeOK, NEW t \in Thread, NEW step, UNCHANGED call,
           \A u \in Thread : pc'[u] = IF u = t THEN step ELSE pc[u],
           NEW c, NEW S
    PROVE  At(c, S)' = IF step \in S /\ call[t].course = c
                       THEN At(c, S) \cup {t} ELSE At(c, S) \ {t}
  BY DEF At

(* Taking a seat is done under the course mutex: one call at a time.       *)
LEMMA OwingOne ==
    ASSUME TypeOK, LockDiscipline, NEW c
    PROVE  /\ Owing(c) \subseteq {owner["course"]}
           /\ IsFiniteSet(Owing(c))
<1>1. \A t \in Owing(c) : t \in Thread /\ Holds(pc[t], "course")
  BY DEF Owing, At, Holds
<1>2. Owing(c) \subseteq {owner["course"]}
  BY <1>1 DEF LockDiscipline, Mutex
<1>3. IsFiniteSet({owner["course"]})
  BY FS_Singleton
<1>4. QED
  BY <1>2, <1>3, FS_Subset

(* The live records of a course are among finitely many.                   *)
LEMMA LiveFinite ==
    ASSUME TypeOK, NEW c
    PROVE  IsFiniteSet(Live(c)) /\ Live(c) \subseteq 1..Len(enrollments)
<1>1. enrollments \in Seq(EnrollmentRecord)
  BY DEF TypeOK
<1>2. Live(c) \subseteq 1..Len(enrollments)
  BY <1>1 DEF Live
<1>3. IsFiniteSet(1..Len(enrollments))
  BY <1>1, FS_Interval
<1>4. QED
  BY <1>2, <1>3, FS_Subset

(* What Gap counts are numbers.                                            *)
LEMMA CountsType ==
    ASSUME TypeOK, LockDiscipline, ReturningFinite, NEW c \in Course
    PROVE  /\ Cardinality(Live(c)) \in Nat
           /\ Cardinality(Owing(c)) \in Nat
           /\ Cardinality(Returning(c)) \in Nat
           /\ courses[c].max \in Int /\ courses[c].avail \in Int
<1>1. IsFiniteSet(Live(c)) /\ IsFiniteSet(Owing(c)) /\ IsFiniteSet(Returning(c))
  BY LiveFinite, OwingOne DEF ReturningFinite
<1>2. courses[c] \in SeatRecord
  BY DEF TypeOK
<1>3. QED
  BY <1>1, <1>2, FS_CardinalityType DEF SeatRecord

(* A step that moves no seat, no record and no call into or out of the     *)
(* steps where a seat is on its way leaves the sum as it is.               *)
LEMMA GapUntouched ==
    ASSUME UNCHANGED <<courses, enrollments>>, NEW c,
           \A u \in Thread :
              \/ pc[u] \notin SeatSteps /\ pc'[u] \notin SeatSteps
              \/ /\ call'[u] = call[u]
                 /\ pc[u] \in SeatSteps /\ pc'[u] \in SeatSteps
                 /\ pc[u] = "takeSeat" <=> pc'[u] = "takeSeat"
    PROVE  Gap(c)' = Gap(c) /\ Owing(c)' = Owing(c)
<1>1. Live(c)' = Live(c)
  BY DEF Live
<1>2. Owing(c)' = Owing(c) /\ Returning(c)' = Returning(c)
  BY DEF Owing, Returning, At, SeatSteps, ReturnSteps
<1>3. QED
  BY <1>1, <1>2 DEF Gap

-----------------------------------------------------------------------------
(* The steps that move a seat or a record *)

(* Appending the record makes the call owe a seat: one live record more,    *)
(* one seat owed more.                                                      *)
LEMMA AppendGap ==
    ASSUME IInv, ReturningFinite, NEW t \in StudentSession, AppendRecord(t),
           NEW c \in Course
    PROVE  Gap(c)' = Gap(c)
<1> USE SessionsAssumption, DataAssumption DEF Thread
<1>1. TypeOK /\ LockDiscipline /\ CoursesKnown
  BY DEF IInv
<1>2. pc[t] = "append" /\ UNCHANGED <<courses, call>>
  BY DEF AppendRecord
<1>3. CASE Return(t, "FAILURE") /\ UNCHANGED enrollments
  BY <1>1, <1>2, <1>3, ReturnIs, GapUntouched DEF SeatSteps, ReturnSteps
<1>4. CASE /\ Goto(t, "takeSeat")
           /\ enrollments' = Append(enrollments,
                                    [id |-> slot[t], student |-> Account[t],
                                     course |-> call[t].course])
  <2> DEFINE n == Len(enrollments)
             r == [id |-> slot[t], student |-> Account[t], course |-> call[t].course]
  <2>1. r \in EnrollmentRecord
    BY <1>1, <1>2 DEF TypeOK, CoursesKnown, CourseFound, EnrollSteps, EnrollmentRecord
  <2>2. r.student # Dropped /\ r.course = call[t].course
    OBVIOUS
  <2> HIDE DEF r
  <2>3. /\ DOMAIN enrollments' = 1..n + 1
        /\ \A j \in 1..n : enrollments'[j] = enrollments[j]
        /\ enrollments'[n + 1] = r
    BY <1>1, <1>4, <2>1, AppendIs DEF r
  <2>4. n \in Nat /\ DOMAIN enrollments = 1..n
    BY <1>1 DEF TypeOK
  <2>5. Returning(c)' = Returning(c)
    BY <1>1, <1>2, <1>4, GotoIs DEF Returning, At
  <2>6. CASE call[t].course = c
    <3>1. Live(c)' = Live(c) \cup {n + 1} /\ n + 1 \notin Live(c)
      BY <2>2, <2>3, <2>4, <2>6 DEF Live
    <3>2. Owing(c)' = Owing(c) \cup {t} /\ t \notin Owing(c)
      BY <1>1, <1>2, <1>4, <2>6, GotoIs DEF Owing, At
    <3>3. /\ Cardinality(Live(c)') = Cardinality(Live(c)) + 1
          /\ Cardinality(Owing(c)') = Cardinality(Owing(c)) + 1
      BY <1>1, <3>1, <3>2, LiveFinite, OwingOne, FS_AddElement
    <3>4. QED
      BY <1>1, <1>2, <2>5, <3>3, CountsType DEF Gap
  <2>7. CASE call[t].course # c
    <3>1. Live(c)' = Live(c)
      BY <2>2, <2>3, <2>4, <2>7 DEF Live
    <3>2. Owing(c)' = Owing(c)
      BY <1>1, <1>2, <1>4, <2>7, GotoIs DEF Owing, At
    <3>3. QED
      BY <1>2, <2>5, <3>1, <3>2 DEF Gap
  <2>8. QED
    BY <2>6, <2>7
<1>5. QED
  BY <1>3, <1>4 DEF AppendRecord

(* Taking the seat pays what was owed, if the copy was still the record and *)
(* the write did not fail.                                                  *)
LEMMA TakeCounts ==
    ASSUME IInv, ReturningFinite, NEW t \in StudentSession, TakeSeat(t),
           NEW c \in Course, ~StaleWrite(c), ~IgnoredError(c)
    PROVE  /\ Live(c)' = Live(c) /\ Returning(c)' = Returning(c)
           /\ courses'[c].max = courses[c].max
           /\ \/ /\ courses'[c].avail = courses[c].avail - 1
                 /\ Cardinality(Owing(c)') = Cardinality(Owing(c)) - 1
              \/ courses'[c] = courses[c] /\ Owing(c)' = Owing(c)
<1> USE SessionsAssumption DEF Thread
<1>1. TypeOK /\ LockDiscipline
  BY DEF IInv
<1>2. pc[t] = "takeSeat" /\ UNCHANGED <<enrollments, call>>
  BY DEF TakeSeat
<1>3. PICK step \in {"idle", "waitStudent"} :
         \A u \in Thread : pc'[u] = IF u = t THEN step ELSE pc[u]
  BY <1>1, GotoIs, ReturnIs DEF TakeSeat
<1>4. Live(c)' = Live(c) /\ Returning(c)' = Returning(c)
  BY <1>2, <1>3 DEF Live, Returning, At
<1>5. CASE call[t].course = c
  <2>1. t \in At(c, {"takeSeat", "returnSeat", "editing"}) /\ t \in At(c, {"takeSeat", "returnSeat"})
    BY <1>2, <1>5 DEF At
  <2>2. snap[t] = courses[c] /\ pc'[t] # pc[t]
    BY <1>2, <1>3, <2>1 DEF StaleWrite
  <2>3. courses' = [courses EXCEPT ![c] = [snap[t] EXCEPT !.avail = @ - 1]]
    BY <1>5, <2>1, <2>2 DEF TakeSeat, IgnoredError
  <2>4. courses'[c].max = courses[c].max /\ courses'[c].avail = courses[c].avail - 1
    BY <1>1, <2>2, <2>3, SeatsMoved DEF TypeOK
  <2>5. Owing(c)' = Owing(c) \ {t} /\ t \in Owing(c)
    BY <1>2, <1>3, <1>5 DEF Owing, At
  <2>6. Cardinality(Owing(c)') = Cardinality(Owing(c)) - 1
    BY <1>1, <2>5, OwingOne, FS_RemoveElement
  <2>7. QED
    BY <1>4, <2>4, <2>6
<1>6. CASE call[t].course # c
  <2>1. courses'[c] = courses[c]
    BY <1>1, <1>6 DEF TakeSeat, TypeOK
  <2>2. Owing(c)' = Owing(c)
    BY <1>2, <1>3, <1>6 DEF Owing, At
  <2>3. QED
    BY <1>4, <2>1, <2>2
<1>7. QED
  BY <1>5, <1>6

(* So it leaves the sum as it is.                                          *)
LEMMA TakeGap ==
    ASSUME IInv, ReturningFinite, NEW t \in StudentSession, TakeSeat(t),
           NEW c \in Course, ~StaleWrite(c), ~IgnoredError(c)
    PROVE  Gap(c)' = Gap(c)
<1>1. TypeOK /\ LockDiscipline
  BY DEF IInv
<1>2. QED
  BY <1>1, TakeCounts, CountsType DEF Gap

(* Cancelling a live record puts its seat on the way back.                 *)
LEMMA CancelGap ==
    ASSUME IInv, ReturningFinite, NEW t \in StudentSession, MarkDropped(t),
           NEW c \in Course, ~IgnoredError(c)
    PROVE  Gap(c)' = Gap(c)
<1> USE SessionsAssumption, DataAssumption DEF Thread
<1> DEFINE n == Len(enrollments)
<1>1. TypeOK /\ LockDiscipline /\ CancelsOwnRecord
  BY DEF IInv, RecordsInOrder
<1>2. pc[t] = "markDropped" /\ UNCHANGED <<courses, call>> /\ Goto(t, "waitCourseToReturn")
  BY DEF MarkDropped
<1>3. \A u \in Thread : pc'[u] = IF u = t THEN "waitCourseToReturn" ELSE pc[u]
  BY <1>1, <1>2, GotoIs
<1>4. /\ slot[t] \in 1..n /\ IsRecordOf(slot[t], Account[t], call[t].course)
      /\ enrollments \in Seq(EnrollmentRecord) /\ DOMAIN enrollments = 1..n
  BY <1>1, <1>2 DEF CancelsOwnRecord, TypeOK
<1>5. Owing(c)' = Owing(c)
  BY <1>2, <1>3 DEF Owing, At
<1>6. CASE call[t].course = c
  <2>1. t \in At(c, {"markDropped"}) /\ pc'[t] # pc[t]
    BY <1>2, <1>3, <1>6 DEF At
  <2>2. enrollments' = Cancelled(slot[t])
    BY <2>1 DEF MarkDropped, IgnoredError
  <2>3. /\ DOMAIN enrollments' = 1..n
        /\ \A j \in 1..n : enrollments'[j] = IF j = slot[t]
                              THEN [enrollments[j] EXCEPT !.student = Dropped]
                              ELSE enrollments[j]
    BY <1>1, <1>4, <2>2, CancelledIs
  <2>4. enrollments[slot[t]] \in EnrollmentRecord
    BY <1>4
  <2>5. /\ slot[t] \in Live(c)
        /\ enrollments'[slot[t]].student = Dropped
    BY <1>4, <1>6, <2>3, <2>4 DEF Live, IsRecordOf, EnrollmentRecord
  <2>6. Live(c)' = Live(c) \ {slot[t]}
    BY <1>4, <2>3, <2>5 DEF Live
  <2>7. Returning(c)' = Returning(c) \cup {t} /\ t \notin Returning(c)
    BY <1>2, <1>3, <1>6 DEF Returning, At
  <2>8. /\ Cardinality(Live(c)') = Cardinality(Live(c)) - 1
        /\ Cardinality(Returning(c)') = Cardinality(Returning(c)) + 1
    <3>1. IsFiniteSet(Live(c)) /\ IsFiniteSet(Returning(c))
      BY <1>1, LiveFinite DEF ReturningFinite
    <3>2. Cardinality(Live(c) \ {slot[t]}) = Cardinality(Live(c)) - 1
      <4> DEFINE L == Live(c)
                 i == slot[t]
      <4>1. IsFiniteSet(L) /\ i \in L
        BY <2>5, <3>1
      <4> HIDE DEF L, i
      <4>2. Cardinality(L \ {i}) = Cardinality(L) - 1
        BY <4>1, FS_RemoveElement
      <4>3. QED
        BY <4>2 DEF L, i
    <3>3. Cardinality(Returning(c) \cup {t}) = Cardinality(Returning(c)) + 1
      BY <2>7, <3>1, FS_AddElement
    <3>4. QED
      BY <2>6, <2>7, <3>2, <3>3
  <2>9. QED
    BY <1>1, <1>2, <1>5, <2>8, CountsType DEF Gap
<1>7. CASE call[t].course # c
  <2>1. Returning(c)' = Returning(c)
    BY <1>2, <1>3, <1>7 DEF Returning, At
  <2>2. Live(c)' = Live(c)
    <3>1. CASE UNCHANGED enrollments
      BY <3>1 DEF Live
    <3>2. CASE enrollments' = Cancelled(slot[t])
      <4>1. /\ DOMAIN enrollments' = 1..n
            /\ \A j \in 1..n : enrollments'[j] = IF j = slot[t]
                                  THEN [enrollments[j] EXCEPT !.student = Dropped]
                                  ELSE enrollments[j]
        BY <1>1, <1>4, <3>2, CancelledIs
      <4>2. enrollments[slot[t]] \in EnrollmentRecord
        BY <1>4
      <4>3. enrollments[slot[t]].course # c /\ enrollments'[slot[t]].course # c
        BY <1>4, <1>7, <4>1, <4>2 DEF IsRecordOf, EnrollmentRecord
      <4>4. QED
        BY <1>4, <4>1, <4>3 DEF Live
    <3>3. QED
      BY <3>1, <3>2 DEF MarkDropped
  <2>3. QED
    BY <1>2, <1>5, <2>1, <2>2 DEF Gap
<1>8. QED
  BY <1>6, <1>7

(* Giving the seat back ends its way back.                                 *)
LEMMA ReturnGap ==
    ASSUME IInv, ReturningFinite, NEW t \in StudentSession, ReturnSeat(t),
           NEW c \in Course, ~StaleWrite(c), ~IgnoredError(c)
    PROVE  Gap(c)' = Gap(c)
<1> USE SessionsAssumption DEF Thread
<1>1. TypeOK /\ LockDiscipline
  BY DEF IInv
<1>2. pc[t] = "returnSeat" /\ UNCHANGED <<enrollments, call>>
  BY DEF ReturnSeat
<1>3. \A u \in Thread : pc'[u] = IF u = t THEN "waitStudentToRemove" ELSE pc[u]
  BY <1>1, GotoIs DEF ReturnSeat
<1>4. Live(c)' = Live(c) /\ Owing(c)' = Owing(c)
  BY <1>2, <1>3 DEF Live, Owing, At
<1>5. CASE call[t].course = c
  <2>1. t \in At(c, {"takeSeat", "returnSeat", "editing"}) /\ t \in At(c, {"takeSeat", "returnSeat"})
    BY <1>2, <1>5 DEF At
  <2>2. snap[t] = courses[c] /\ pc'[t] # pc[t]
    BY <1>2, <1>3, <2>1 DEF StaleWrite
  <2>3. courses' = [courses EXCEPT ![c] = [snap[t] EXCEPT !.avail = @ + 1]]
    BY <1>5, <2>1, <2>2 DEF ReturnSeat, IgnoredError
  <2>4. courses'[c].max = courses[c].max /\ courses'[c].avail = courses[c].avail + 1
    BY <1>1, <2>2, <2>3, SeatsMoved DEF TypeOK
  <2>5. Returning(c)' = Returning(c) \ {t} /\ t \in Returning(c)
    BY <1>2, <1>3, <1>5 DEF Returning, At
  <2>6. Cardinality(Returning(c)') = Cardinality(Returning(c)) - 1
    BY <2>5, FS_RemoveElement DEF ReturningFinite
  <2>7. QED
    BY <1>1, <1>4, <2>4, <2>6, CountsType DEF Gap
<1>6. CASE call[t].course # c
  <2>1. courses'[c] = courses[c]
    BY <1>1, <1>6 DEF ReturnSeat, TypeOK
  <2>2. Returning(c)' = Returning(c)
    BY <1>2, <1>3, <1>6 DEF Returning, At
  <2>3. QED
    BY <1>4, <2>1, <2>2 DEF Gap
<1>7. QED
  BY <1>5, <1>6

(* An edit of a record nobody changed meanwhile keeps the seats taken.     *)
LEMMA EditGap ==
    ASSUME IInv, ReturningFinite, NEW t \in FacultySession, FinishEdit(t),
           NEW c \in Course, ~StaleWrite(c)
    PROVE  Gap(c)' = Gap(c)
<1> USE SessionsAssumption DEF Thread
<1>1. TypeOK /\ LockDiscipline
  BY DEF IInv
<1>2. pc[t] = "editing" /\ UNCHANGED <<enrollments, call>>
  BY DEF FinishEdit
<1>3. \A u \in Thread : pc'[u] = IF u = t THEN "idle" ELSE pc[u]
  BY <1>1, ReturnIs DEF FinishEdit, WriteEdit, GiveUp
<1>4. /\ Live(c)' = Live(c) /\ Owing(c)' = Owing(c) /\ Returning(c)' = Returning(c)
  BY <1>2, <1>3 DEF Live, Owing, Returning, At
<1>5. CASE UNCHANGED courses
  BY <1>4, <1>5 DEF Gap
<1>6. CASE call[t].course # c
  <2>1. courses'[c] = courses[c]
    BY <1>1, <1>6 DEF FinishEdit, WriteEdit, TypeOK
  <2>2. QED
    BY <1>4, <2>1 DEF Gap
<1>7. CASE call[t].course = c /\ courses' # courses
  <2>1. t \in At(c, {"takeSeat", "returnSeat", "editing"})
    BY <1>2, <1>7 DEF At
  <2>2. snap[t] = courses[c]
    BY <1>2, <1>3, <2>1 DEF StaleWrite
  <2>3. courses[c] \in SeatRecord
    BY <1>1 DEF TypeOK
  <2>4. courses'[c].max - courses'[c].avail = courses[c].max - courses[c].avail
        /\ courses'[c] \in SeatRecord
    <3>1. CASE courses' = [courses EXCEPT ![c] = courses[c]]
      BY <1>1, <2>3, <3>1 DEF TypeOK
    <3>2. ASSUME NEW n \in NewMaxSeats,
                 courses' = [courses EXCEPT ![c] = WithLimit(courses[c], n)]
          PROVE  courses'[c].max - courses'[c].avail = courses[c].max - courses[c].avail
                 /\ courses'[c] \in SeatRecord
      <4>1. n \in Int
        BY DataAssumption
      <4>2. courses'[c] = [max |-> n, avail |-> n - (courses[c].max - courses[c].avail)]
        BY <1>1, <3>2 DEF TypeOK, WithLimit, Taken
      <4>3. courses[c].max \in Int /\ courses[c].avail \in Int
        BY <2>3 DEF SeatRecord
      <4>4. QED
        BY <4>1, <4>2, <4>3 DEF SeatRecord
    <3>3. QED
      BY <1>7, <2>2, <3>1, <3>2 DEF FinishEdit, WriteEdit
  <2>5. QED
    BY <1>1, <1>4, <2>3, <2>4, CountsType DEF Gap, SeatRecord
<1>8. QED
  BY <1>5, <1>6, <1>7

-----------------------------------------------------------------------------
(* Every step *)

(* A step is one thread's, or a crash that ends every call, or nobody's.   *)
LEMMA OneMoves ==
    ASSUME TypeOK, [Next]_vars
    PROVE  \/ \E t \in Thread : \A u \in Thread \ {t} :
                 pc'[u] = pc[u] /\ call'[u] = call[u]
           \/ \A u \in Thread : pc'[u] = "idle"
           \/ UNCHANGED <<pc, call>>
<1> USE GotoIs, ReturnIs, BeginIs DEF Thread, GiveUp
<1>1. ASSUME NEW t \in StudentSession, NEW c \in Course \cup {NoSuchCourse},
             BeginEnroll(t, c) \/ BeginDrop(t, c)
      PROVE  \A u \in Thread \ {t} : pc'[u] = pc[u] /\ call'[u] = call[u]
  BY <1>1 DEF BeginEnroll, BeginDrop
<1>2. ASSUME NEW t \in StudentSession, EnrollStep(t)
      PROVE  \A u \in Thread \ {t} : pc'[u] = pc[u] /\ call'[u] = call[u]
  BY <1>2 DEF EnrollStep, LockCourse, ReadCourse, LockEnroll, Scan, AppendRecord,
              TakeSeat, LockStudent, Reread, AddToList
<1>3. ASSUME NEW t \in StudentSession, DropStep(t)
      PROVE  \A u \in Thread \ {t} : pc'[u] = pc[u] /\ call'[u] = call[u]
  BY <1>3 DEF DropStep, GetCourse, LockEnrollToDrop, FindRecord, MarkDropped,
              LockCourseToReturn, ReturnSeat, LockStudentToRemove, RereadToRemove,
              RemoveFromList
<1>4. ASSUME NEW t \in FacultySession,
             \/ \E c \in Course \cup {NoSuchCourse} : BeginEdit(t, c)
             \/ GetCourseToEdit(t) \/ FinishEdit(t)
      PROVE  \A u \in Thread \ {t} : pc'[u] = pc[u] /\ call'[u] = call[u]
  BY <1>4 DEF BeginEdit, GetCourseToEdit, FinishEdit, WriteEdit
<1>5. CASE Crash
  BY <1>5 DEF Crash
<1>6. CASE UNCHANGED vars
  BY <1>6 DEF vars
<1>7. QED
  BY <1>1, <1>2, <1>3, <1>4, <1>5, <1>6 DEF Next, StudentStep, Waiting

(* No step puts more than one seat on its way back.                        *)
LEMMA ReturningStep ==
    ASSUME TypeOK, ReturningFinite, [Next]_vars
    PROVE  ReturningFinite'
<1> SUFFICES ASSUME NEW c \in Course
             PROVE  IsFiniteSet(Returning(c)')
  BY DEF ReturningFinite
<1>1. IsFiniteSet(Returning(c))
  BY DEF ReturningFinite
<1>2. ASSUME NEW t \in Thread,
             \A u \in Thread \ {t} : pc'[u] = pc[u] /\ call'[u] = call[u]
      PROVE  IsFiniteSet(Returning(c)')
  <2>1. Returning(c)' \subseteq Returning(c) \cup {t}
    BY <1>2 DEF Returning, At
  <2>2. IsFiniteSet(Returning(c) \cup {t})
    BY <1>1, FS_AddElement
  <2>3. QED
    BY <2>1, <2>2, FS_Subset
<1>3. CASE \A u \in Thread : pc'[u] = "idle"
  <2>1. Returning(c)' = {}
    BY <1>3 DEF Returning, At
  <2>2. QED
    BY <2>1, FS_EmptySet
<1>4. CASE UNCHANGED <<pc, call>>
  BY <1>1, <1>4 DEF Returning, At
<1>5. QED
  BY <1>2, <1>3, <1>4, OneMoves

(* The steps that write neither a course nor an enrollment record.         *)
LEMMA QuietStep ==
    ASSUME TypeOK, [Next]_vars, ~Crash, NEW c,
           \A t \in StudentSession : /\ ~AppendRecord(t) /\ ~TakeSeat(t)
                                     /\ ~MarkDropped(t) /\ ~ReturnSeat(t),
           \A t \in FacultySession : ~FinishEdit(t)
    PROVE  UNCHANGED <<courses, enrollments>> /\ Gap(c)' = Gap(c) /\ Owing(c)' = Owing(c)
<1> USE GotoIs, ReturnIs, BeginIs, GapUntouched
    DEF Thread, GiveUp, SeatSteps, ReturnSteps, files
<1>1. ASSUME NEW t \in StudentSession, NEW d \in Course \cup {NoSuchCourse},
             BeginEnroll(t, d) \/ BeginDrop(t, d)
      PROVE  UNCHANGED <<courses, enrollments>> /\ Gap(c)' = Gap(c) /\ Owing(c)' = Owing(c)
  BY <1>1 DEF BeginEnroll, BeginDrop
<1>2. ASSUME NEW t \in StudentSession, EnrollStep(t)
      PROVE  UNCHANGED <<courses, enrollments>> /\ Gap(c)' = Gap(c) /\ Owing(c)' = Owing(c)
  BY <1>2 DEF EnrollStep, LockCourse, ReadCourse, LockEnroll, Scan,
              LockStudent, Reread, AddToList
<1>3. ASSUME NEW t \in StudentSession, DropStep(t)
      PROVE  UNCHANGED <<courses, enrollments>> /\ Gap(c)' = Gap(c) /\ Owing(c)' = Owing(c)
  BY <1>3 DEF DropStep, GetCourse, LockEnrollToDrop, FindRecord,
              LockCourseToReturn, LockStudentToRemove, RereadToRemove,
              RemoveFromList
<1>4. ASSUME NEW t \in FacultySession,
             \/ \E d \in Course \cup {NoSuchCourse} : BeginEdit(t, d)
             \/ GetCourseToEdit(t)
      PROVE  UNCHANGED <<courses, enrollments>> /\ Gap(c)' = Gap(c) /\ Owing(c)' = Owing(c)
  BY <1>4 DEF BeginEdit, GetCourseToEdit
<1>5. CASE UNCHANGED vars
  BY <1>5 DEF vars
<1>6. QED
  BY <1>1, <1>2, <1>3, <1>4, <1>5 DEF Next, StudentStep, Waiting

(* Whatever changes the sum is a stale write, an ignored error or a crash. *)
LEMMA GapStep ==
    ASSUME IInv, ReturningFinite, [Next]_vars, NEW c \in Course
    PROVE  Gap(c)' # Gap(c) =>
              StaleWrite(c) \/ IgnoredError(c) \/ crashes' # crashes
<1> SUFFICES ASSUME ~StaleWrite(c), ~IgnoredError(c), crashes' = crashes
             PROVE  Gap(c)' = Gap(c)
  OBVIOUS
<1>1. TypeOK
  BY DEF IInv
<1>2. ~Crash
  <2>1. crashes \in Nat
    BY <1>1 DEF TypeOK
  <2>2. QED
    BY <2>1 DEF Crash
<1>3. QED
  BY <1>1, <1>2, QuietStep, AppendGap, TakeGap, CancelGap, ReturnGap, EditGap

(* IInv with the finiteness the counts need.                               *)
LEMMA CountsInvariant == Spec => [](IInv /\ ReturningFinite)
<1>1. Init => ReturningFinite
  <2> SUFFICES ASSUME Init, NEW c \in Course
               PROVE  Returning(c) = {}
    BY FS_EmptySet DEF ReturningFinite
  <2>1. QED
    BY DEF Init, Returning, At
<1>2. IInv /\ ReturningFinite /\ [Next]_vars => ReturningFinite'
  BY ReturningStep DEF IInv
<1>3. QED
  BY <1>1, <1>2, Invariance, PTL DEF Spec

(* Seats are lost or invented only by writing back a copy the course record*)
(* has moved away from, by ignoring a failed write, or by a crash inside a *)
(* call: with every operation, any number of sessions and any history.     *)
THEOREM SeatsNeverJustVanish == Spec => SeatsLostOnlyBy
<1>1. IInv /\ ReturningFinite /\ [Next]_vars =>
         \A c \in Course :
            Gap(c)' # Gap(c) =>
               StaleWrite(c) \/ IgnoredError(c) \/ crashes' # crashes
  BY GapStep
<1>2. QED
  BY <1>1, CountsInvariant, PTL DEF Spec, SeatsLostOnlyBy

-----------------------------------------------------------------------------
(* While nothing but enrolling goes on: no drops, no edits, no failing file *)
(* and no crash, but any number of sessions.                                *)

OnlyEnrolling == Menu \subseteq {"enroll"} /\ FilesCanFail = FALSE /\ MaxCrashes = 0

(* Nobody edits a limit.                                                    *)
LimitsStand == \A c \in Course : courses[c].max = InitialSeats[c]

(* The copy of the course made under the mutex stays the record until the   *)
(* seat is taken, and no call is under way but enrolls.                     *)
FreshCopies ==
    \A t \in Thread :
        /\ pc[t] \in {"idle"} \cup EnrollSteps
        /\ pc[t] \in {"waitEnroll", "scan", "append", "takeSeat"} =>
              snap[t] = courses[call[t].course]

EnrollingInv == /\ IInv
                /\ ReturningFinite
                /\ FreshCopies
                /\ LimitsStand
                /\ SeatsAccounted

(* A step that leaves the course records alone keeps the copies fresh.     *)
LEMMA FreshUntouched ==
    ASSUME FreshCopies, UNCHANGED courses,
           \A u \in Thread :
              \/ pc'[u] = pc[u] /\ snap'[u] = snap[u] /\ call'[u] = call[u]
              \/ pc'[u] \in {"idle", "waitCourse", "readCourse", "waitStudent",
                             "reread", "addToList"}
              \/ /\ pc[u] \in {"waitEnroll", "scan", "append"}
                 /\ pc'[u] \in {"scan", "append", "takeSeat"}
                 /\ snap'[u] = snap[u] /\ call'[u] = call[u]
    PROVE  FreshCopies'
  BY DEF FreshCopies, EnrollSteps

(* Every step keeps the copies fresh: the record is written by one thread, *)
(* which holds the mutex that everybody with a copy holds.                 *)
LEMMA FreshStep ==
    ASSUME OnlyEnrolling, IInv, FreshCopies, [Next]_vars
    PROVE  FreshCopies'
<1> USE GotoIs, ReturnIs, BeginIs, FreshUntouched DEF Thread, GiveUp, files, locals
<1>0. TypeOK /\ LockDiscipline
  BY DEF IInv
<1>1. ASSUME NEW t \in StudentSession, NEW c \in Course \cup {NoSuchCourse},
             BeginEnroll(t, c)
      PROVE  FreshCopies'
  BY <1>0, <1>1 DEF BeginEnroll, ReadStudent, OnlyEnrolling
<1>2. \A t \in Thread, c \in Course \cup {NoSuchCourse} :
         ~Begin(t, "drop", c) /\ ~Begin(t, "edit", c)
  BY DEF Begin, OnlyEnrolling
<1>3. ASSUME NEW t \in StudentSession, LockCourse(t)
      PROVE  FreshCopies'
  BY <1>0, <1>3 DEF LockCourse
<1>4. ASSUME NEW t \in StudentSession, ReadCourse(t)
      PROVE  FreshCopies'
  <2>1. CASE \E code \in Codes : Return(t, code)
    BY <1>0, <1>4, <2>1 DEF ReadCourse
  <2>2. CASE snap' = [snap EXCEPT ![t] = courses[call[t].course]] /\ Goto(t, "waitEnroll")
    <3>1. UNCHANGED <<courses, call>>
      BY <1>4 DEF ReadCourse
    <3>2. \A u \in Thread :
             /\ pc'[u] = IF u = t THEN "waitEnroll" ELSE pc[u]
             /\ snap'[u] = IF u = t THEN courses[call[t].course] ELSE snap[u]
      BY <1>0, <2>2 DEF TypeOK
    <3>3. QED
      BY <3>1, <3>2 DEF FreshCopies, EnrollSteps
  <2>3. QED
    BY <1>4, <2>1, <2>2 DEF ReadCourse, Codes
<1>5. ASSUME NEW t \in StudentSession, LockEnroll(t)
      PROVE  FreshCopies'
  BY <1>0, <1>5 DEF LockEnroll
<1>6. ASSUME NEW t \in StudentSession, Scan(t)
      PROVE  FreshCopies'
  BY <1>0, <1>6 DEF Scan
<1>7. ASSUME NEW t \in StudentSession, AppendRecord(t)
      PROVE  FreshCopies'
  BY <1>0, <1>7 DEF AppendRecord
<1>8. ASSUME NEW t \in StudentSession, TakeSeat(t)
      PROVE  FreshCopies'
  <2>1. pc[t] = "takeSeat" /\ UNCHANGED call
    BY <1>8 DEF TakeSeat
  <2>2. \A u \in Thread \ {t} :
           pc[u] \notin {"waitEnroll", "scan", "append", "takeSeat"}
    <3>1. "course" \in Mutex /\ Holds(pc[t], "course")
      BY <2>1 DEF Mutex, Holds
    <3>2. QED
      BY <1>0, <3>1, MutualExclusion DEF Holds
  <2>3. /\ pc'[t] \in {"idle", "waitStudent"}
        /\ \A u \in Thread \ {t} : pc'[u] = pc[u]
    BY <1>0, <1>8 DEF TakeSeat
  <2>4. QED
    BY <2>2, <2>3 DEF FreshCopies, EnrollSteps
<1>9. ASSUME NEW t \in StudentSession, LockStudent(t) \/ Reread(t) \/ AddToList(t)
      PROVE  FreshCopies'
  BY <1>0, <1>9 DEF LockStudent, Reread, AddToList
<1>10. ASSUME NEW t \in Thread
       PROVE  pc[t] \notin DropSteps \cup EditSteps
  BY <1>10 DEF FreshCopies, EnrollSteps, DropSteps, EditSteps
<1>11. \A t \in StudentSession : ~DropStep(t)
  BY <1>10 DEF DropStep, GetCourse, LockEnrollToDrop, FindRecord, MarkDropped,
              LockCourseToReturn, ReturnSeat, LockStudentToRemove, RereadToRemove,
              RemoveFromList, DropSteps
<1>12. \A t \in FacultySession : ~GetCourseToEdit(t) /\ ~FinishEdit(t)
  BY <1>10 DEF GetCourseToEdit, FinishEdit, EditSteps
<1>13. CASE Crash
  BY <1>0, <1>13 DEF Crash
<1>14. CASE UNCHANGED vars
  BY <1>14 DEF vars
<1>15. QED
  BY <1>1, <1>2, <1>3, <1>4, <1>5, <1>6, <1>7, <1>8, <1>9, <1>11, <1>12, <1>13,
     <1>14 DEF Next, StudentStep, EnrollStep, Waiting, BeginDrop, BeginEdit

(* None of the three reasons to lose a seat is left.                       *)
LEMMA NoReasonLeft ==
    ASSUME OnlyEnrolling, TypeOK, FreshCopies, [Next]_vars, NEW c \in Course
    PROVE  ~StaleWrite(c) /\ ~IgnoredError(c) /\ crashes' = crashes
<1>1. ~StaleWrite(c)
  BY DEF StaleWrite, At, FreshCopies, EnrollSteps
<1>2. ~IgnoredError(c)
  BY DEF IgnoredError, OnlyEnrolling
<1>3. ~Crash
  BY DEF Crash, OnlyEnrolling, TypeOK
<1>4. crashes' = crashes
  BY <1>3 DEF Next, StudentStep, EnrollStep, DropStep, Waiting, vars, BeginEnroll,
     BeginDrop, BeginEdit, GetCourseToEdit, FinishEdit, LockCourse, ReadCourse,
     LockEnroll, Scan, AppendRecord, TakeSeat, LockStudent, Reread, AddToList,
     GetCourse, LockEnrollToDrop, FindRecord, MarkDropped, LockCourseToReturn,
     ReturnSeat, LockStudentToRemove, RereadToRemove, RemoveFromList
<1>5. QED
  BY <1>1, <1>2, <1>4

(* The one write of a course record there is keeps its limit.              *)
LEMMA LimitsStandStep ==
    ASSUME OnlyEnrolling, IInv, ReturningFinite, FreshCopies, LimitsStand, [Next]_vars
    PROVE  LimitsStand'
<1> SUFFICES ASSUME NEW c \in Course
             PROVE  courses'[c].max = courses[c].max
  BY DEF LimitsStand
<1>1. TypeOK /\ ~StaleWrite(c) /\ ~IgnoredError(c) /\ crashes' = crashes
  BY NoReasonLeft DEF IInv
<1>2. ~Crash
  BY <1>1 DEF Crash, TypeOK
<1>3. ASSUME NEW t \in StudentSession, TakeSeat(t)
      PROVE  courses'[c].max = courses[c].max
  BY <1>1, <1>3, TakeCounts
<1>4. \A t \in StudentSession : ~MarkDropped(t) /\ ~ReturnSeat(t)
  BY DEF FreshCopies, EnrollSteps, MarkDropped, ReturnSeat, Thread
<1>5. \A t \in FacultySession : ~FinishEdit(t)
  BY DEF FreshCopies, EnrollSteps, FinishEdit, Thread
<1>6. ASSUME NEW t \in StudentSession, AppendRecord(t)
      PROVE  UNCHANGED courses
  BY <1>6 DEF AppendRecord
<1>7. QED
  BY <1>1, <1>2, <1>3, <1>4, <1>5, <1>6, QuietStep

(* The seats add up in every state while enrolling is all that goes on.    *)
LEMMA EnrollingInvariant ==
    ASSUME OnlyEnrolling
    PROVE  Spec => []EnrollingInv
<1>1. Init => FreshCopies /\ LimitsStand /\ SeatsAccounted
  <2> SUFFICES ASSUME Init
               PROVE  FreshCopies /\ LimitsStand /\ SeatsAccounted
    OBVIOUS
  <2>1. FreshCopies /\ LimitsStand
    BY DEF Init, FreshCopies, LimitsStand
  <2>2. ASSUME NEW c \in Course
        PROVE  Gap(c) = 0
    <3>1. Live(c) = {} /\ Owing(c) = {} /\ Returning(c) = {}
      BY DEF Init, Live, Owing, Returning, At
    <3>2. courses[c].max = InitialSeats[c] /\ courses[c].avail = InitialSeats[c]
      BY DEF Init
    <3>3. InitialSeats[c] \in Int /\ Cardinality({}) = 0
      BY DataAssumption, FS_EmptySet
    <3>4. QED
      BY <3>1, <3>2, <3>3 DEF Gap
  <2>3. QED
    BY <2>1, <2>2 DEF SeatsAccounted
<1>2. IInv /\ ReturningFinite /\ FreshCopies /\ LimitsStand /\ SeatsAccounted /\ [Next]_vars
         => FreshCopies' /\ LimitsStand' /\ SeatsAccounted'
  <2> SUFFICES ASSUME IInv, ReturningFinite, FreshCopies, LimitsStand, SeatsAccounted,
                      [Next]_vars
               PROVE  FreshCopies' /\ LimitsStand' /\ SeatsAccounted'
    OBVIOUS
  <2>1. FreshCopies' /\ LimitsStand'
    BY FreshStep, LimitsStandStep
  <2>2. ASSUME NEW c \in Course
        PROVE  Gap(c)' = 0
    BY GapStep, NoReasonLeft DEF IInv, SeatsAccounted
  <2>3. QED
    BY <2>1, <2>2 DEF SeatsAccounted
<1>3. QED
  BY <1>1, <1>2, CountsInvariant, PTL DEF Spec, EnrollingInv

(* The race test's sum holds at every instant: free seats, live records and*)
(* the seats owed by calls under way add up to the limit of each course.   *)
THEOREM SeatsAddUp ==
    ASSUME OnlyEnrolling
    PROVE  Spec => []SeatsAccounted
<1>1. EnrollingInv => SeatsAccounted
  BY DEF EnrollingInv
<1>2. QED
  BY <1>1, EnrollingInvariant, PTL

(* A call that owes a seat has seen a free one, and it is still there.     *)
LEMMA OwedSeatIsFree ==
    ASSUME EnrollingInv, NEW c \in Course
    PROVE  /\ Returning(c) = {}
           /\ Owing(c) # {} => Cardinality(Owing(c)) = 1 /\ courses[c].avail > 0
<1>1. TypeOK /\ LockDiscipline /\ CopiesHaveSeats /\ FreshCopies
  BY DEF EnrollingInv, IInv
<1>2. Returning(c) = {}
  BY <1>1 DEF Returning, At, FreshCopies, EnrollSteps
<1>3. ASSUME NEW t \in Owing(c)
      PROVE  Cardinality(Owing(c)) = 1 /\ courses[c].avail > 0
  <2>1. t \in Thread /\ pc[t] = "takeSeat" /\ call[t].course = c
    BY <1>3 DEF Owing, At
  <2>2. courses[c].avail > 0
    BY <1>1, <2>1 DEF CopiesHaveSeats, FreshCopies
  <2>3. Owing(c) = {t}
    BY <1>1, <1>3, OwingOne
  <2>4. QED
    BY <2>2, <2>3, FS_Singleton
<1>4. QED
  BY <1>2, <1>3

(* However many sessions race for the last seat, a course anybody is       *)
(* enrolled in has no more live enrollments than its limit; one added with *)
(* a limit below zero stays empty.                                         *)
THEOREM LimitIsKept ==
    ASSUME OnlyEnrolling
    PROVE  Spec => []NoOverbooking
<1>1. EnrollingInv => NoOverbooking
  <2> SUFFICES ASSUME EnrollingInv, NEW c \in Course, Live(c) # {}
               PROVE  Cardinality(Live(c)) <= courses[c].max
    BY DEF NoOverbooking
  <2>1. /\ Cardinality(Live(c)) \in Nat /\ Cardinality(Live(c)) # 0
        /\ Cardinality(Owing(c)) \in Nat
        /\ courses[c].max \in Int /\ courses[c].avail \in Int
    <3>1. IsFiniteSet(Live(c))
      BY LiveFinite DEF EnrollingInv, IInv
    <3>2. Cardinality(Live(c)) # 0
      BY <3>1, FS_EmptySet
    <3>3. QED
      BY <3>2, CountsType DEF EnrollingInv, IInv
  <2>2. /\ Cardinality(Returning(c)) = 0
        /\ \/ Cardinality(Owing(c)) = 0
           \/ Cardinality(Owing(c)) = 1 /\ courses[c].avail > 0
    <3>1. /\ Returning(c) = {}
          /\ Owing(c) # {} => Cardinality(Owing(c)) = 1 /\ courses[c].avail > 0
      BY OwedSeatIsFree
    <3>2. Cardinality({}) = 0
      BY FS_EmptySet
    <3>3. QED
      BY <3>1, <3>2
  <2>3. courses[c].max - courses[c].avail - Cardinality(Live(c))
           + Cardinality(Owing(c)) - Cardinality(Returning(c)) = 0
    BY DEF EnrollingInv, SeatsAccounted, Gap
  <2>4. courses[c].avail >= 0 \/ courses[c].avail >= courses[c].max
    <3>1. courses[c].avail >= Floor(c) /\ courses[c].max = InitialSeats[c]
      BY DEF EnrollingInv, IInv, SeatsNonNegative, LimitsStand
    <3>2. Floor(c) \in {0, InitialSeats[c]}
      BY FloorIs
    <3>3. QED
      BY <3>1, <3>2
  <2>5. QED
    BY <2>1, <2>2, <2>3, <2>4
<1>2. QED
  BY <1>1, EnrollingInvariant, PTL

-----------------------------------------------------------------------------
(* Enrolling implements the atomic ledger                                  *)

(* Seats not yet promised to anybody, and who is enrolled: the ledger's    *)
(* variables.                                                              *)
FreeSeats == [c \in Course |-> courses[c].avail - Cardinality(Owing(c))]
Rosters   == [c \in Course |-> Roster(c)]

(* A step that appends no record is invisible in the ledger: a call that   *)
(* takes the seat it owes only settles what the ledger has booked.         *)
LEMMA LedgerStutters ==
    ASSUME OnlyEnrolling, EnrollingInv, [Next]_vars, UNCHANGED enrollments,
           \A t \in StudentSession : ~AppendRecord(t)
    PROVE  UNCHANGED <<FreeSeats, Rosters>>
<1>1. TypeOK /\ LockDiscipline /\ IInv /\ ReturningFinite /\ FreshCopies
  BY DEF EnrollingInv, IInv
<1>2. Rosters' = Rosters
  BY DEF Rosters, Roster, OnRoster, IsRecordOf
<1>3. ASSUME NEW c \in Course
      PROVE  courses'[c].avail - Cardinality(Owing(c)') = courses[c].avail - Cardinality(Owing(c))
  <2>1. ~StaleWrite(c) /\ ~IgnoredError(c) /\ ~Crash
    <3>1. ~StaleWrite(c) /\ ~IgnoredError(c)
      BY <1>1, NoReasonLeft
    <3>2. ~Crash
      BY <1>1 DEF Crash, OnlyEnrolling, TypeOK
    <3>3. QED
      BY <3>1, <3>2
  <2>2. CASE \E t \in StudentSession : TakeSeat(t)
    <3>1. \/ /\ courses'[c].avail = courses[c].avail - 1
             /\ Cardinality(Owing(c)') = Cardinality(Owing(c)) - 1
          \/ courses'[c] = courses[c] /\ Owing(c)' = Owing(c)
      BY <1>1, <2>1, <2>2, TakeCounts
    <3>2. QED
      BY <1>1, <3>1, CountsType
  <2>3. CASE \A t \in StudentSession : ~TakeSeat(t)
    <3>1. \A t \in StudentSession : ~MarkDropped(t) /\ ~ReturnSeat(t)
      BY <1>1 DEF FreshCopies, EnrollSteps, MarkDropped, ReturnSeat, Thread
    <3>2. \A t \in FacultySession : ~FinishEdit(t)
      BY <1>1 DEF FreshCopies, EnrollSteps, FinishEdit, Thread
    <3>3. UNCHANGED courses /\ Owing(c)' = Owing(c)
      BY <1>1, <2>1, <2>3, <3>1, <3>2, QuietStep
    <3>4. QED
      BY <3>3
  <2>4. QED
    BY <2>2, <2>3
<1>4. QED
  BY <1>2, <1>3 DEF FreeSeats

(* The step that appends the record is the ledger's: it books a free seat   *)
(* for a student who has none in that course.                              *)
LEMMA LedgerEnrolls ==
    ASSUME OnlyEnrolling, EnrollingInv, NEW t \in StudentSession, AppendRecord(t)
    PROVE  LET s == Account[t]
               c == call[t].course
           IN  /\ s \in Student /\ c \in Course
               /\ s \notin Rosters[c]
               /\ FreeSeats[c] > 0
               /\ FreeSeats' = [FreeSeats EXCEPT ![c] = @ - 1]
               /\ Rosters' = [Rosters EXCEPT ![c] = @ \cup {s}]
<1> USE SessionsAssumption, DataAssumption DEF Thread
<1>0. PICK s \in Student, c \in Course : s = Account[t] /\ c = call[t].course
  BY DEF EnrollingInv, IInv, CoursesKnown, CourseFound, EnrollSteps, AppendRecord
<1> DEFINE n == Len(enrollments)
           r == [id |-> slot[t], student |-> s, course |-> c]
<1>1. /\ TypeOK /\ LockDiscipline /\ CoursesKnown /\ CopiesHaveSeats
      /\ AppendIsFresh /\ FreshCopies
  BY DEF EnrollingInv, IInv, RecordsInOrder
<1>2. /\ pc[t] = "append" /\ UNCHANGED <<courses, call>>
      /\ enrollments' = Append(enrollments, r) /\ Goto(t, "takeSeat")
  BY <1>0 DEF AppendRecord, OnlyEnrolling
<1>3. s # Dropped
  OBVIOUS
<1>4. r \in EnrollmentRecord /\ r.student = s /\ r.course = c
  BY <1>1, <1>2, <1>3 DEF TypeOK, EnrollmentRecord
<1>5. /\ DOMAIN enrollments = 1..n /\ n \in Nat
      /\ DOMAIN enrollments' = 1..n + 1
      /\ \A j \in 1..n : enrollments'[j] = enrollments[j]
      /\ enrollments'[n + 1].student = s /\ enrollments'[n + 1].course = c
  BY <1>1, <1>2, <1>4, AppendIs DEF TypeOK
<1>6. ~OnRoster(s, c)
  <2>1. blind = {}
    BY DEF EnrollingInv, IInv, ScansWhole, OnlyEnrolling
  <2>2. QED
    BY <1>0, <1>1, <1>2, <2>1 DEF AppendIsFresh
<1>7. Owing(c) = {} /\ Owing(c)' = {t}
  <2>1. \A u \in Thread : pc'[u] = IF u = t THEN "takeSeat" ELSE pc[u]
    BY <1>1, <1>2, GotoIs
  <2>2. "course" \in Mutex /\ Holds(pc[t], "course")
    BY <1>2 DEF Mutex, Holds
  <2>3. owner["course"] = t
    BY <1>1, <2>2 DEF LockDiscipline
  <2>4. Owing(c) \subseteq {t} /\ t \notin Owing(c)
    BY <1>1, <1>2, <2>3, OwingOne DEF Owing, At
  <2>5. QED
    BY <1>0, <1>2, <2>1, <2>4 DEF Owing, At
<1> HIDE DEF n, r
<1>8. FreeSeats[c] > 0
  <2>1. courses[c].avail > 0 /\ courses[c].avail \in Int
    BY <1>0, <1>1, <1>2 DEF CopiesHaveSeats, FreshCopies, TypeOK, SeatRecord
  <2>2. QED
    <3>1. Cardinality(Owing(c)) = 0
      BY <1>7, FS_EmptySet
    <3>2. FreeSeats[c] = courses[c].avail - Cardinality(Owing(c))
      BY <1>0 DEF FreeSeats
    <3>3. QED
      BY <2>1, <3>1, <3>2
<1>9. FreeSeats' = [FreeSeats EXCEPT ![c] = @ - 1]
  <2>1. Cardinality(Owing(c)) = 0 /\ Cardinality(Owing(c)') = 1 /\ courses[c].avail \in Int
    BY <1>1, <1>3, <1>7, FS_EmptySet, FS_Singleton DEF TypeOK, SeatRecord
  <2>2. \A d \in Course \ {c} : Owing(d)' = Owing(d)
    BY <1>0, <1>1, <1>2, GotoIs DEF Owing, At
  <2>3. \A d \in Course : courses'[d].avail - Cardinality(Owing(d)')
              = IF d = c THEN courses[d].avail - Cardinality(Owing(d)) - 1
                         ELSE courses[d].avail - Cardinality(Owing(d))
    <3> TAKE d \in Course
    <3>1. CASE d = c
      BY <1>2, <2>1, <3>1
    <3>2. CASE d # c
      BY <1>2, <2>2, <3>2
    <3>3. QED
      BY <3>1, <3>2
  <2>4. QED
    BY <1>3, <2>3 DEF FreeSeats
<1>10. ASSUME NEW d \in Course
       PROVE  Roster(d)' = IF d = c THEN Roster(d) \cup {s} ELSE Roster(d)
  <2>1. \A u \in Student :
           OnRoster(u, d)' <=> OnRoster(u, d) \/ (u = s /\ d = c)
    BY <1>5 DEF OnRoster, IsRecordOf
  <2>2. QED
    BY <1>3, <2>1 DEF Roster
<1>11. Rosters' = [Rosters EXCEPT ![c] = @ \cup {s}]
  BY <1>3, <1>10 DEF Rosters
<1>12. s \notin Rosters[c]
  BY <1>3, <1>6 DEF Rosters, Roster
<1>13. QED
  BY <1>0, <1>8, <1>9, <1>11, <1>12

(* While enrolling is all that goes on, enroll_student with its two        *)
(* mutexes, its scan, its append and its later write of the course does    *)
(* what the README says it does: record and seat change in one step, and   *)
(* only while a seat is free.                                              *)
THEOREM EnrollingIsAtomic ==
    ASSUME OnlyEnrolling
    PROVE  Spec => ImplementsLedger
<1>1. Init => Ledger!Init
  <2> SUFFICES ASSUME Init
               PROVE  Ledger!Init
    OBVIOUS
  <2>1. \A c \in Course : Owing(c) = {} /\ Roster(c) = {}
    BY DEF Init, Owing, At, Roster, OnRoster
  <2>2. \A c \in Course : /\ courses[c].avail = InitialSeats[c]
                          /\ InitialSeats[c] \in Int
    BY DataAssumption DEF Init
  <2>3. FreeSeats = InitialSeats
    <3>1. \A c \in Course : courses[c].avail - Cardinality(Owing(c)) = InitialSeats[c]
      <4> TAKE c \in Course
      <4>1. Cardinality(Owing(c)) = 0
        BY <2>1, FS_EmptySet
      <4>2. QED
        BY <2>2, <4>1
    <3>2. InitialSeats = [c \in Course |-> InitialSeats[c]]
      BY DataAssumption
    <3>3. QED
      BY <3>1, <3>2 DEF FreeSeats
  <2>4. Rosters = [c \in Course |-> {}]
    BY <2>1 DEF Rosters
  <2>5. QED
    BY <2>3, <2>4 DEF Ledger!Init, FreeSeats, Rosters
<1>2. EnrollingInv /\ [Next]_vars => [Ledger!Next]_(Ledger!ledger)
  <2> SUFFICES ASSUME EnrollingInv, [Next]_vars
               PROVE  [Ledger!Next]_(Ledger!ledger)
    OBVIOUS
  <2>1. ASSUME NEW t \in StudentSession, AppendRecord(t)
        PROVE  Ledger!Next
    <3>1. PICK s \in Student, c \in Course : s = Account[t] /\ c = call[t].course
      BY <2>1, LedgerEnrolls
    <3>2. Ledger!Enroll(s, c)
      BY <2>1, <3>1, LedgerEnrolls DEF Ledger!Enroll, FreeSeats, Rosters
    <3>3. QED
      BY <3>2 DEF Ledger!Next
  <2>2. CASE \A t \in StudentSession : ~AppendRecord(t)
    <3>1. \A t \in StudentSession : ~MarkDropped(t)
      BY DEF EnrollingInv, FreshCopies, EnrollSteps, MarkDropped, Thread
    <3>2. ~Crash
      BY DEF EnrollingInv, IInv, Crash, OnlyEnrolling, TypeOK
    <3>3. UNCHANGED enrollments
      BY <2>2, <3>1, <3>2
         DEF Next, StudentStep, EnrollStep, DropStep, Waiting, vars, files, BeginEnroll,
             BeginDrop, BeginEdit, GetCourseToEdit, FinishEdit, LockCourse, ReadCourse,
             LockEnroll, Scan, TakeSeat, LockStudent, Reread, AddToList, GetCourse,
             LockEnrollToDrop, FindRecord, LockCourseToReturn, ReturnSeat,
             LockStudentToRemove, RereadToRemove, RemoveFromList
    <3>4. UNCHANGED <<FreeSeats, Rosters>>
      BY <2>2, <3>3, LedgerStutters
    <3>5. QED
      BY <3>4 DEF Ledger!ledger, FreeSeats, Rosters
  <2>3. QED
    BY <2>1, <2>2
<1>3. QED
  BY <1>1, <1>2, EnrollingInvariant, PTL DEF Spec, ImplementsLedger, Ledger!Spec

=============================================================================
