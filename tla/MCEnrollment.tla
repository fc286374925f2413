----------------------------- MODULE MCEnrollment -----------------------------
(* Small instances of Enrollment: who is logged in where, and the seats.   *)
EXTENDS Enrollment

CONSTANTS c1, c2,         \* courses
          s1, s2, s3,     \* students
          a, b, d, f      \* sessions: a, b, d of students, f of a teacher

OneCourse  == {c1}
TwoCourses == {c1, c2}

NoTeaching    == [t \in {} |-> {}]
FTeaches      == [t \in {f} |-> Course]

(* One session for each student; or a and b both of student s1.            *)
OwnSessions2   == a :> s1 @@ b :> s2
OwnSessions3   == a :> s1 @@ b :> s2 @@ d :> s3
SharedSessions == a :> s1 @@ b :> s1 @@ d :> s2
SharedOnly     == a :> s1 @@ b :> s1

TwoSeats   == [c \in Course |-> 2]
(* c2 was added with the limit -1.                                         *)
TwoOrNegative == [c \in Course |-> IF c = c1 THEN 2 ELSE -1]
OneAndTwoSeats == [c \in Course |-> IF c = c1 THEN 1 ELSE 2]

(* Limits below and above the seats taken; atoi lets a negative one by.    *)
Limits == {-1, 0, 3}
NoLimits == {}

(* How often each session calls.                                           *)
TwoEach   == [t \in Thread |-> 2]
ThreeEach == [t \in Thread |-> 3]
ATwice    == [t \in Thread |-> IF t = a THEN 2 ELSE 1]

(* No action reads what a call that is over was or answered, and no        *)
(* property of the run but its type.                                       *)
Underway == <<files, owner, pc, [t \in Thread |-> IF pc[t] = "idle" THEN NoCall ELSE call[t]],
              locals, calls, crashes, blind>>
=============================================================================
