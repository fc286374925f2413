------------------------------ MODULE SeatLedger ------------------------------
(***************************************************************************)
(* What enrolling promises: a ledger of free seats and a roster per course *)
(* that change together, in one step, and only while a seat is free.  The  *)
(* calls of Enrollment are shown to implement it when nothing but enrolling*)
(* goes on; dropping has no such abstraction (see README.md).              *)
(***************************************************************************)
EXTENDS Integers, FiniteSets

CONSTANTS
    Course,        \* course ids
    Student,       \* student ids
    InitialSeats   \* InitialSeats[c]: seats of course c

VARIABLES
    free,          \* free[c]: seats of c still free
    roster         \* roster[c]: students enrolled in c

ledger == <<free, roster>>

Init == /\ free = InitialSeats
        /\ roster = [c \in Course |-> {}]

Enroll(s, c) == /\ s \notin roster[c]
                /\ free[c] > 0
                /\ free' = [free EXCEPT ![c] = @ - 1]
                /\ roster' = [roster EXCEPT ![c] = @ \cup {s}]

Next == \E s \in Student, c \in Course : Enroll(s, c)

Spec == Init /\ [][Next]_ledger
=============================================================================
