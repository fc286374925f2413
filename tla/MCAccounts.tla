------------------------------ MODULE MCAccounts ------------------------------
(* Small instances of Accounts.                                            *)
EXTENDS Accounts

CONSTANTS m, n,       \* administrators
          a, b,       \* student sessions
          p, q,       \* passwords
          c1, c2      \* courses

Enrolled(i, l) == [id |-> i, password |-> p, status |-> "ACTIVE", list |-> l]

OneStudent  == <<Enrolled(1, {c1})>>
TwoStudents == <<Enrolled(1, {c1}), Enrolled(2, {})>>
TwoEach     == [t \in Thread |-> 2]

(* Nothing tells the two sessions apart.                                   *)
SessionSymmetry == Permutations({a, b})
===============================================================================
