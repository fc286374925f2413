------------------------------- MODULE MCCatalog -------------------------------
(* Small instances of Catalog.                                             *)
EXTENDS Catalog

CONSTANTS f, g,       \* teachers
          a, b,       \* students
          x, y, z     \* course codes

Course(i, teacher, c, n) ==
    [id |-> i, owner |-> teacher, code |-> c, avail |-> n, status |-> "ACTIVE"]

(* Two courses of f, student b in one of them; one course of each teacher.   *)
TwoOfF     == <<Course(1, f, x, Seats), Course(2, f, y, Seats - 1)>>
OneOfEach  == <<Course(1, f, x, Seats), Course(2, g, y, Seats)>>
BInSecond  == {<<b, 2>>}
Nobody     == {}

OneEach     == [t \in Thread |-> 1]
TwoThenOne  == [t \in Thread |-> IF t \in Teacher THEN 2 ELSE 1]
===============================================================================
