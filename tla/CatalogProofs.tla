----------------------------- MODULE CatalogProofs -----------------------------
(***************************************************************************)
(* Proofs about Catalog: types for any number of teachers and students,    *)
(* and, with one teacher and files that do not fail, that adding, removing *)
(* and purging never lose a course on offer and never list two courses     *)
(* under one id or code, and which steps alone make a seat of such a course*)
(* disappear, for any number of students, calls and crashes.               *)
(***************************************************************************)
EXTENDS Catalog, Extremes, FiniteSetTheorems, SequenceTheorems, TLAPS

(* One teacher; files that do not fail; a courses.dat as the seeder and    *)
(* purge_inactive_courses leave it: ACTIVE records, ids and codes distinct.*)
OneTeacher ==
    /\ \A f, g \in Teacher : f = g
    /\ FilesCanFail = FALSE
    /\ \A i \in DOMAIN FirstCourses : FirstCourses[i].status = "ACTIVE"
    /\ \A i, j \in DOMAIN FirstCourses :
          i # j => /\ FirstCourses[i].id # FirstCourses[j].id
                   /\ FirstCourses[i].code # FirstCourses[j].code

AddSteps    == {"addScan", "addSeek", "addWrite"}
PurgeSteps  == {"openOld", "openTmp", "copy", "rename"}
RemoveSteps == {"removeRead", "updateFind", "updateWrite"} \cup PurgeSteps
BuySteps    == {"waitCourse", "readCourse", "enroll", "takeSeat"}
DropSteps   == {"drop", "waitCourseToReturn", "updateFind", "updateWrite"}

-----------------------------------------------------------------------------
(* The inductive invariant *)

(* A course id that a student typed, or that was found, is one there is.   *)
IdsTyped == \A t \in Shopper : pc[t] \in BuySteps => rec[t].id \in 1..MaxId

(* A descriptor to be read or extended is open.                            *)
FilesOpen == \A f \in Teacher : /\ pc[f] = "addSeek" => fd[f] # 0
                                /\ pc[f] \in {"openTmp", "copy"} => old[f] # 0

OpenInv == TypeOK /\ IdsTyped /\ FilesOpen

(* Each thread is in the steps of the call it makes.                       *)
CallsMatch ==
    /\ \A f \in Teacher : /\ pc[f] \in {"idle"} \cup AddSteps \cup RemoveSteps
                          /\ pc[f] \in AddSteps => op[f] = "add"
                          /\ pc[f] \in RemoveSteps => op[f] = "remove"
    /\ \A t \in Shopper : /\ pc[t] \in {"idle"} \cup BuySteps \cup DropSteps
                          /\ pc[t] \in DropSteps => op[t] = "drop"

(* Which file each descriptor is of, and where in it the call will write.  *)
(* The half written copy is nobody's but the teacher's.                    *)
TeacherAt(f) ==
    /\ pc[f] \in {"addSeek", "addWrite", "updateWrite"} => fd[f] = cat
    /\ pc[f] = "addWrite" => off[f] = Len(data[cat]) + 1
    /\ pc[f] = "updateWrite" => off[f] \in DOMAIN data[cat]
    /\ pc[f] \in {"openTmp", "copy", "rename"} => old[f] = cat
    /\ pc[f] = "openTmp" => pos[f] = 1
    /\ pc[f] \in {"copy", "rename"} => /\ tmp # 0 /\ fd[f] = tmp
                                       /\ off[f] = Len(data[tmp]) + 1
                                       /\ pos[f] \in 1..Len(data[cat]) + 1
    /\ pc[f] = "rename" => pos[f] = Len(data[cat]) + 1

ShopperAt(t) ==
    pc[t] \in {"enroll", "takeSeat", "updateWrite"} =>
        /\ fd[t] \in DOMAIN data /\ fd[t] # tmp
        /\ off[t] \in DOMAIN data[fd[t]]

FilesApart == /\ tmp # cat
              /\ \A f \in Teacher : TeacherAt(f)
              /\ \A t \in Shopper : ShopperAt(t)

(* Between LockCourse and the return a student's thread holds the mutex.   *)
OneInside ==
    \A t \in Shopper : pc[t] \in {"readCourse", "enroll", "takeSeat", "updateFind",
                                  "updateWrite"} => mutex = t

Structure == OpenInv /\ CallsMatch /\ OneInside /\ FilesApart

SameCourse(r, q) == r.id = q.id /\ r.code = q.code
Differ(r, q)     == r.id # q.id /\ r.code # q.code

Purging(id) == \E f \in Teacher : pc[f] \in PurgeSteps /\ rec[f].id = id

(* What an enroll read is the record it will write to, were it for the     *)
(* teacher having marked it INACTIVE meanwhile.                            *)
EnrollCopy(t) ==
    pc[t] \in {"enroll", "takeSeat"} /\ fd[t] = cat =>
        /\ rec[t].status = "ACTIVE"
        /\ SameCourse(data[cat][off[t]], rec[t])
        /\ \A i \in Active(data[cat]) \ {off[t]} : Differ(data[cat][i], rec[t])
        /\ data[cat][off[t]].status = "ACTIVE" \/ Purging(rec[t].id)

EnrollCopies == \A t \in Shopper : EnrollCopy(t)

(* What the scan of add_course found is true till the record is written.   *)
AddIsNew ==
    \A f \in Teacher :
        /\ pc[f] \in AddSteps => rec[f].status = "ACTIVE"
        /\ pc[f] \in {"addSeek", "addWrite"} =>
              \A i \in Active(data[cat]) : Differ(data[cat][i], rec[f])

(* The record a removal deactivates is the one it looked up.               *)
RemovesItsOwn ==
    \A f \in Teacher :
        /\ pc[f] \in RemoveSteps => \A id \in 1..MaxId :
                                       rec[f].id = id => promise[id] # "offered"
        /\ pc[f] \in {"updateFind", "updateWrite"} => rec[f].status = "INACTIVE"
        /\ pc[f] = "updateFind" =>
              \A i \in Named(data[cat], rec[f].id) :
                 (\A j \in Named(data[cat], rec[f].id) : i <= j)
                    => SameCourse(data[cat][i], rec[f])
        /\ pc[f] = "updateWrite" => SameCourse(data[cat][off[f]], rec[f])

Distinct ==
    \A i, j \in Active(data[cat]) : i # j => Differ(data[cat][i], data[cat][j])

(* Without a crash an INACTIVE record is one being purged.                 *)
NoneLeft ==
    crashes = 0 => \A i \in DOMAIN data[cat] : \/ data[cat][i].status = "ACTIVE"
                                               \/ Purging(data[cat][i].id)

(* The copy under way has every listed course passed so far, once, except  *)
(* possibly the one being removed, and nothing else.                       *)
CopyFaithful ==
    \A f \in Teacher :
        pc[f] \in {"copy", "rename"} =>
            /\ \A k \in DOMAIN data[tmp] :
                  /\ data[tmp][k].status = "ACTIVE"
                  /\ \E i \in Active(data[cat]) :
                        i < pos[f] /\ SameCourse(data[cat][i], data[tmp][k])
            /\ \A k, l \in DOMAIN data[tmp] : k # l => Differ(data[tmp][k], data[tmp][l])
            /\ \A i \in Active(data[cat]) :
                  i < pos[f] => \/ data[cat][i].id = rec[f].id
                                \/ \E k \in DOMAIN data[tmp] :
                                      data[tmp][k].id = data[cat][i].id

Content == /\ EnrollCopies /\ AddIsNew /\ RemovesItsOwn
           /\ Distinct /\ OfferedOnFile /\ NoneLeft /\ CopyFaithful

IInv == Structure /\ (~overwritten => Content)

-----------------------------------------------------------------------------
(* Files                                                                   *)

(* The record a look-up stops at.                                          *)
LEMMA FirstIs ==
    ASSUME NEW s \in Seq(CourseRecord), NEW id, Found(s, id)
    PROVE  /\ First(s, id) \in DOMAIN s /\ First(s, id) \in Nat
           /\ s[First(s, id)] \in CourseRecord /\ s[First(s, id)].id = id
           /\ \A j \in Named(s, id) : First(s, id) <= j
<1>1. Named(s, id) \in SUBSET Nat /\ Named(s, id) # {}
  BY DEF Named, Found
<1>2. First(s, id) \in Named(s, id) /\ \A j \in Named(s, id) : First(s, id) <= j
  BY <1>1, MinIsIn DEF First
<1>3. QED
  BY <1>2 DEF Named

(* What TypeOK says of the files and of one thread.                        *)
LEMMA TypesAt ==
    ASSUME TypeOK, NEW t \in Thread
    PROVE  /\ data \in Seq(Seq(CourseRecord)) /\ 0 \notin DOMAIN data
           /\ cat \in DOMAIN data /\ data[cat] \in Seq(CourseRecord)
           /\ tmp \in {0} \cup DOMAIN data
           /\ rec[t] \in CourseRecord /\ fd[t] \in {0} \cup DOMAIN data
           /\ off[t] \in Nat /\ pos[t] \in Nat
<1>1. /\ data \in Seq(Seq(CourseRecord)) /\ cat \in DOMAIN data
      /\ tmp \in {0} \cup DOMAIN data
  BY DEF TypeOK
<1>2. data[cat] \in Seq(CourseRecord) /\ 0 \notin DOMAIN data
  BY <1>1
<1>3. /\ rec[t] \in CourseRecord /\ fd[t] \in {0} \cup DOMAIN data
      /\ off[t] \in Nat /\ pos[t] \in Nat
  BY DEF TypeOK
<1>4. QED
  BY <1>1, <1>2, <1>3

(* What the calls make of a record they copied is a record.                *)
LEMMA CopyIs ==
    ASSUME NEW r \in CourseRecord
    PROVE  /\ OneFewer(r) \in CourseRecord /\ Deactivated(r) \in CourseRecord
           /\ [r EXCEPT !.avail = @ + 1] \in CourseRecord
           /\ \A id \in 1..MaxId : [r EXCEPT !.id = id] \in CourseRecord
<1>1. OneFewer(r) \in CourseRecord
  BY DEF OneFewer, CourseRecord
<1>2. Deactivated(r) \in CourseRecord
  BY DEF Deactivated, CourseRecord
<1>3. [r EXCEPT !.avail = @ + 1] \in CourseRecord
  BY DEF CourseRecord
<1>4. ASSUME NEW id \in 1..MaxId
      PROVE  [r EXCEPT !.id = id] \in CourseRecord
  <2>1. id \in 0..MaxId
    BY CatalogAssumption
  <2>2. QED
    BY <2>1 DEF CourseRecord
<1>5. QED
  BY <1>1, <1>2, <1>3, <1>4

(* A write leaves a file of records; the bytes skipped are zeroes.         *)
WriteOf(s, i, r, w) ==
    /\ w \in Seq(CourseRecord)
    /\ i <= Len(s) => DOMAIN w = 1..Len(s)
    /\ i > Len(s) => DOMAIN w = 1..i
    /\ \A j \in DOMAIN w : w[j] = IF j = i THEN r ELSE IF j \in DOMAIN s THEN s[j] ELSE Hole

LEMMA WriteHolds ==
    ASSUME NEW s \in Seq(CourseRecord), NEW i \in Nat, NEW r \in CourseRecord
    PROVE  WriteOf(s, i, r, WriteAt(s, i, r))
<1> DEFINE n == IF i <= Len(s) THEN Len(s) ELSE i
           w == WriteAt(s, i, r)
<1>1. Len(s) \in Nat /\ DOMAIN s = 1..Len(s) /\ n \in Nat
  OBVIOUS
<1>2. Max({i, Len(s)}) = n
  BY <1>1, MaxOfTwo
<1>3. w = [j \in 1..n |-> IF j = i THEN r ELSE IF j \in DOMAIN s THEN s[j] ELSE Hole]
  BY <1>2, Zenon DEF WriteAt
<1> HIDE DEF w, n
<1>4. Hole \in CourseRecord
  BY CatalogAssumption DEF Hole, CourseRecord
<1>5. \A j \in 1..n : (IF j = i THEN r ELSE IF j \in DOMAIN s THEN s[j] ELSE Hole)
                         \in CourseRecord
  BY <1>1, <1>4
<1>6. w \in [1..n -> CourseRecord]
  BY <1>3, <1>5
<1>7. w \in Seq(CourseRecord) /\ DOMAIN w = 1..n
  BY <1>1, <1>6
<1>8. QED
  <2>1. i > Len(s) => ~(i <= Len(s))
    BY <1>1
  <2>2. (i <= Len(s) => n = Len(s)) /\ (i > Len(s) => n = i)
    BY <2>1, Zenon DEF n
  <2>3. \A j \in DOMAIN w : w[j] = IF j = i THEN r ELSE IF j \in DOMAIN s THEN s[j] ELSE Hole
    BY <1>3
  <2>4. WriteOf(s, i, r, w)
    BY <1>7, <2>2, <2>3 DEF WriteOf
  <2>5. QED
    BY <2>4 DEF w

(* The file is a file again.                                              *)
LEMMA WriteIs ==
    ASSUME NEW s \in Seq(CourseRecord), NEW i \in Nat, NEW r \in CourseRecord
    PROVE  WriteAt(s, i, r) \in Seq(CourseRecord)
BY WriteHolds DEF WriteOf

(* Writing to an open file changes that file only.                         *)
LEMMA FileWritten ==
    ASSUME TypeOK, NEW k \in DOMAIN data, NEW s \in Seq(CourseRecord)
    PROVE  /\ [data EXCEPT ![k] = s] \in Seq(Seq(CourseRecord))
           /\ DOMAIN [data EXCEPT ![k] = s] = DOMAIN data
           /\ \A f \in DOMAIN data : [data EXCEPT ![k] = s][f] = IF f = k THEN s ELSE data[f]
BY ExceptSeq DEF TypeOK

(* A write through a descriptor, open or not, keeps the files files.       *)
LEMMA WriteType ==
    ASSUME TypeOK, NEW k \in {0} \cup DOMAIN data, NEW i \in Nat, NEW r \in CourseRecord
    PROVE  /\ [data EXCEPT ![k] = WriteAt(@, i, r)] \in Seq(Seq(CourseRecord))
           /\ DOMAIN [data EXCEPT ![k] = WriteAt(@, i, r)] = DOMAIN data
<1>1. data \in Seq(Seq(CourseRecord)) /\ 0 \notin DOMAIN data
  BY DEF TypeOK
<1>2. CASE k \in DOMAIN data
  <2>1. data[k] \in Seq(CourseRecord)
    BY <1>1, <1>2
  <2>2. WriteAt(data[k], i, r) \in Seq(CourseRecord)
    BY <2>1, WriteIs, ZenonT(30)
  <2>3. QED
    BY <1>2, <2>2, FileWritten
<1>3. CASE k = 0
  <2>1. [data EXCEPT ![k] = WriteAt(@, i, r)] = data
    BY <1>1, <1>3
  <2>2. QED
    BY <1>1, <2>1
<1>4. QED
  BY <1>2, <1>3

-----------------------------------------------------------------------------
(* Types *)

(* A call that returns leaves its locals empty.                            *)
LEMMA ReturnIs ==
    ASSUME TypeOK, NEW t \in Thread, NEW code \in Codes, Return(t, code)
    PROVE  /\ pc' \in [Thread -> Steps] /\ answer' \in [Thread -> Codes]
           /\ rec' \in [Thread -> CourseRecord]
           /\ fd' \in [Thread -> {0} \cup DOMAIN data]
           /\ old' \in [Thread -> {0} \cup DOMAIN data]
           /\ off' \in [Thread -> Nat] /\ pos' \in [Thread -> Nat]
           /\ pc'[t] = "idle"
           /\ \A u \in Thread \ {t} : /\ pc'[u] = pc[u] /\ rec'[u] = rec[u]
                                      /\ fd'[u] = fd[u] /\ off'[u] = off[u]
                                      /\ old'[u] = old[u] /\ pos'[u] = pos[u]
<1>1. Hole \in CourseRecord /\ "idle" \in Steps
  BY CatalogAssumption DEF Hole, CourseRecord, Steps
<1>2. QED
  BY <1>1 DEF TypeOK, Return, Goto

(* A call begins.                                                          *)
LEMMA BeginIs ==
    ASSUME TypeOK, NEW t \in Thread, NEW name \in {"add", "remove", "enroll", "drop"},
           Begin(t, name)
    PROVE  /\ pc[t] = "idle" /\ UNCHANGED <<crashes, overwritten>>
           /\ calls' \in [Thread -> Nat]
           /\ op' \in [Thread -> {"none", "add", "remove", "enroll", "drop"}]
           /\ op'[t] = name /\ \A u \in Thread \ {t} : op'[u] = op[u]
BY SMTT(30) DEF TypeOK, Begin, past

(* A thread goes from step to step.                                        *)
LEMMA GotoIs ==
    ASSUME TypeOK, NEW t \in Thread, NEW step \in Steps, Goto(t, step)
    PROVE  /\ pc' \in [Thread -> Steps]
           /\ pc'[t] = step /\ \A u \in Thread \ {t} : pc'[u] = pc[u]
BY DEF TypeOK, Goto

(* A local variable gets a value.                                          *)
LEMMA RecIs ==
    ASSUME TypeOK, NEW t \in Thread, NEW r \in CourseRecord, rec' = [rec EXCEPT ![t] = r]
    PROVE  /\ rec' \in [Thread -> CourseRecord]
           /\ rec'[t] = r /\ \A u \in Thread \ {t} : rec'[u] = rec[u]
BY DEF TypeOK

(* The id of a new course, where the bound allows one.                     *)
LEMMA NextIdType ==
    ASSUME TypeOK, NEW n, NextCourseId(n) <= MaxId
    PROVE  NextCourseId(n) \in 1..MaxId
<1> DEFINE Ids == {0} \cup {data[cat][i].id : i \in AllCourses(data[cat], n)}
<1>1. data[cat] \in Seq(CourseRecord) /\ MaxId \in Nat
  BY CatalogAssumption DEF TypeOK
<1>2. \A i \in AllCourses(data[cat], n) : data[cat][i].id \in 0..MaxId
  <2> SUFFICES ASSUME NEW i \in AllCourses(data[cat], n)
               PROVE  data[cat][i].id \in 0..MaxId
    OBVIOUS
  <2>0. i \in DOMAIN data[cat]
    BY DEF AllCourses, Active
  <2>1. data[cat][i] \in CourseRecord
    BY <1>1, <2>0
  <2>2. QED
    BY <2>1 DEF CourseRecord
<1>3. Ids \in SUBSET (0..MaxId) /\ Ids \in SUBSET Int /\ Ids # {}
  BY <1>1, <1>2
<1>4. NextCourseId(n) = 1 + Max(Ids)
  BY Zenon DEF NextCourseId
<1> HIDE DEF Ids
<1>5. PICK m \in Ids : \A y \in Ids : m >= y
  BY <1>1, <1>3, GreatestExists
<1>6. Max(Ids) = m
  BY <1>3, <1>5, MaxIs
<1>7. QED
  BY <1>1, <1>3, <1>4, <1>5, <1>6

(* What adding and removing do to the types.                               *)
LEMMA TeacherTypes ==
    ASSUME TypeOK, FilesOpen, NEW t \in Teacher,
           \/ \E code \in Code : BeginAdd(t, code)
           \/ \E id \in 1..MaxId : BeginRemove(t, id)
           \/ AddScan(t) \/ AddSeek(t) \/ AddWrite(t) \/ RemoveRead(t)
    PROVE  TypeOK'
<1> USE DEF Thread, Codes, disk
<1>1. /\ data \in Seq(Seq(CourseRecord)) /\ cat \in DOMAIN data
      /\ data[cat] \in Seq(CourseRecord)
      /\ rec[t] \in CourseRecord
  BY DEF TypeOK
<1>2. ASSUME NEW code \in Code, BeginAdd(t, code)
      PROVE  TypeOK'
  <2>1. PICK n \in ReadBefore(data[cat]) :
           /\ NextCourseId(n) <= MaxId
           /\ rec' = [rec EXCEPT ![t] = [id |-> NextCourseId(n), owner |-> t,
                                         code |-> code, avail |-> Seats,
                                         status |-> "ACTIVE"]]
    BY <1>2 DEF BeginAdd
  <2>2. [id |-> NextCourseId(n), owner |-> t, code |-> code, avail |-> Seats,
         status |-> "ACTIVE"] \in CourseRecord
    BY <2>1, NextIdType, CatalogAssumption DEF CourseRecord
  <2>3. rec' \in [Thread -> CourseRecord]
    BY <2>1, <2>2, RecIs
  <2>4. QED
    BY <1>2, <2>3, SMTT(30) DEF TypeOK, BeginAdd, Begin, Goto, Steps, past
<1>3. ASSUME NEW id \in 1..MaxId, BeginRemove(t, id)
      PROVE  TypeOK'
  <2>1. CASE \E code \in {"COURSE_NOT_FOUND", "FAILURE"} :
                Return(t, code) /\ UNCHANGED promise
    <3>1. /\ calls' \in [Thread -> Nat] /\ UNCHANGED <<crashes, overwritten>>
          /\ op' \in [Thread -> {"none", "add", "remove", "enroll", "drop"}]
          /\ UNCHANGED <<disk, mutex>>
      BY <1>3, BeginIs DEF BeginRemove
    <3>2. QED
      BY <2>1, <3>1, ReturnIs DEF TypeOK
  <2>2. CASE /\ Found(data[cat], id)
             /\ rec' = [rec EXCEPT ![t] = data[cat][First(data[cat], id)]]
             /\ answer' = [answer EXCEPT ![t] = "none"]
             /\ promise' = [promise EXCEPT ![id] = "none"]
             /\ Goto(t, "removeRead")
             /\ UNCHANGED <<fd, off, old, pos>>
    <3>1. data[cat][First(data[cat], id)] \in CourseRecord
      BY <1>1, <2>2, FirstIs
    <3>2. QED
      <4>1. /\ calls' \in [Thread -> Nat] /\ UNCHANGED <<crashes, overwritten>>
            /\ op' \in [Thread -> {"none", "add", "remove", "enroll", "drop"}]
            /\ UNCHANGED <<disk, mutex>>
        BY <1>3, BeginIs DEF BeginRemove
      <4>2. pc' \in [Thread -> Steps]
        BY <2>2, GotoIs DEF Steps
      <4>3. rec' \in [Thread -> CourseRecord]
        BY <2>2, <3>1, RecIs
      <4>4. answer' \in [Thread -> Codes] /\ promise' \in [1..MaxId -> {"none", "offered", "gone"}]
        BY <2>2 DEF TypeOK
      <4>5. QED
        BY <2>2, <4>1, <4>2, <4>3, <4>4 DEF TypeOK
  <2>3. QED
    BY <1>3, <2>1, <2>2 DEF BeginRemove
<1>4. ASSUME AddScan(t)
      PROVE  TypeOK'
  <2>1. CASE \E code \in {"COURSE_EXISTS", "FAILURE"} : Return(t, code)
    <3>1. UNCHANGED <<disk, mutex, op, promise, calls, crashes, overwritten>>
      BY <1>4 DEF AddScan, past
    <3>2. QED
      BY <2>1, <3>1, ReturnIs DEF TypeOK
  <2>2. CASE /\ fd' = [fd EXCEPT ![t] = cat]
             /\ Goto(t, "addSeek")
             /\ UNCHANGED <<answer, rec, off, old, pos>>
    BY <1>4, <2>2 DEF TypeOK, AddScan, Goto, Steps, past
  <2>3. QED
    BY <1>4, <2>1, <2>2 DEF AddScan
<1>5. ASSUME AddSeek(t)
      PROVE  TypeOK'
  <2>1. Len(data[fd[t]]) + 1 \in Nat
    <3>1. fd[t] \in DOMAIN data
      BY <1>5 DEF TypeOK, AddSeek, FilesOpen
    <3>2. QED
      BY <1>1, <3>1
  <2>2. QED
    BY <1>5, <2>1 DEF TypeOK, AddSeek, Goto, Steps, past
<1>6. ASSUME AddWrite(t)
      PROVE  TypeOK'
  <2>1. /\ data' \in Seq(Seq(CourseRecord)) /\ DOMAIN data' = DOMAIN data
    <3>1. off[t] \in Nat /\ fd[t] \in {0} \cup DOMAIN data
      BY DEF TypeOK
    <3>2. CASE data' = [data EXCEPT ![fd[t]] = WriteAt(@, off[t], rec[t])]
      BY <1>1, <3>1, <3>2, WriteType
    <3>3. CASE UNCHANGED data
      BY <1>1, <3>3
    <3>4. QED
      BY <1>6, <3>2, <3>3 DEF AddWrite
  <2>2. promise' \in [1..MaxId -> {"none", "offered", "gone"}]
    BY <1>6 DEF TypeOK, AddWrite
  <2>3. Return(t, "SUCCESS")
    BY <1>6 DEF AddWrite
  <2>4. UNCHANGED <<cat, tmp, enrolled, mutex, op, calls, crashes, overwritten>>
    BY <1>6 DEF AddWrite, past
  <2>5. QED
    BY <2>1, <2>2, <2>3, <2>4, ReturnIs DEF TypeOK
<1>7. ASSUME RemoveRead(t)
      PROVE  TypeOK'
  <2>1. CASE \E code \in {"COURSE_NOT_FOUND", "FAILURE"} : Return(t, code)
    <3>1. UNCHANGED <<disk, mutex, op, promise, calls, crashes, overwritten>>
      BY <1>7 DEF RemoveRead, past
    <3>2. QED
      BY <2>1, <3>1, ReturnIs DEF TypeOK
  <2>2. CASE /\ Found(data[cat], rec[t].id)
             /\ rec' = [rec EXCEPT ![t] =
                           Deactivated(data[cat][First(data[cat], rec[t].id)])]
             /\ Goto(t, "updateFind")
             /\ UNCHANGED <<answer, fd, off, old, pos>>
    <3>1. data[cat][First(data[cat], rec[t].id)] \in CourseRecord
      BY <1>1, <2>2, FirstIs
    <3>2. Deactivated(data[cat][First(data[cat], rec[t].id)]) \in CourseRecord
      BY <3>1, CopyIs
    <3>3. QED
      <4>1. pc' \in [Thread -> Steps]
        BY <2>2, GotoIs DEF Steps
      <4>2. rec' \in [Thread -> CourseRecord]
        BY <2>2, <3>2, RecIs
      <4>3. UNCHANGED <<disk, mutex, op, promise, calls, past>>
        BY <1>7 DEF RemoveRead
      <4>4. QED
        BY <2>2, <4>1, <4>2, <4>3 DEF TypeOK, past
  <2>3. QED
    BY <1>7, <2>1, <2>2 DEF RemoveRead
<1>8. QED
  BY <1>2, <1>3, <1>4, <1>5, <1>6, <1>7


(* What follows update_course.                                             *)
LEMMA AfterUpdateIs ==
    ASSUME TypeOK, NEW t \in Thread, NEW code \in Codes, AfterUpdate(t, code)
    PROVE  /\ mutex' \in Thread \cup {NoThread}
           /\ pc' \in [Thread -> Steps] /\ answer' \in [Thread -> Codes]
           /\ rec' \in [Thread -> CourseRecord]
           /\ fd' \in [Thread -> {0} \cup DOMAIN data]
           /\ old' \in [Thread -> {0} \cup DOMAIN data]
           /\ off' \in [Thread -> Nat] /\ pos' \in [Thread -> Nat]
<1>1. CASE op[t] = "remove" /\ answer' = [answer EXCEPT ![t] = code]
           /\ Goto(t, "openOld") /\ UNCHANGED <<mutex, rec, fd, off, old, pos>>
  <2>1. pc' \in [Thread -> Steps]
    BY <1>1, GotoIs DEF Steps
  <2>2. QED
    BY <1>1, <2>1 DEF TypeOK
<1>2. CASE op[t] = "drop" /\ Return(t, "SUCCESS") /\ Release
  <2>1. "SUCCESS" \in Codes
    BY DEF Codes
  <2>2. QED
    BY <1>2, <2>1, ReturnIs DEF TypeOK, Release
<1>3. QED
  BY <1>1, <1>2 DEF AfterUpdate

(* What remove_course returns.                                             *)
LEMMA AnswerIs ==
    ASSUME TypeOK, NEW t \in Thread, Answer(t)
    PROVE  /\ promise' \in [1..MaxId -> {"none", "offered", "gone"}]
           /\ \E code \in Codes : Return(t, code)
BY DEF TypeOK, Answer

(* What update_course does to the types.                                   *)
LEMMA UpdateTypes ==
    ASSUME TypeOK, NEW t \in Thread, UpdateFind(t) \/ UpdateWrite(t)
    PROVE  TypeOK'
<1> USE DEF disk, past
<1>1. /\ data \in Seq(Seq(CourseRecord)) /\ cat \in DOMAIN data
      /\ data[cat] \in Seq(CourseRecord) /\ rec[t] \in CourseRecord
      /\ off[t] \in Nat /\ fd[t] \in {0} \cup DOMAIN data
  BY DEF TypeOK
<1>2. {"FAILURE", "COURSE_NOT_FOUND", "SUCCESS"} \subseteq Codes
  BY DEF Codes
<1>3. ASSUME UpdateFind(t)
      PROVE  TypeOK'
  <2>1. CASE \E code \in {"FAILURE", "COURSE_NOT_FOUND"} : AfterUpdate(t, code)
    <3>1. /\ mutex' \in Thread \cup {NoThread}
          /\ pc' \in [Thread -> Steps] /\ answer' \in [Thread -> Codes]
          /\ rec' \in [Thread -> CourseRecord]
          /\ fd' \in [Thread -> {0} \cup DOMAIN data]
          /\ old' \in [Thread -> {0} \cup DOMAIN data]
          /\ off' \in [Thread -> Nat] /\ pos' \in [Thread -> Nat]
      BY <1>2, <2>1, AfterUpdateIs
    <3>2. UNCHANGED <<data, cat, tmp, enrolled, op, promise, calls, crashes, overwritten>>
      BY <1>3 DEF UpdateFind
    <3>3. QED
      BY <3>1, <3>2 DEF TypeOK
  <2>2. CASE /\ Found(data[cat], rec[t].id)
             /\ fd' = [fd EXCEPT ![t] = cat]
             /\ off' = [off EXCEPT ![t] = First(data[cat], rec[t].id)]
             /\ Goto(t, "updateWrite")
             /\ UNCHANGED <<mutex, answer, rec, old, pos>>
    <3>1. First(data[cat], rec[t].id) \in Nat
      BY <1>1, <2>2, FirstIs
    <3>2. pc' \in [Thread -> Steps]
      BY <2>2, GotoIs DEF Steps
    <3>3. QED
      BY <1>1, <1>3, <2>2, <3>1, <3>2 DEF UpdateFind, TypeOK
  <2>3. QED
    BY <1>3, <2>1, <2>2 DEF UpdateFind
<1>4. ASSUME UpdateWrite(t)
      PROVE  TypeOK'
  <2>1. data' \in Seq(Seq(CourseRecord)) /\ DOMAIN data' = DOMAIN data
    <3>1. CASE data' = [data EXCEPT ![fd[t]] = WriteAt(@, off[t], rec[t])]
      BY <1>1, <3>1, WriteType
    <3>2. CASE UNCHANGED data
      BY <1>1, <3>2
    <3>3. QED
      BY <1>4, <3>1, <3>2 DEF UpdateWrite
  <2>2. overwritten' \in BOOLEAN
    BY <1>4, Zenon DEF UpdateWrite, TypeOK
  <2>3. AfterUpdate(t, "SUCCESS")
    BY <1>4 DEF UpdateWrite
  <2>4. QED
    BY <1>2, <1>4, <2>1, <2>2, <2>3, AfterUpdateIs DEF UpdateWrite, TypeOK
<1>5. QED
  BY <1>3, <1>4

(* What purge_inactive_courses does to the types.                          *)
LEMMA PurgeTypes ==
    ASSUME TypeOK, FilesOpen, NEW t \in Teacher,
           OpenOld(t) \/ OpenTmp(t) \/ CopyRecord(t) \/ Rename(t)
    PROVE  TypeOK'
<1> USE DEF Thread, disk, past
<1>1. /\ data \in Seq(Seq(CourseRecord)) /\ cat \in DOMAIN data
      /\ tmp \in {0} \cup DOMAIN data
      /\ off[t] \in Nat /\ pos[t] \in Nat
      /\ fd[t] \in {0} \cup DOMAIN data /\ old[t] \in {0} \cup DOMAIN data
  BY DEF TypeOK
<1>2. ASSUME OpenOld(t)
      PROVE  TypeOK'
  <2>1. CASE Answer(t)
    BY <1>2, <2>1, AnswerIs, ReturnIs DEF OpenOld, TypeOK
  <2>2. CASE /\ old' = [old EXCEPT ![t] = cat]
             /\ pos' = [pos EXCEPT ![t] = 1]
             /\ Goto(t, "openTmp")
             /\ UNCHANGED <<answer, rec, fd, off, promise>>
    <3>1. pc' \in [Thread -> Steps]
      BY <2>2, GotoIs DEF Steps
    <3>2. QED
      BY <1>1, <1>2, <2>2, <3>1 DEF OpenOld, TypeOK
  <2>3. QED
    BY <1>2, <2>1, <2>2 DEF OpenOld
<1>3. ASSUME OpenTmp(t)
      PROVE  TypeOK'
  <2>1. CASE Answer(t) /\ tmp' \in {tmp, 0} /\ UNCHANGED data
    BY <1>1, <1>3, <2>1, AnswerIs, ReturnIs DEF OpenTmp, TypeOK
  <2>2. CASE /\ \/ tmp = 0 /\ data' = Append(data, << >>) /\ tmp' = Len(data) + 1
                \/ tmp # 0 /\ data' = [data EXCEPT ![tmp] = << >>] /\ UNCHANGED tmp
             /\ fd' = [fd EXCEPT ![t] = tmp']
             /\ off' = [off EXCEPT ![t] = 1]
             /\ Goto(t, "copy")
             /\ UNCHANGED <<answer, rec, old, pos, promise>>
    <3>1. << >> \in Seq(CourseRecord)
      OBVIOUS
    <3>2. /\ data' \in Seq(Seq(CourseRecord)) /\ DOMAIN data \subseteq DOMAIN data'
          /\ tmp' \in DOMAIN data'
      <4>1. CASE tmp = 0 /\ data' = Append(data, << >>) /\ tmp' = Len(data) + 1
        BY <1>1, <3>1, <4>1, AppendProperties
      <4>2. CASE tmp # 0 /\ data' = [data EXCEPT ![tmp] = << >>] /\ UNCHANGED tmp
        BY <1>1, <3>1, <4>2, FileWritten
      <4>3. QED
        BY <2>2, <4>1, <4>2
    <3>3. pc' \in [Thread -> Steps]
      BY <2>2, GotoIs DEF Steps
    <3>4. cat' \in DOMAIN data' /\ tmp' \in {0} \cup DOMAIN data'
      BY <1>1, <1>3, <3>2 DEF OpenTmp
    <3>5. /\ fd' \in [Thread -> {0} \cup DOMAIN data']
          /\ old' \in [Thread -> {0} \cup DOMAIN data']
          /\ off' \in [Thread -> Nat]
      BY <2>2, <3>2 DEF TypeOK
    <3>6. QED
      BY <1>3, <2>2, <3>2, <3>3, <3>4, <3>5 DEF OpenTmp, TypeOK
  <2>3. QED
    BY <1>3, <2>1, <2>2 DEF OpenTmp
<1>4. ASSUME CopyRecord(t)
      PROVE  TypeOK'
  <2>1. old[t] \in DOMAIN data /\ data[old[t]] \in Seq(CourseRecord)
    BY <1>1, <1>4 DEF CopyRecord, FilesOpen
  <2>2. /\ data' \in Seq(Seq(CourseRecord)) /\ DOMAIN data' = DOMAIN data
        /\ off' \in [Thread -> Nat]
    <3>1. CASE /\ pos[t] \in DOMAIN data[old[t]]
               /\ data' = [data EXCEPT ![fd[t]] = WriteAt(@, off[t], data[old[t]][pos[t]])]
               /\ off' = [off EXCEPT ![t] = @ + 1]
      <4>1. data[old[t]][pos[t]] \in CourseRecord
        BY <2>1, <3>1
      <4>2. off' \in [Thread -> Nat]
        <5>1. off \in [Thread -> Nat] /\ off[t] + 1 \in Nat
          BY <1>1 DEF TypeOK
        <5>2. QED
          BY <3>1, <5>1
      <4>3. QED
        BY <1>1, <3>1, <4>1, <4>2, WriteType
    <3>2. CASE UNCHANGED <<data, off>>
      BY <1>1, <3>2 DEF TypeOK
    <3>3. QED
      BY <1>4, <3>1, <3>2 DEF CopyRecord
  <2>3. pos' \in [Thread -> Nat] /\ pc' \in [Thread -> Steps]
    <3>1. CASE pos' = [pos EXCEPT ![t] = @ + 1] /\ UNCHANGED pc
      BY <3>1 DEF TypeOK
    <3>2. CASE Goto(t, "rename") /\ UNCHANGED pos
      BY <3>2, GotoIs DEF TypeOK, Steps
    <3>3. QED
      BY <1>4, <3>1, <3>2 DEF CopyRecord
  <2>4. UNCHANGED <<cat, tmp, enrolled, mutex, op, answer, rec, fd, old, promise,
                    calls, crashes, overwritten>>
    BY <1>4 DEF CopyRecord
  <2>5. QED
    BY <2>2, <2>3, <2>4 DEF TypeOK
<1>5. ASSUME Rename(t)
      PROVE  TypeOK'
  <2>1. cat' \in DOMAIN data /\ tmp' \in {0} \cup DOMAIN data
    BY <1>1, <1>5 DEF Rename
  <2>2. Answer(t)
    BY <1>5 DEF Rename
  <2>3. QED
    BY <1>5, <2>1, <2>2, AnswerIs, ReturnIs DEF Rename, TypeOK
<1>6. QED
  BY <1>2, <1>3, <1>4, <1>5

(* What enrolling and dropping do to the types.                            *)
LEMMA ShopperTypes ==
    ASSUME TypeOK, IdsTyped, NEW t \in Shopper,
           \/ \E id \in 1..MaxId : BeginEnroll(t, id) \/ BeginDrop(t, id)
           \/ LockCourse(t) \/ ReadCourse(t) \/ Enroll(t) \/ TakeSeat(t)
           \/ Drop(t) \/ LockCourseToReturn(t)
    PROVE  TypeOK'
<1> USE DEF Thread, disk, past
<1>1. /\ data \in Seq(Seq(CourseRecord)) /\ cat \in DOMAIN data
      /\ data[cat] \in Seq(CourseRecord) /\ rec[t] \in CourseRecord
      /\ off[t] \in Nat /\ fd[t] \in {0} \cup DOMAIN data
      /\ enrolled \subseteq Shopper \X (1..MaxId)
  BY DEF TypeOK
<1>2. {"FAILURE", "COURSE_NOT_FOUND", "SUCCESS", "COURSE_FULL", "ALREADY_ENROLLED",
       "NOT_ENROLLED", "none"} \subseteq Codes
  BY DEF Codes
<1>3. ASSUME NEW id \in 1..MaxId, BeginEnroll(t, id)
      PROVE  TypeOK'
  <2>1. rec' \in [Thread -> CourseRecord]
    <3>1. [rec[t] EXCEPT !.id = id] \in CourseRecord
      BY <1>1, CopyIs
    <3>2. rec' = [rec EXCEPT ![t] = [rec[t] EXCEPT !.id = id]]
      BY <1>3 DEF BeginEnroll, TypeOK
    <3>3. QED
      BY <3>1, <3>2, RecIs
  <2>2. pc' \in [Thread -> Steps] /\ answer' \in [Thread -> Codes]
    BY <1>2, <1>3, GotoIs DEF BeginEnroll, TypeOK, Steps
  <2>3. Begin(t, "enroll") /\ UNCHANGED <<disk, mutex, fd, off, old, pos, promise>>
    BY <1>3 DEF BeginEnroll
  <2>4. QED
    BY <2>1, <2>2, <2>3, BeginIs DEF TypeOK
<1>4. ASSUME NEW id \in 1..MaxId, BeginDrop(t, id)
      PROVE  TypeOK'
  <2>1. Begin(t, "drop") /\ UNCHANGED <<disk, mutex, promise>>
    BY <1>4 DEF BeginDrop
  <2>2. CASE \E code \in {"COURSE_NOT_FOUND", "FAILURE"} : Return(t, code)
    BY <1>2, <2>1, <2>2, BeginIs, ReturnIs DEF TypeOK
  <2>3. CASE /\ Found(data[cat], id)
             /\ rec' = [rec EXCEPT ![t] =
                           [data[cat][First(data[cat], id)] EXCEPT !.avail = @ + 1]]
             /\ answer' = [answer EXCEPT ![t] = "none"]
             /\ Goto(t, "drop")
             /\ UNCHANGED <<fd, off, old, pos>>
    <3>1. data[cat][First(data[cat], id)] \in CourseRecord
      BY <1>1, <2>3, FirstIs
    <3>2. [data[cat][First(data[cat], id)] EXCEPT !.avail = @ + 1] \in CourseRecord
      BY <3>1, CopyIs
    <3>3. rec' \in [Thread -> CourseRecord]
      BY <2>3, <3>2, RecIs
    <3>4. pc' \in [Thread -> Steps] /\ answer' \in [Thread -> Codes]
      BY <1>2, <2>3, GotoIs DEF TypeOK, Steps
    <3>5. QED
      BY <2>1, <2>3, <3>3, <3>4, BeginIs DEF TypeOK
  <2>4. QED
    BY <1>4, <2>2, <2>3 DEF BeginDrop
<1>5. ASSUME ReadCourse(t)
      PROVE  TypeOK'
  <2>1. UNCHANGED <<disk, op, promise, calls, past>>
    BY <1>5 DEF ReadCourse
  <2>2. CASE /\ \E code \in {"FAILURE", "COURSE_NOT_FOUND", "COURSE_FULL"} : Return(t, code)
             /\ Refuse
    BY <1>2, <2>1, <2>2, ReturnIs DEF TypeOK, Refuse, Release
  <2>3. CASE /\ Found(data[cat], rec[t].id)
             /\ rec' = [rec EXCEPT ![t] = data[cat][First(data[cat], rec[t].id)]]
             /\ fd' = [fd EXCEPT ![t] = cat]
             /\ off' = [off EXCEPT ![t] = First(data[cat], rec[t].id)]
             /\ Goto(t, "enroll")
             /\ UNCHANGED <<mutex, answer, old, pos>>
    <3>1. /\ data[cat][First(data[cat], rec[t].id)] \in CourseRecord
          /\ First(data[cat], rec[t].id) \in Nat
      BY <1>1, <2>3, FirstIs
    <3>2. rec' \in [Thread -> CourseRecord]
      BY <2>3, <3>1, RecIs
    <3>3. pc' \in [Thread -> Steps]
      BY <2>3, GotoIs DEF Steps
    <3>4. QED
      BY <1>1, <2>1, <2>3, <3>1, <3>2, <3>3 DEF TypeOK
  <2>4. QED
    BY <1>5, <2>2, <2>3 DEF ReadCourse
<1>6. ASSUME Enroll(t)
      PROVE  TypeOK'
  <2>1. UNCHANGED <<data, cat, tmp, op, promise, calls, past>>
    BY <1>6 DEF Enroll
  <2>2. CASE /\ \E code \in {"FAILURE", "ALREADY_ENROLLED"} : Return(t, code)
             /\ Refuse /\ UNCHANGED enrolled
    BY <1>2, <2>1, <2>2, ReturnIs DEF TypeOK, Refuse, Release
  <2>3. CASE /\ enrolled' = enrolled \cup {<<t, rec[t].id>>}
             /\ Goto(t, "takeSeat")
             /\ UNCHANGED <<mutex, answer, locals>>
    <3>1. rec[t].id \in 1..MaxId
      BY <1>6 DEF Enroll, IdsTyped, BuySteps
    <3>2. pc' \in [Thread -> Steps]
      BY <2>3, GotoIs DEF Steps
    <3>3. enrolled' \subseteq Shopper \X (1..MaxId)
      BY <1>1, <2>3, <3>1
    <3>4. QED
      BY <2>1, <2>3, <3>2, <3>3 DEF TypeOK, locals
  <2>4. QED
    BY <1>6, <2>2, <2>3 DEF Enroll
<1>7. ASSUME TakeSeat(t)
      PROVE  TypeOK'
  <2>1. data' \in Seq(Seq(CourseRecord)) /\ DOMAIN data' = DOMAIN data
    <3>1. CASE data' = [data EXCEPT ![fd[t]] = WriteAt(@, off[t], OneFewer(rec[t]))]
      <4>1. OneFewer(rec[t]) \in CourseRecord
        BY <1>1, CopyIs
      <4>2. QED
        BY <1>1, <3>1, <4>1, WriteType
    <3>2. CASE UNCHANGED data
      BY <1>1, <3>2
    <3>3. QED
      BY <1>7, <3>1, <3>2 DEF TakeSeat
  <2>2. Return(t, "SUCCESS") /\ Release
        /\ UNCHANGED <<cat, tmp, enrolled, op, promise, calls, past>>
    BY <1>7 DEF TakeSeat
  <2>3. QED
    BY <1>2, <2>1, <2>2, ReturnIs DEF TypeOK, Release
<1>8. ASSUME Drop(t)
      PROVE  TypeOK'
  <2>1. UNCHANGED <<data, cat, tmp, mutex, op, promise, calls, past>>
    BY <1>8 DEF Drop
  <2>2. enrolled' \subseteq enrolled
    BY <1>8 DEF Drop
  <2>3. CASE \E code \in {"FAILURE", "NOT_ENROLLED"} : Return(t, code)
    BY <1>2, <2>1, <2>2, <2>3, ReturnIs DEF TypeOK
  <2>4. CASE Goto(t, "waitCourseToReturn") /\ UNCHANGED <<answer, locals>>
    <3>1. pc' \in [Thread -> Steps]
      BY <2>4, GotoIs DEF Steps
    <3>2. QED
      BY <2>1, <2>2, <2>4, <3>1 DEF TypeOK, locals
  <2>5. QED
    BY <1>8, <2>3, <2>4 DEF Drop
<1>9. ASSUME LockCourse(t) \/ LockCourseToReturn(t)
      PROVE  TypeOK'
  <2>1. /\ UNCHANGED <<disk, op, answer, locals, promise, calls, past>>
        /\ mutex' = t /\ \E step \in {"readCourse", "updateFind"} : Goto(t, step)
    BY <1>9 DEF LockCourse, LockCourseToReturn, Acquire
  <2>2. pc' \in [Thread -> Steps]
    BY <2>1, GotoIs DEF Steps
  <2>3. QED
    BY <2>1, <2>2 DEF TypeOK, locals
<1>10. QED
  BY <1>3, <1>4, <1>5, <1>6, <1>7, <1>8, <1>9

-----------------------------------------------------------------------------
LEMMA OpenStart == Init => OpenInv
<1> SUFFICES ASSUME Init PROVE OpenInv
  OBVIOUS
<1>1. Hole \in CourseRecord
  BY CatalogAssumption DEF Hole, CourseRecord
<1>2. data \in Seq(Seq(CourseRecord)) /\ DOMAIN data = {1}
  BY CatalogAssumption DEF Init
<1>3. TypeOK
  BY <1>1, <1>2, CatalogAssumption DEF Init, TypeOK, Steps, Codes
<1>4. IdsTyped /\ FilesOpen
  BY DEF Init, IdsTyped, FilesOpen, BuySteps, Thread
<1>5. QED
  BY <1>3, <1>4 DEF OpenInv

(* Every step of one thread leaves the locals of the others alone.         *)
LEMMA OnlyItsOwn ==
    ASSUME TypeOK, NEW t \in Thread,
           \/ \E code \in Code : BeginAdd(t, code)
           \/ \E id \in 1..MaxId : BeginRemove(t, id)
           \/ TeacherStep(t) \/ ShopperStep(t)
           \/ \E id \in 1..MaxId : BeginEnroll(t, id) \/ BeginDrop(t, id)
    PROVE  \A u \in Thread \ {t} :
              /\ pc'[u] = pc[u] /\ op'[u] = op[u] /\ rec'[u] = rec[u]
              /\ fd'[u] = fd[u] /\ off'[u] = off[u]
              /\ old'[u] = old[u] /\ pos'[u] = pos[u]
<1> USE DEF TypeOK, Goto
<1>1. \A code : Return(t, code) =>
         \A u \in Thread \ {t} : /\ pc'[u] = pc[u] /\ rec'[u] = rec[u]
                                 /\ fd'[u] = fd[u] /\ off'[u] = off[u]
                                 /\ old'[u] = old[u] /\ pos'[u] = pos[u]
  BY DEF Return
<1>2. CASE \E code \in Code : BeginAdd(t, code)
  BY <1>2 DEF BeginAdd, Begin
<1>3. CASE \E id \in 1..MaxId : BeginRemove(t, id)
  BY <1>1, <1>3 DEF BeginRemove, Begin
<1>4. CASE AddScan(t) \/ AddSeek(t) \/ AddWrite(t)
  BY <1>1, <1>4 DEF AddScan, AddSeek, AddWrite
<1>5. CASE RemoveRead(t)
  BY <1>1, <1>5 DEF RemoveRead
<1>6. CASE UpdateFind(t) \/ UpdateWrite(t)
  BY <1>1, <1>6 DEF UpdateFind, UpdateWrite, AfterUpdate
<1>7. CASE OpenOld(t) \/ OpenTmp(t)
  BY <1>1, <1>7 DEF OpenOld, OpenTmp, Answer
<1>8. CASE CopyRecord(t) \/ Rename(t)
  BY <1>1, <1>8 DEF CopyRecord, Rename, Answer
<1>9. CASE LockCourse(t) \/ ReadCourse(t) \/ Enroll(t)
  BY <1>1, <1>9 DEF LockCourse, ReadCourse, Enroll, locals
<1>10. CASE TakeSeat(t) \/ Drop(t) \/ LockCourseToReturn(t)
  BY <1>1, <1>10 DEF TakeSeat, Drop, LockCourseToReturn, locals
<1>11. CASE \E id \in 1..MaxId : BeginEnroll(t, id) \/ BeginDrop(t, id)
  BY <1>1, <1>11 DEF BeginEnroll, BeginDrop, Begin
<1>12. QED
  BY <1>2, <1>3, <1>4, <1>5, <1>6, <1>7, <1>8, <1>9, <1>10, <1>11
     DEF TeacherStep, ShopperStep

(* IdsTyped and FilesOpen are about one thread each: the one that steps.   *)
LEMMA OpenStep == OpenInv /\ [Next]_vars => OpenInv'
<1> SUFFICES ASSUME OpenInv, [Next]_vars PROVE OpenInv'
  OBVIOUS
<1> USE DEF OpenInv
<1>1. Teacher \cap Shopper = {} /\ Thread = Teacher \cup Shopper
  BY CatalogAssumption DEF Thread
<1>2. ASSUME NEW t \in Teacher,
             \/ \E code \in Code : BeginAdd(t, code)
             \/ \E id \in 1..MaxId : BeginRemove(t, id)
             \/ TeacherStep(t)
      PROVE  OpenInv'
  <2>1. TypeOK'
    BY <1>1, <1>2, TeacherTypes, UpdateTypes, PurgeTypes DEF TeacherStep
  <2>2. \A u \in Thread \ {t} : /\ pc'[u] = pc[u] /\ rec'[u] = rec[u]
                                /\ fd'[u] = fd[u] /\ old'[u] = old[u]
    BY <1>1, <1>2, OnlyItsOwn
  <2>3. IdsTyped'
    BY <1>1, <2>2 DEF IdsTyped
  <2>4. /\ pc'[t] = "addSeek" => fd'[t] # 0
        /\ pc'[t] \in {"openTmp", "copy"} => old'[t] # 0
    <3>1. 0 # cat /\ t \in Thread
      BY <1>1 DEF TypeOK
    <3>2. \A code : Return(t, code) => pc'[t] = "idle"
      BY <3>1 DEF TypeOK, Return, Goto
    <3>3. CASE \/ \E code \in Code : BeginAdd(t, code)
               \/ \E id \in 1..MaxId : BeginRemove(t, id)
      BY <3>1, <3>2, <3>3 DEF BeginAdd, BeginRemove, Goto, TypeOK
    <3>4. CASE AddScan(t) \/ AddSeek(t) \/ AddWrite(t) \/ RemoveRead(t)
      BY <3>1, <3>2, <3>4 DEF AddScan, AddSeek, AddWrite, RemoveRead, Goto, TypeOK
    <3>5. CASE UpdateFind(t) \/ UpdateWrite(t)
      BY <3>1, <3>2, <3>5 DEF UpdateFind, UpdateWrite, AfterUpdate, Goto, TypeOK
    <3>6. CASE OpenOld(t) \/ OpenTmp(t)
      BY <3>1, <3>2, <3>6 DEF OpenOld, OpenTmp, Answer, Goto, TypeOK, FilesOpen
    <3>7. CASE CopyRecord(t) \/ Rename(t)
      BY <3>1, <3>2, <3>7 DEF CopyRecord, Rename, Answer, Goto, TypeOK, FilesOpen
    <3>8. QED
      BY <1>2, <3>3, <3>4, <3>5, <3>6, <3>7 DEF TeacherStep
  <2>5. FilesOpen'
    BY <1>1, <2>2, <2>4 DEF FilesOpen
  <2>6. QED
    BY <2>1, <2>3, <2>5
<1>3. ASSUME NEW t \in Shopper,
             \/ \E id \in 1..MaxId : BeginEnroll(t, id) \/ BeginDrop(t, id)
             \/ ShopperStep(t)
      PROVE  OpenInv'
  <2>1. TypeOK'
    BY <1>1, <1>3, ShopperTypes, UpdateTypes DEF ShopperStep
  <2>2. \A u \in Thread \ {t} : /\ pc'[u] = pc[u] /\ rec'[u] = rec[u]
                                /\ fd'[u] = fd[u] /\ old'[u] = old[u]
    BY <1>1, <1>3, OnlyItsOwn
  <2>3. FilesOpen'
    BY <1>1, <2>2 DEF FilesOpen
  <2>4. pc'[t] \in BuySteps => rec'[t].id \in 1..MaxId
    <3>1. t \in Thread
      BY <1>1
    <3>2. \A code : Return(t, code) => pc'[t] = "idle"
      BY <3>1 DEF TypeOK, Return, Goto
    <3>3. CASE \E id \in 1..MaxId : BeginEnroll(t, id)
      BY <3>1, <3>3 DEF BeginEnroll, TypeOK, CourseRecord
    <3>4. CASE \E id \in 1..MaxId : BeginDrop(t, id)
      BY <3>1, <3>2, <3>4 DEF BeginDrop, Goto, TypeOK, BuySteps
    <3>5. CASE ReadCourse(t)
      <4>1. rec[t].id \in 1..MaxId
        BY <3>5 DEF ReadCourse, IdsTyped, BuySteps
      <4>2. CASE \E code : Return(t, code)
        BY <3>2, <4>2 DEF BuySteps
      <4>3. CASE /\ Found(data[cat], rec[t].id)
                 /\ rec' = [rec EXCEPT ![t] = data[cat][First(data[cat], rec[t].id)]]
        <5>1. data[cat] \in Seq(CourseRecord)
          BY DEF TypeOK
        <5>2. rec'[t] = data[cat][First(data[cat], rec[t].id)]
          BY <3>1, <4>3 DEF TypeOK
        <5>3. rec'[t].id = rec[t].id
          BY <4>3, <5>1, <5>2, FirstIs
        <5>4. QED
          BY <4>1, <5>3
      <4>4. QED
        BY <3>5, <4>2, <4>3 DEF ReadCourse
    <3>6. CASE LockCourse(t) \/ Enroll(t) \/ TakeSeat(t)
      BY <3>1, <3>2, <3>6 DEF LockCourse, Enroll, TakeSeat, Goto, TypeOK, IdsTyped,
                              BuySteps, locals
    <3>7. CASE Drop(t) \/ LockCourseToReturn(t)
      BY <3>1, <3>2, <3>7 DEF Drop, LockCourseToReturn, Goto, TypeOK, BuySteps
    <3>8. CASE UpdateFind(t) \/ UpdateWrite(t)
      BY <3>1, <3>2, <3>8 DEF UpdateFind, UpdateWrite, AfterUpdate, Goto, TypeOK, BuySteps
    <3>9. QED
      BY <1>3, <3>3, <3>4, <3>5, <3>6, <3>7, <3>8 DEF ShopperStep
  <2>5. IdsTyped'
    BY <1>1, <2>2, <2>4 DEF IdsTyped
  <2>6. QED
    BY <2>1, <2>3, <2>5
<1>4. CASE Crash
  <2>1. Hole \in CourseRecord
    BY CatalogAssumption DEF Hole, CourseRecord
  <2>2. TypeOK'
    BY <1>4, <2>1 DEF Crash, TypeOK, Steps, Codes, disk
  <2>3. IdsTyped' /\ FilesOpen'
    BY <1>1, <1>4 DEF Crash, IdsTyped, FilesOpen, BuySteps
  <2>4. QED
    BY <2>2, <2>3
<1>5. CASE UNCHANGED vars
  BY <1>5 DEF TypeOK, IdsTyped, FilesOpen, vars
<1>6. QED
  BY <1>2, <1>3, <1>4, <1>5 DEF Next, Waiting

(* Every variable keeps its type, with any number of teachers at once and  *)
(* whichever calls fail: a write past the end of a file, or through the    *)
(* descriptor of a file that another removal replaced, leaves records.     *)
THEOREM CatalogTypes == Spec => []TypeOK
<1>1. Init => OpenInv
  BY OpenStart
<1>2. OpenInv /\ [Next]_vars => OpenInv'
  BY OpenStep
<1>3. OpenInv => TypeOK
  BY DEF OpenInv
<1>4. QED
  BY <1>1, <1>2, <1>3, PTL DEF Spec

-----------------------------------------------------------------------------
(* Where each thread is, and what it holds                                 *)

LEMMA MatchStart == Init => CallsMatch /\ OneInside
BY DEF Init, CallsMatch, OneInside, AddSteps, RemoveSteps, PurgeSteps, BuySteps,
       DropSteps, Thread

(* The calls go through their steps in the order of the code, and the      *)
(* mutex is taken and given back by the students' calls.                   *)
LEMMA MatchStep ==
    OpenInv /\ CallsMatch /\ OneInside /\ [Next]_vars => CallsMatch' /\ OneInside'
<1> SUFFICES ASSUME OpenInv, CallsMatch, OneInside, [Next]_vars
             PROVE  CallsMatch' /\ OneInside'
  OBVIOUS
<1> USE DEF OpenInv
<1> DEFINE Inside == {"readCourse", "enroll", "takeSeat", "updateFind", "updateWrite"}
<1>1. Teacher \cap Shopper = {} /\ Thread = Teacher \cup Shopper /\ NoThread \notin Thread
  BY CatalogAssumption DEF Thread
<1>2. ASSUME NEW t \in Teacher,
             \/ \E code \in Code : BeginAdd(t, code)
             \/ \E id \in 1..MaxId : BeginRemove(t, id)
             \/ TeacherStep(t)
      PROVE  CallsMatch' /\ OneInside'
  <2>1. \A u \in Thread \ {t} : pc'[u] = pc[u] /\ op'[u] = op[u]
    BY <1>1, <1>2, OnlyItsOwn
  <2>2. \A code : Return(t, code) => pc'[t] = "idle"
    BY <1>1 DEF TypeOK, Return, Goto
  <2>3. /\ pc'[t] \in {"idle"} \cup AddSteps \cup RemoveSteps
        /\ pc'[t] \in AddSteps => op'[t] = "add"
        /\ pc'[t] \in RemoveSteps => op'[t] = "remove"
        /\ UNCHANGED mutex
    <3> USE <1>1, <2>2 DEF CallsMatch, AddSteps, RemoveSteps, PurgeSteps, Goto, TypeOK
    <3>1. CASE \E code \in Code : BeginAdd(t, code)
      BY <3>1 DEF BeginAdd, Begin
    <3>2. CASE \E id \in 1..MaxId : BeginRemove(t, id)
      BY <3>2 DEF BeginRemove, Begin
    <3>3. CASE AddScan(t) \/ AddSeek(t) \/ AddWrite(t) \/ RemoveRead(t)
      BY <3>3 DEF AddScan, AddSeek, AddWrite, RemoveRead
    <3>4. CASE UpdateFind(t) \/ UpdateWrite(t)
      BY <3>4 DEF UpdateFind, UpdateWrite, AfterUpdate
    <3>5. CASE OpenOld(t) \/ OpenTmp(t)
      BY <3>5 DEF OpenOld, OpenTmp, Answer
    <3>6. CASE CopyRecord(t) \/ Rename(t)
      BY <3>6 DEF CopyRecord, Rename, Answer
    <3>7. QED
      BY <1>2, <3>1, <3>2, <3>3, <3>4, <3>5, <3>6 DEF TeacherStep
  <2>4. QED
    BY <1>1, <2>1, <2>3 DEF CallsMatch, OneInside
<1>3. ASSUME NEW t \in Shopper,
             \/ \E id \in 1..MaxId : BeginEnroll(t, id) \/ BeginDrop(t, id)
             \/ ShopperStep(t)
      PROVE  CallsMatch' /\ OneInside'
  <2>1. \A u \in Thread \ {t} : pc'[u] = pc[u] /\ op'[u] = op[u]
    BY <1>1, <1>3, OnlyItsOwn
  <2>2. \A code : Return(t, code) => pc'[t] = "idle"
    BY <1>1 DEF TypeOK, Return, Goto
  <2>3. /\ pc'[t] \in {"idle"} \cup BuySteps \cup DropSteps
        /\ pc'[t] \in DropSteps => op'[t] = "drop"
        /\ pc'[t] \in Inside => mutex' = t
        /\ \/ UNCHANGED mutex
           \/ mutex = NoThread
           \/ mutex = t
    <3> USE <1>1, <2>2
        DEF CallsMatch, OneInside, BuySteps, DropSteps, Goto, TypeOK, Acquire, Release
    <3>1. CASE \E id \in 1..MaxId : BeginEnroll(t, id) \/ BeginDrop(t, id)
      BY <3>1 DEF BeginEnroll, BeginDrop, Begin
    <3>2. CASE LockCourse(t) \/ LockCourseToReturn(t)
      BY <3>2 DEF LockCourse, LockCourseToReturn
    <3>3. CASE ReadCourse(t)
      BY <3>3 DEF ReadCourse, Refuse
    <3>4. CASE Enroll(t) \/ TakeSeat(t)
      BY <3>4 DEF Enroll, TakeSeat, Refuse
    <3>5. CASE Drop(t)
      BY <3>5 DEF Drop
    <3>6. CASE UpdateFind(t) \/ UpdateWrite(t)
      BY <3>6 DEF UpdateFind, UpdateWrite, AfterUpdate
    <3>7. QED
      BY <1>3, <3>1, <3>2, <3>3, <3>4, <3>5, <3>6 DEF ShopperStep
  <2>4. QED
    BY <1>1, <2>1, <2>3 DEF CallsMatch, OneInside
<1>4. CASE Crash
  BY <1>1, <1>4 DEF Crash, CallsMatch, OneInside, AddSteps, RemoveSteps, PurgeSteps,
                    BuySteps, DropSteps
<1>5. CASE UNCHANGED vars
  BY <1>5 DEF CallsMatch, OneInside, vars
<1>6. QED
  BY <1>2, <1>3, <1>4, <1>5 DEF Next, Waiting

(* Files d differ from data in record i of file k, which is r ...          *)
RecordChanged(d, k, i, r) ==
    /\ DOMAIN d = DOMAIN data
    /\ \A f \in DOMAIN data : /\ f # k => d[f] = data[f]
                              /\ DOMAIN d[f] = DOMAIN data[f]
                              /\ Len(d[f]) = Len(data[f])
    /\ d[k][i] = r
    /\ \A j \in DOMAIN data[k] : j # i => d[k][j] = data[k][j]

(* ... or in having that record at all.                                    *)
RecordAdded(d, k, i, r) ==
    /\ DOMAIN d = DOMAIN data
    /\ \A f \in DOMAIN data : f # k => d[f] = data[f]
    /\ DOMAIN d[k] = DOMAIN data[k] \cup {i}
    /\ i \notin DOMAIN data[k] /\ Len(d[k]) = i
    /\ d[k][i] = r
    /\ \A j \in DOMAIN data[k] : d[k][j] = data[k][j]

(* A write to a record of a file changes that record only.                 *)
LEMMA WriteInside ==
    ASSUME TypeOK, NEW k \in DOMAIN data, NEW i \in DOMAIN data[k], NEW r \in CourseRecord
    PROVE  \E d : d = [data EXCEPT ![k] = WriteAt(@, i, r)] /\ RecordChanged(d, k, i, r)
<1>1. data[k] \in Seq(CourseRecord)
  BY DEF TypeOK
<1>2. i \in Nat /\ i <= Len(data[k]) /\ DOMAIN data[k] = 1..Len(data[k])
  <2>1. DOMAIN data[k] = 1..Len(data[k]) /\ Len(data[k]) \in Nat
    BY <1>1
  <2>2. QED
    BY <2>1
<1> DEFINE w == WriteAt(data[k], i, r)
<1>3. /\ w \in Seq(CourseRecord) /\ DOMAIN w = DOMAIN data[k]
      /\ \A j \in DOMAIN w : w[j] = IF j = i THEN r
                                    ELSE IF j \in DOMAIN data[k] THEN data[k][j] ELSE Hole
  <2>1. WriteOf(data[k], i, r, w)
    BY <1>1, <1>2, WriteHolds
  <2> HIDE DEF w
  <2>2. QED
    BY <1>2, <2>1 DEF WriteOf
<1> HIDE DEF w
<1> DEFINE d == [data EXCEPT ![k] = w]
<1>4. d = [data EXCEPT ![k] = WriteAt(@, i, r)]
  BY DEF w
<1>5. /\ DOMAIN d = DOMAIN data
      /\ \A f \in DOMAIN data : d[f] = IF f = k THEN w ELSE data[f]
  BY <1>3, FileWritten
<1> HIDE DEF d
<1>6. Len(w) = Len(data[k])
  BY <1>1, <1>3, LenProperties
<1>7. RecordChanged(d, k, i, r)
  BY <1>3, <1>5, <1>6 DEF RecordChanged
<1>8. QED
  BY <1>4, <1>7

(* A write at the end of a file adds a record.                             *)
LEMMA EndIs ==
    ASSUME NEW s \in Seq(CourseRecord), NEW i \in Nat, NEW r \in CourseRecord,
           i > Len(s), i - 1 <= Len(s)
    PROVE  \E w \in Seq(CourseRecord) :
              /\ w = WriteAt(s, i, r)
              /\ DOMAIN w = DOMAIN s \cup {i} /\ i \notin DOMAIN s /\ Len(w) = i
              /\ w[i] = r
              /\ \A j \in DOMAIN s : w[j] = s[j]
<1> DEFINE w == WriteAt(s, i, r)
<1>1. DOMAIN s = 1..(i-1) /\ 1..i = 1..(i-1) \cup {i} /\ i \notin 1..(i-1)
  OBVIOUS
<1>2. WriteOf(s, i, r, w)
  BY WriteHolds
<1> HIDE DEF w
<1>3. w \in Seq(CourseRecord) /\ DOMAIN w = 1..i
  BY <1>2 DEF WriteOf
<1>4. \A j \in DOMAIN w : w[j] = IF j = i THEN r ELSE IF j \in DOMAIN s THEN s[j] ELSE Hole
  BY <1>2 DEF WriteOf
<1>5. Len(w) = i
  BY <1>3, LenProperties
<1>6. /\ DOMAIN w = DOMAIN s \cup {i} /\ i \notin DOMAIN s
      /\ w[i] = r
      /\ \A j \in DOMAIN s : w[j] = s[j]
  BY <1>1, <1>3, <1>4
<1>7. w = WriteAt(s, i, r)
  BY DEF w
<1>8. QED
  BY <1>3, <1>5, <1>6, <1>7

LEMMA WriteAtEnd ==
    ASSUME TypeOK, NEW k \in DOMAIN data, NEW i \in Nat, NEW r \in CourseRecord,
           i > Len(data[k]), i - 1 <= Len(data[k])
    PROVE  \E d : d = [data EXCEPT ![k] = WriteAt(@, i, r)] /\ RecordAdded(d, k, i, r)
<1>1. data[k] \in Seq(CourseRecord)
  BY DEF TypeOK
<1>2. PICK w \in Seq(CourseRecord) :
         /\ w = WriteAt(data[k], i, r)
         /\ DOMAIN w = DOMAIN data[k] \cup {i} /\ i \notin DOMAIN data[k] /\ Len(w) = i
         /\ w[i] = r
         /\ \A j \in DOMAIN data[k] : w[j] = data[k][j]
  BY <1>1, EndIs
<1> DEFINE d == [data EXCEPT ![k] = w]
<1>3. d = [data EXCEPT ![k] = WriteAt(@, i, r)]
  BY <1>2
<1>4. /\ DOMAIN d = DOMAIN data
      /\ \A f \in DOMAIN data : d[f] = IF f = k THEN w ELSE data[f]
  BY FileWritten
<1> HIDE DEF d
<1>5. RecordAdded(d, k, i, r)
  BY <1>2, <1>4 DEF RecordAdded
<1>6. QED
  BY <1>3, <1>5

(* A student's call that did not step still has its record to write to, as *)
(* long as no file it may have open gets shorter.                          *)
LEMMA ShopperKept ==
    ASSUME TypeOK, NEW t \in Shopper, ShopperAt(t),
           pc'[t] = pc[t], fd'[t] = fd[t], off'[t] = off[t],
           tmp' = tmp \/ tmp' \notin DOMAIN data,
           DOMAIN data \subseteq DOMAIN data',
           \A k \in DOMAIN data : k # tmp => DOMAIN data[k] \subseteq DOMAIN data'[k]
    PROVE  ShopperAt(t)'
BY DEF ShopperAt

(* A student's call writes to a record of the file that it has open.       *)
LEMMA WriteOfShopper ==
    ASSUME OpenInv, FilesApart, NEW t \in Shopper, NEW r \in CourseRecord,
           pc[t] \in {"takeSeat", "updateWrite"},
           data' = [data EXCEPT ![fd[t]] = WriteAt(@, off[t], r)]
    PROVE  /\ DOMAIN data' = DOMAIN data
           /\ \A k \in DOMAIN data : /\ DOMAIN data'[k] = DOMAIN data[k]
                                     /\ Len(data'[k]) = Len(data[k])
           /\ tmp # 0 => data'[tmp] = data[tmp]
           /\ fd[t] # cat => data'[cat] = data[cat]
           /\ off[t] \in DOMAIN data[fd[t]]
           /\ data'[fd[t]][off[t]] = r
           /\ \A j \in DOMAIN data[fd[t]] : j # off[t] => data'[fd[t]][j] = data[fd[t]][j]
<1>1. fd[t] \in DOMAIN data /\ fd[t] # tmp /\ off[t] \in DOMAIN data[fd[t]]
  BY DEF FilesApart, ShopperAt
<1>2. (tmp # 0 => tmp \in DOMAIN data) /\ cat \in DOMAIN data /\ TypeOK
  BY DEF OpenInv, TypeOK
<1>3. PICK d : /\ d = [data EXCEPT ![fd[t]] = WriteAt(@, off[t], r)]
               /\ RecordChanged(d, fd[t], off[t], r)
  BY <1>1, <1>2, WriteInside
<1>4. data' = d
  BY <1>3
<1>5. QED
  BY <1>1, <1>2, <1>3, <1>4 DEF RecordChanged

LEMMA ShopperWrites ==
    ASSUME OpenInv, FilesApart, NEW t \in Shopper, ShopperStep(t)
    PROVE  /\ UNCHANGED <<cat, tmp>> /\ DOMAIN data' = DOMAIN data
           /\ \A k \in DOMAIN data : /\ DOMAIN data'[k] = DOMAIN data[k]
                                     /\ Len(data'[k]) = Len(data[k])
           /\ tmp # 0 => data'[tmp] = data[tmp]
<1>1. CASE UNCHANGED <<data, cat, tmp>>
  BY <1>1
<1>2. rec[t] \in CourseRecord
  BY DEF TypeOK, OpenInv, Thread
<1>3. CASE LockCourse(t) \/ ReadCourse(t) \/ Enroll(t) \/ Drop(t)
           \/ LockCourseToReturn(t) \/ UpdateFind(t)
  BY <1>1, <1>3 DEF LockCourse, ReadCourse, Enroll, Drop, LockCourseToReturn,
                    UpdateFind, disk
<1>4. CASE TakeSeat(t)
  <2>1. CASE data' = [data EXCEPT ![fd[t]] = WriteAt(@, off[t], OneFewer(rec[t]))]
    BY <1>2, <1>4, <2>1, CopyIs, WriteOfShopper DEF TakeSeat
  <2>2. QED
    BY <1>1, <1>4, <2>1 DEF TakeSeat
<1>5. CASE UpdateWrite(t)
  <2>1. CASE data' = [data EXCEPT ![fd[t]] = WriteAt(@, off[t], rec[t])]
    BY <1>2, <1>5, <2>1, WriteOfShopper DEF UpdateWrite
  <2>2. QED
    BY <1>1, <1>5, <2>1 DEF UpdateWrite
<1>6. QED
  BY <1>3, <1>4, <1>5 DEF ShopperStep

(* A student's call opens courses.dat and finds its record there.          *)
LEMMA ShopperOpens ==
    ASSUME OpenInv, CallsMatch, FilesApart, NEW t \in Shopper, ShopperStep(t)
    PROVE  ShopperAt(t)'
<1> USE DEF OpenInv
<1>2. \A code : Return(t, code) => pc'[t] = "idle"
  BY DEF TypeOK, Return, Goto, Thread
<1>3. /\ cat \in DOMAIN data /\ cat # tmp /\ data[cat] \in Seq(CourseRecord)
      /\ t \in Thread
  BY DEF TypeOK, FilesApart, Thread
<1>4. UNCHANGED <<cat, tmp>> /\ DOMAIN data' = DOMAIN data
      /\ \A k \in DOMAIN data : DOMAIN data'[k] = DOMAIN data[k]
  BY ShopperWrites
<1>5. ASSUME Found(data[cat], rec[t].id),
             fd' = [fd EXCEPT ![t] = cat],
             off' = [off EXCEPT ![t] = First(data[cat], rec[t].id)]
      PROVE  ShopperAt(t)'
  <2>1. First(data[cat], rec[t].id) \in DOMAIN data[cat]
    BY <1>3, <1>5, FirstIs
  <2>2. fd'[t] = cat /\ off'[t] \in DOMAIN data[cat]
    BY <1>3, <1>5, <2>1 DEF TypeOK
  <2>3. QED
    BY <1>3, <1>4, <2>2 DEF ShopperAt
<1>6. CASE LockCourse(t) \/ LockCourseToReturn(t)
  BY <1>3, <1>6 DEF LockCourse, LockCourseToReturn, Goto, TypeOK, ShopperAt
<1>7. CASE ReadCourse(t)
  BY <1>2, <1>5, <1>7 DEF ReadCourse, ShopperAt
<1>8. CASE Enroll(t)
  BY <1>2, <1>3, <1>4, <1>8 DEF Enroll, Goto, TypeOK, ShopperAt, FilesApart, locals
<1>9. CASE TakeSeat(t) \/ Drop(t)
  BY <1>2, <1>3, <1>9 DEF TakeSeat, Drop, Goto, TypeOK, ShopperAt
<1>10. CASE UpdateFind(t)
  <2>1. \A code : AfterUpdate(t, code) => pc'[t] \in {"idle", "openOld"}
    BY <1>2, <1>3 DEF AfterUpdate, Goto, TypeOK
  <2>2. QED
    BY <1>5, <1>10, <2>1 DEF UpdateFind, ShopperAt
<1>11. CASE UpdateWrite(t)
  BY <1>2, <1>3, <1>11 DEF UpdateWrite, AfterUpdate, Goto, TypeOK, ShopperAt
<1>12. QED
  BY <1>6, <1>7, <1>8, <1>9, <1>10, <1>11 DEF ShopperStep

(* The teacher writes to courses.dat and to the copy, which only it has    *)
(* open, and knows the length of both.                                     *)
LEMMA TeacherApart ==
    ASSUME OneTeacher, Structure, NEW t \in Teacher,
           \/ \E code \in Code : BeginAdd(t, code)
           \/ \E id \in 1..MaxId : BeginRemove(t, id)
           \/ TeacherStep(t)
    PROVE  FilesApart'
<1> USE DEF Structure, OpenInv
<1>1. /\ \A f \in Teacher : f = t
      /\ FilesCanFail = FALSE /\ t \in Thread
      /\ \A u \in Shopper : u \in Thread /\ u # t
  BY CatalogAssumption DEF OneTeacher, Thread
<1>2. \A u \in Shopper : /\ ShopperAt(u)
                         /\ pc'[u] = pc[u] /\ fd'[u] = fd[u] /\ off'[u] = off[u]
  BY <1>1, OnlyItsOwn DEF FilesApart
<1>3. /\ cat \in DOMAIN data /\ data[cat] \in Seq(CourseRecord)
      /\ tmp \in {0} \cup DOMAIN data /\ 0 \notin DOMAIN data
      /\ data \in Seq(Seq(CourseRecord))
      /\ rec[t] \in CourseRecord /\ off[t] \in Nat /\ pos[t] \in Nat
      /\ tmp # cat /\ TeacherAt(t) /\ TypeOK
  <2>1. tmp # cat /\ TeacherAt(t) /\ TypeOK
    BY DEF FilesApart
  <2>2. QED
    BY <1>1, <2>1, TypesAt
<1>4. ASSUME \/ tmp' = tmp \/ tmp' \notin DOMAIN data,
             DOMAIN data \subseteq DOMAIN data',
             \A k \in DOMAIN data : k # tmp => DOMAIN data[k] \subseteq DOMAIN data'[k],
             tmp' # cat', TeacherAt(t)'
      PROVE  FilesApart'
  <2>1. \A u \in Shopper : ShopperAt(u)'
    BY <1>2, <1>4, ShopperKept
  <2>2. \A f \in Teacher : TeacherAt(f)'
    BY <1>1, <1>4
  <2>3. QED
    BY <1>4, <2>1, <2>2 DEF FilesApart
<1>5. ASSUME UNCHANGED <<data, cat, tmp>>, TeacherAt(t)'
      PROVE  FilesApart'
  BY <1>3, <1>4, <1>5
<1>6. \A code : Return(t, code) => pc'[t] = "idle"
  BY <1>1 DEF TypeOK, Return, Goto
<1>7. pc'[t] \in {"idle", "addScan", "removeRead", "updateFind", "openOld"} => TeacherAt(t)'
  BY DEF TeacherAt
<1>8. pc[t] = "updateWrite" \/ pc[t] = "updateFind" => op[t] = "remove"
  BY DEF CallsMatch, RemoveSteps
<1>9. CASE (\E code \in Code : BeginAdd(t, code)) \/ (\E id \in 1..MaxId : BeginRemove(t, id))
  BY <1>1, <1>5, <1>6, <1>7, <1>9 DEF BeginAdd, BeginRemove, Goto, TypeOK, disk
<1>10. CASE AddScan(t) \/ RemoveRead(t)
  <2>1. UNCHANGED <<data, cat, tmp>>
    BY <1>10 DEF AddScan, RemoveRead, disk
  <2>2. \/ pc'[t] \in {"idle", "updateFind"}
        \/ pc'[t] = "addSeek" /\ fd'[t] = cat
    BY <1>1, <1>6, <1>10 DEF AddScan, RemoveRead, Goto, TypeOK
  <2>3. QED
    BY <1>5, <1>7, <2>1, <2>2 DEF TeacherAt
<1>11. CASE AddSeek(t)
  <2>1. /\ UNCHANGED <<data, cat, tmp>> /\ pc'[t] = "addWrite"
        /\ fd'[t] = cat /\ off'[t] = Len(data[cat]) + 1
    BY <1>1, <1>3, <1>11 DEF AddSeek, Goto, TypeOK, disk, TeacherAt
  <2>2. QED
    BY <1>5, <2>1 DEF TeacherAt
<1>12. CASE AddWrite(t)
  <2>1. /\ data' = [data EXCEPT ![cat] = WriteAt(@, off[t], rec[t])]
        /\ UNCHANGED <<cat, tmp>> /\ pc'[t] = "idle"
    BY <1>1, <1>3, <1>6, <1>12 DEF AddWrite, TeacherAt
  <2>2. off[t] > Len(data[cat]) /\ off[t] - 1 <= Len(data[cat])
    <3>1. off[t] = Len(data[cat]) + 1 /\ Len(data[cat]) \in Nat
      BY <1>3, <1>12 DEF AddWrite, TeacherAt
    <3>2. QED
      BY <3>1
  <2>3. /\ DOMAIN data' = DOMAIN data
        /\ \A k \in DOMAIN data : DOMAIN data[k] \subseteq DOMAIN data'[k]
    <3>1. PICK d : /\ d = [data EXCEPT ![cat] = WriteAt(@, off[t], rec[t])]
                   /\ RecordAdded(d, cat, off[t], rec[t])
      BY <1>3, <2>2, WriteAtEnd
    <3>2. data' = d
      BY <2>1, <3>1
    <3>3. QED
      BY <1>3, <3>1, <3>2 DEF RecordAdded
  <2>4. QED
    BY <1>3, <1>4, <1>7, <2>1, <2>3
<1>13. CASE UpdateFind(t)
  <2>1. UNCHANGED <<data, cat, tmp>>
    BY <1>13 DEF UpdateFind, disk
  <2>2. CASE \E code : AfterUpdate(t, code)
    BY <1>1, <1>5, <1>6, <1>7, <2>1, <2>2 DEF AfterUpdate, Goto, TypeOK
  <2>3. CASE /\ Found(data[cat], rec[t].id)
             /\ fd' = [fd EXCEPT ![t] = cat]
             /\ off' = [off EXCEPT ![t] = First(data[cat], rec[t].id)]
             /\ Goto(t, "updateWrite")
    <3>1. First(data[cat], rec[t].id) \in DOMAIN data[cat]
      BY <1>3, <2>3, FirstIs
    <3>2. pc'[t] = "updateWrite" /\ fd'[t] = cat /\ off'[t] \in DOMAIN data[cat]
      BY <1>1, <2>3, <3>1 DEF Goto, TypeOK
    <3>3. QED
      BY <1>5, <2>1, <3>2 DEF TeacherAt
  <2>4. QED
    BY <1>13, <2>2, <2>3 DEF UpdateFind
<1>14. CASE UpdateWrite(t)
  <2>1. /\ data' = [data EXCEPT ![cat] = WriteAt(@, off[t], rec[t])]
        /\ off[t] \in DOMAIN data[cat]
        /\ UNCHANGED <<cat, tmp>> /\ pc'[t] = "openOld"
    BY <1>1, <1>3, <1>8, <1>14 DEF UpdateWrite, AfterUpdate, TeacherAt, Goto, TypeOK
  <2>2. /\ DOMAIN data' = DOMAIN data
        /\ \A k \in DOMAIN data : DOMAIN data[k] \subseteq DOMAIN data'[k]
    <3>1. PICK d : /\ d = [data EXCEPT ![cat] = WriteAt(@, off[t], rec[t])]
                   /\ RecordChanged(d, cat, off[t], rec[t])
      BY <1>3, <2>1, WriteInside
    <3>2. data' = d
      BY <2>1, <3>1
    <3>3. QED
      BY <3>1, <3>2 DEF RecordChanged
  <2>3. QED
    BY <1>3, <1>4, <1>7, <2>1, <2>2
<1>15. CASE OpenOld(t)
  <2>1. /\ UNCHANGED <<data, cat, tmp>> /\ pc'[t] = "openTmp"
        /\ old'[t] = cat /\ pos'[t] = 1
    BY <1>1, <1>15 DEF OpenOld, Goto, TypeOK, disk
  <2>2. QED
    BY <1>5, <2>1 DEF TeacherAt
<1>16. CASE OpenTmp(t)
  <2>1. /\ \/ tmp = 0 /\ data' = Append(data, << >>) /\ tmp' = Len(data) + 1
           \/ tmp # 0 /\ data' = [data EXCEPT ![tmp] = << >>] /\ UNCHANGED tmp
        /\ UNCHANGED cat /\ pc'[t] = "copy" /\ fd'[t] = tmp' /\ off'[t] = 1
        /\ old'[t] = cat /\ pos'[t] = 1
    BY <1>1, <1>3, <1>16 DEF OpenTmp, Goto, TypeOK, TeacherAt
  <2>2. << >> \in Seq(CourseRecord)
    OBVIOUS
  <2>3. /\ tmp' = tmp \/ tmp' \notin DOMAIN data
        /\ DOMAIN data \subseteq DOMAIN data'
        /\ \A k \in DOMAIN data : k # tmp => data'[k] = data[k]
        /\ tmp' # cat' /\ tmp' # 0 /\ data'[tmp'] = << >>
    <3>1. CASE tmp = 0 /\ data' = Append(data, << >>) /\ tmp' = Len(data) + 1
      BY <1>3, <2>1, <2>2, <3>1, AppendProperties
    <3>2. CASE tmp # 0 /\ data' = [data EXCEPT ![tmp] = << >>] /\ UNCHANGED tmp
      BY <1>3, <2>1, <2>2, <3>2, FileWritten
    <3>3. QED
      BY <2>1, <3>1, <3>2
  <2>4. data'[cat'] = data[cat] /\ Len(data[cat]) \in Nat /\ Len(data'[tmp']) = 0
    BY <1>3, <2>1, <2>3
  <2>5. TeacherAt(t)'
    BY <2>1, <2>3, <2>4 DEF TeacherAt
  <2>6. QED
    BY <1>4, <2>3, <2>5
<1>17. CASE CopyRecord(t)
  <2>1. /\ old[t] = cat /\ fd[t] = tmp /\ tmp # 0 /\ tmp \in DOMAIN data
        /\ data[tmp] \in Seq(CourseRecord)
        /\ off[t] = Len(data[tmp]) + 1 /\ pos[t] \in 1..Len(data[cat]) + 1
        /\ old'[t] = cat /\ fd'[t] = tmp
        /\ UNCHANGED <<cat, tmp>>
    BY <1>3, <1>17 DEF CopyRecord, TeacherAt
  <2>2. Len(data[cat]) \in Nat /\ DOMAIN data[cat] = 1..Len(data[cat])
    BY <1>3
  <2>3. CASE pos[t] \in DOMAIN data[cat]
    <3>1. /\ pos'[t] = pos[t] + 1 /\ pc'[t] = "copy"
          /\ \/ /\ data' = [data EXCEPT ![tmp] = WriteAt(@, off[t], data[cat][pos[t]])]
                /\ off'[t] = off[t] + 1
             \/ UNCHANGED <<data, off>>
      BY <1>1, <1>17, <2>1, <2>3 DEF CopyRecord, TypeOK
    <3>2. pos'[t] \in 1..Len(data[cat]) + 1
      BY <2>2, <2>3, <3>1
    <3>3. CASE UNCHANGED <<data, off>>
      BY <1>3, <1>5, <2>1, <3>1, <3>2, <3>3 DEF TeacherAt
    <3>4. CASE /\ data' = [data EXCEPT ![tmp] = WriteAt(@, off[t], data[cat][pos[t]])]
               /\ off'[t] = off[t] + 1
      <4>1. off[t] > Len(data[tmp]) /\ off[t] - 1 <= Len(data[tmp])
        <5>1. off[t] = Len(data[tmp]) + 1 /\ Len(data[tmp]) \in Nat
          BY <2>1
        <5>2. QED
          BY <5>1
      <4>2. data[cat][pos[t]] \in CourseRecord
        BY <1>3, <2>3
      <4>3. /\ DOMAIN data' = DOMAIN data
            /\ \A k \in DOMAIN data : k # tmp => data'[k] = data[k]
            /\ Len(data'[tmp]) = off[t]
        <5>1. PICK d : /\ d = [data EXCEPT ![tmp] = WriteAt(@, off[t], data[cat][pos[t]])]
                       /\ RecordAdded(d, tmp, off[t], data[cat][pos[t]])
          BY <1>3, <2>1, <4>1, <4>2, WriteAtEnd
        <5>2. data' = d
          BY <3>4, <5>1
        <5>3. QED
          BY <5>1, <5>2 DEF RecordAdded
      <4>4. TeacherAt(t)'
        BY <1>3, <2>1, <3>1, <3>2, <3>4, <4>3 DEF TeacherAt
      <4>5. QED
        BY <1>3, <1>4, <2>1, <4>3, <4>4
    <3>5. QED
      BY <3>1, <3>3, <3>4
  <2>4. CASE pos[t] \notin DOMAIN data[cat]
    <3>1. UNCHANGED <<data, off, pos>> /\ pc'[t] = "rename"
      BY <1>1, <1>17, <2>1, <2>4 DEF CopyRecord, Goto, TypeOK
    <3>2. pos[t] = Len(data[cat]) + 1
      BY <2>1, <2>2, <2>4
    <3>3. QED
      BY <1>3, <1>5, <2>1, <3>1, <3>2 DEF TeacherAt
  <2>5. QED
    BY <2>3, <2>4
<1>18. CASE Rename(t)
  <2>1. /\ UNCHANGED data /\ tmp' = 0 /\ tmp # 0 /\ cat' = tmp /\ pc'[t] = "idle"
    BY <1>1, <1>3, <1>6, <1>18 DEF Rename, Answer, TeacherAt
  <2>2. QED
    BY <1>3, <1>4, <1>7, <2>1
<1>19. QED
  BY <1>9, <1>10, <1>11, <1>12, <1>13, <1>14, <1>15, <1>16, <1>17, <1>18 DEF TeacherStep

LEMMA ApartStart == Init => FilesApart
BY DEF Init, FilesApart, TeacherAt, ShopperAt, Thread

LEMMA StructureStart == Init => Structure
BY OpenStart, MatchStart, ApartStart DEF Structure

(* Which file is open where, with one teacher.                             *)
LEMMA StructureStep ==
    ASSUME OneTeacher, Structure, [Next]_vars
    PROVE  Structure'
<1>1. OpenInv' /\ CallsMatch' /\ OneInside'
  BY OpenStep, MatchStep DEF Structure
<1>2. FilesApart'
  <2>1. ASSUME NEW t \in Teacher,
               \/ \E code \in Code : BeginAdd(t, code)
               \/ \E id \in 1..MaxId : BeginRemove(t, id)
               \/ TeacherStep(t)
        PROVE  FilesApart'
    BY <2>1, TeacherApart
  <2>2. ASSUME NEW t \in Shopper,
               \/ \E id \in 1..MaxId : BeginEnroll(t, id) \/ BeginDrop(t, id)
               \/ ShopperStep(t)
        PROVE  FilesApart'
    <3> USE DEF Structure, OpenInv
    <3>1. /\ UNCHANGED <<cat, tmp>> /\ DOMAIN data' = DOMAIN data
          /\ \A k \in DOMAIN data : /\ DOMAIN data'[k] = DOMAIN data[k]
                                    /\ Len(data'[k]) = Len(data[k])
          /\ ShopperAt(t)'
      <4>1. CASE ShopperStep(t)
        BY <4>1, ShopperWrites, ShopperOpens
      <4>2. CASE \E id \in 1..MaxId : BeginEnroll(t, id) \/ BeginDrop(t, id)
        <5>1. \A code : Return(t, code) => pc'[t] = "idle"
          BY DEF TypeOK, Return, Goto, Thread
        <5>2. pc'[t] \in {"idle", "waitCourse", "drop"} /\ UNCHANGED <<data, cat, tmp>>
          BY <4>2, <5>1 DEF BeginEnroll, BeginDrop, Goto, TypeOK, Thread, disk
        <5>3. QED
          BY <5>2 DEF ShopperAt
      <4>3. QED
        BY <2>2, <4>1, <4>2
    <3>2. Teacher \cap Shopper = {} /\ Thread = Teacher \cup Shopper
      BY CatalogAssumption DEF Thread
    <3>3. \A u \in Thread \ {t} :
             /\ pc'[u] = pc[u] /\ fd'[u] = fd[u] /\ off'[u] = off[u]
             /\ old'[u] = old[u] /\ pos'[u] = pos[u]
      BY <2>2, <3>2, OnlyItsOwn
    <3>4. \A u \in Shopper : ShopperAt(u)'
      BY <3>1, <3>2, <3>3, ShopperKept DEF FilesApart
    <3>5. ASSUME NEW f \in Teacher
          PROVE  TeacherAt(f)'
      <4>1. f \in Thread \ {t} /\ TeacherAt(f)
        BY <3>2 DEF FilesApart
      <4>2. cat \in DOMAIN data /\ tmp \in {0} \cup DOMAIN data
        BY DEF TypeOK
      <4>3. QED
        BY <3>1, <3>3, <4>1, <4>2 DEF TeacherAt
    <3>6. QED
      BY <3>1, <3>4, <3>5 DEF FilesApart
  <2>3. CASE Crash
    BY <2>3 DEF Crash, Structure, FilesApart, TeacherAt, ShopperAt, Thread, disk
  <2>4. CASE UNCHANGED vars
    BY <2>4 DEF Structure, FilesApart, TeacherAt, ShopperAt, vars
  <2>5. QED
    BY <2>1, <2>2, <2>3, <2>4 DEF Next, Waiting
<1>3. QED
  BY <1>1, <1>2 DEF Structure

-----------------------------------------------------------------------------
(* What is in the files                                                    *)

LEMMA ContentStart == OneTeacher /\ Init => Content
<1> SUFFICES ASSUME OneTeacher, Init PROVE Content
  OBVIOUS
<1>1. data[cat] = FirstCourses /\ \A t \in Thread : pc[t] = "idle"
  BY DEF Init
<1>2. EnrollCopies /\ AddIsNew /\ RemovesItsOwn /\ CopyFaithful
  BY <1>1 DEF EnrollCopies, EnrollCopy, AddIsNew, RemovesItsOwn, CopyFaithful, Thread,
              AddSteps, RemoveSteps, PurgeSteps
<1>3. Distinct /\ NoneLeft
  BY <1>1 DEF OneTeacher, Distinct, NoneLeft, Differ, Active
<1>4. OfferedOnFile
  <2> SUFFICES ASSUME NEW id \in 1..MaxId, promise[id] = "offered"
               PROVE  id \in Listed
    BY DEF OfferedOnFile
  <2>1. \E i \in Active(FirstCourses) : FirstCourses[i].id = id
    BY DEF Init
  <2>2. QED
    BY <1>1, <2>1 DEF Listed
<1>5. QED
  BY <1>2, <1>3, <1>4 DEF Content

(* A step that leaves the ids, codes and statuses of both files, and what  *)
(* the teacher and the enrolling students know of them, keeps it all true. *)
LEMMA ContentKept ==
    ASSUME Structure, Content,
           UNCHANGED <<cat, tmp, promise, crashes>>,
           DOMAIN data'[cat] = DOMAIN data[cat],
           \A i \in DOMAIN data[cat] : /\ SameCourse(data'[cat][i], data[cat][i])
                                       /\ data'[cat][i].status = data[cat][i].status,
           tmp # 0 => data'[tmp] = data[tmp],
           \A f \in Teacher : /\ pc'[f] = pc[f] /\ rec'[f] = rec[f]
                              /\ off'[f] = off[f] /\ pos'[f] = pos[f],
           \A t \in Shopper :
              \/ EnrollCopy(t)'
              \/ pc'[t] \in {"enroll", "takeSeat"} /\ fd'[t] = cat =>
                    /\ pc[t] \in {"enroll", "takeSeat"} /\ fd[t] = cat
                    /\ rec'[t] = rec[t] /\ off'[t] = off[t]
    PROVE  Content'
<1> USE DEF Content
<1>1. /\ Active(data[cat])' = Active(data[cat])
      /\ \A i \in Active(data[cat]) : i \in DOMAIN data[cat]
  BY DEF Active
<1>2. \A id : Purging(id)' <=> Purging(id)
  BY DEF Purging
<1>3. \A i \in DOMAIN data[cat] : \A r : Differ(data'[cat][i], r) <=> Differ(data[cat][i], r)
  BY DEF SameCourse, Differ
<1>4. \A i \in DOMAIN data[cat] :
         \A r : SameCourse(data'[cat][i], r) <=> SameCourse(data[cat][i], r)
  BY DEF SameCourse
<1>5. EnrollCopies'
  <2> SUFFICES ASSUME NEW t \in Shopper, pc'[t] \in {"enroll", "takeSeat"}, fd'[t] = cat,
                      ~EnrollCopy(t)'
               PROVE  /\ rec'[t].status = "ACTIVE"
                      /\ SameCourse(data'[cat][off'[t]], rec'[t])
                      /\ \A i \in Active(data[cat]) \ {off'[t]} :
                            Differ(data'[cat][i], rec'[t])
                      /\ data'[cat][off'[t]].status = "ACTIVE" \/ Purging(rec'[t].id)
    BY <1>1, <1>2 DEF EnrollCopies, EnrollCopy
  <2>1. off[t] \in DOMAIN data[cat]
    BY DEF Structure, FilesApart, ShopperAt
  <2>2. /\ rec[t].status = "ACTIVE"
        /\ SameCourse(data[cat][off[t]], rec[t])
        /\ \A i \in Active(data[cat]) \ {off[t]} : Differ(data[cat][i], rec[t])
        /\ data[cat][off[t]].status = "ACTIVE" \/ Purging(rec[t].id)
        /\ rec'[t] = rec[t] /\ off'[t] = off[t]
    BY DEF EnrollCopies, EnrollCopy
  <2>3. SameCourse(data'[cat][off[t]], rec[t])
    BY <1>4, <2>1, <2>2
  <2>4. \A i \in Active(data[cat]) \ {off[t]} : Differ(data'[cat][i], rec[t])
    BY <1>1, <1>3, <2>2
  <2>5. QED
    BY <2>1, <2>2, <2>3, <2>4
<1>6. AddIsNew'
  BY <1>1, <1>3 DEF AddIsNew
<1>7. RemovesItsOwn'
  <2>1. \A id : Named(data[cat], id)' = Named(data[cat], id)
    BY DEF Named, SameCourse
  <2>2. \A id : \A i \in Named(data[cat], id) : i \in DOMAIN data[cat]
    BY DEF Named
  <2>3. \A f \in Teacher : pc[f] = "updateWrite" => off[f] \in DOMAIN data[cat]
    BY DEF Structure, FilesApart, TeacherAt
  <2> SUFFICES ASSUME NEW f \in Teacher
               PROVE  /\ pc[f] \in RemoveSteps => \A id \in 1..MaxId :
                                         rec[f].id = id => promise[id] # "offered"
                      /\ pc[f] \in {"updateFind", "updateWrite"} =>
                            rec[f].status = "INACTIVE"
                      /\ pc[f] = "updateFind" =>
                            \A i \in Named(data[cat], rec[f].id) :
                               (\A j \in Named(data[cat], rec[f].id) : i <= j)
                                  => SameCourse(data'[cat][i], rec[f])
                      /\ pc[f] = "updateWrite" => SameCourse(data'[cat][off[f]], rec[f])
    BY <2>1 DEF RemovesItsOwn
  <2>4. pc[f] = "updateWrite" => SameCourse(data'[cat][off[f]], rec[f])
    BY <1>4, <2>3 DEF RemovesItsOwn
  <2>5. pc[f] = "updateFind" =>
           \A i \in Named(data[cat], rec[f].id) :
              (\A j \in Named(data[cat], rec[f].id) : i <= j)
                 => SameCourse(data'[cat][i], rec[f])
    BY <1>4, <2>2 DEF RemovesItsOwn
  <2>6. QED
    BY <2>4, <2>5 DEF RemovesItsOwn
<1>8. Distinct'
  <2> SUFFICES ASSUME NEW i \in Active(data[cat]), NEW j \in Active(data[cat]), i # j
               PROVE  Differ(data'[cat][i], data'[cat][j])
    BY <1>1 DEF Distinct
  <2>1. Differ(data[cat][i], data[cat][j])
    BY DEF Distinct
  <2>2. QED
    BY <1>1, <2>1 DEF Differ, SameCourse
<1>9. OfferedOnFile'
  <2>1. Listed' = Listed
    BY <1>1 DEF Listed, SameCourse
  <2>2. QED
    BY <2>1 DEF OfferedOnFile
<1>10. NoneLeft'
  BY <1>2 DEF NoneLeft, SameCourse
<1>11. CopyFaithful'
  <2> SUFFICES ASSUME NEW f \in Teacher, pc[f] \in {"copy", "rename"}
               PROVE  /\ \A k \in DOMAIN data[tmp] :
                            /\ data[tmp][k].status = "ACTIVE"
                            /\ \E i \in Active(data[cat]) :
                                  i < pos[f] /\ SameCourse(data'[cat][i], data[tmp][k])
                      /\ \A k, l \in DOMAIN data[tmp] :
                            k # l => Differ(data[tmp][k], data[tmp][l])
                      /\ \A i \in Active(data[cat]) :
                            i < pos[f] => \/ data'[cat][i].id = rec[f].id
                                          \/ \E k \in DOMAIN data[tmp] :
                                                data[tmp][k].id = data'[cat][i].id
    <3>1. \A f \in Teacher : pc[f] \in {"copy", "rename"} => tmp # 0
      BY DEF Structure, FilesApart, TeacherAt
    <3>2. QED
      BY <1>1, <3>1 DEF CopyFaithful
  <2>1. \A i \in Active(data[cat]) : data'[cat][i].id = data[cat][i].id
    BY <1>1 DEF SameCourse
  <2>2. /\ \A k \in DOMAIN data[tmp] :
              /\ data[tmp][k].status = "ACTIVE"
              /\ \E i \in Active(data[cat]) :
                    i < pos[f] /\ SameCourse(data[cat][i], data[tmp][k])
        /\ \A k, l \in DOMAIN data[tmp] : k # l => Differ(data[tmp][k], data[tmp][l])
        /\ \A i \in Active(data[cat]) :
              i < pos[f] => \/ data[cat][i].id = rec[f].id
                            \/ \E k \in DOMAIN data[tmp] :
                                  data[tmp][k].id = data[cat][i].id
    BY DEF CopyFaithful
  <2>3. \A k \in DOMAIN data[tmp] :
           \E i \in Active(data[cat]) :
              i < pos[f] /\ SameCourse(data'[cat][i], data[tmp][k])
    BY <1>1, <1>4, <2>2
  <2>4. QED
    BY <2>1, <2>2, <2>3
<1>12. QED
  BY <1>5, <1>6, <1>7, <1>8, <1>9, <1>10, <1>11

(* A student's seat taken from a record that the teacher has marked        *)
(* INACTIVE puts the course back on the list until the purge is over.      *)
LEMMA SeatRevives ==
    ASSUME OneTeacher, Structure, Content, NEW t \in Shopper, NEW r \in CourseRecord,
           pc[t] = "takeSeat", fd[t] = cat, data[cat][off[t]].status # "ACTIVE",
           DOMAIN data'[cat] = DOMAIN data[cat],
           tmp # 0 => data'[tmp] = data[tmp],
           data'[cat][off[t]] = r,
           \A j \in DOMAIN data[cat] : j # off[t] => data'[cat][j] = data[cat][j],
           SameCourse(r, rec[t]), r.status = rec[t].status,
           pc' = [pc EXCEPT ![t] = "idle"],
           UNCHANGED <<cat, tmp, promise, crashes>>,
           \A u \in Thread \ {t} : /\ rec'[u] = rec[u] /\ fd'[u] = fd[u]
                                   /\ off'[u] = off[u] /\ pos'[u] = pos[u]
    PROVE  Content'
<1> USE DEF Content
<1>1. /\ off[t] \in DOMAIN data[cat] /\ t \in Thread /\ t \notin Teacher
      /\ cat \in DOMAIN data /\ tmp # cat /\ tmp \in {0} \cup DOMAIN data
      /\ Thread = Teacher \cup Shopper /\ pc \in [Thread -> Steps] /\ TypeOK
  <2>1. t \in Thread /\ t \notin Teacher /\ Thread = Teacher \cup Shopper
    BY CatalogAssumption DEF Thread
  <2>2. TypeOK /\ tmp # cat /\ off[t] \in DOMAIN data[cat]
    BY DEF Structure, OpenInv, FilesApart, ShopperAt
  <2>3. QED
    BY <2>1, <2>2 DEF TypeOK
<1>2. /\ rec[t].status = "ACTIVE"
      /\ SameCourse(data[cat][off[t]], rec[t])
      /\ \A i \in Active(data[cat]) \ {off[t]} : Differ(data[cat][i], rec[t])
      /\ Purging(rec[t].id)
  BY DEF EnrollCopies, EnrollCopy
<1>4. Active(data[cat])' = Active(data[cat]) \cup {off[t]} /\ off[t] \notin Active(data[cat])
  BY <1>1, <1>2 DEF Active
<1>5. \A u \in Thread : u # t => pc'[u] = pc[u]
  BY <1>1
<1>6. PICK f \in Teacher : pc[f] \in PurgeSteps /\ rec[f].id = rec[t].id
  BY <1>2 DEF Purging
<1>7. /\ \A g \in Teacher : g = f
      /\ pc'[f] = pc[f] /\ rec'[f] = rec[f] /\ off'[f] = off[f] /\ pos'[f] = pos[f]
  BY <1>1, <1>5 DEF OneTeacher
<1>8. \A id : Purging(id)' <=> Purging(id)
  BY <1>7 DEF Purging
<1>9. EnrollCopies'
  <2> SUFFICES ASSUME NEW u \in Shopper
               PROVE  EnrollCopy(u)'
    BY DEF EnrollCopies
  <2>1. CASE u = t
    BY <1>1, <2>1 DEF EnrollCopy
  <2>2. CASE u # t
    BY <1>5, <2>2 DEF EnrollCopy, Structure, OneInside, Thread
  <2>3. QED
    BY <2>1, <2>2
<1>10. AddIsNew'
  BY <1>6, <1>7 DEF AddIsNew, AddSteps, PurgeSteps
<1>11. RemovesItsOwn'
  BY <1>6, <1>7 DEF RemovesItsOwn, RemoveSteps, PurgeSteps
<1>12. Distinct'
  <2> SUFFICES ASSUME NEW i \in Active(data[cat])', NEW j \in Active(data[cat])', i # j
               PROVE  Differ(data'[cat][i], data'[cat][j])
    BY DEF Distinct
  <2>1. \A k \in Active(data[cat]) : /\ data'[cat][k] = data[cat][k]
                                     /\ Differ(data[cat][k], r)
    BY <1>2, <1>4 DEF Active, Differ, SameCourse
  <2>2. CASE i \in Active(data[cat]) /\ j \in Active(data[cat])
    BY <2>1, <2>2 DEF Distinct
  <2>3. CASE i = off[t] \/ j = off[t]
    BY <1>4, <2>1, <2>3 DEF Differ
  <2>4. QED
    BY <1>4, <2>2, <2>3
<1>13. OfferedOnFile'
  <2>1. Listed \subseteq Listed'
    BY <1>4 DEF Listed, Active
  <2>2. QED
    BY <2>1 DEF OfferedOnFile
<1>14. NoneLeft'
  BY <1>2, <1>8 DEF NoneLeft
<1>15. CopyFaithful'
  <2> SUFFICES ASSUME pc[f] \in {"copy", "rename"}
               PROVE  /\ \A k \in DOMAIN data[tmp] :
                            /\ data[tmp][k].status = "ACTIVE"
                            /\ \E i \in Active(data[cat])' :
                                  i < pos[f] /\ SameCourse(data'[cat][i], data[tmp][k])
                      /\ \A k, l \in DOMAIN data[tmp] :
                            k # l => Differ(data[tmp][k], data[tmp][l])
                      /\ \A i \in Active(data[cat])' :
                            i < pos[f] => \/ data'[cat][i].id = rec[f].id
                                          \/ \E k \in DOMAIN data[tmp] :
                                                data[tmp][k].id = data'[cat][i].id
    <3>1. pc[f] \in {"copy", "rename"} => tmp # 0
      BY DEF Structure, FilesApart, TeacherAt
    <3>2. QED
      BY <1>7, <3>1 DEF CopyFaithful
  <2>1. /\ \A k \in DOMAIN data[tmp] :
              /\ data[tmp][k].status = "ACTIVE"
              /\ \E i \in Active(data[cat]) :
                    i < pos[f] /\ SameCourse(data[cat][i], data[tmp][k])
        /\ \A k, l \in DOMAIN data[tmp] : k # l => Differ(data[tmp][k], data[tmp][l])
        /\ \A i \in Active(data[cat]) :
              i < pos[f] => \/ data[cat][i].id = rec[f].id
                            \/ \E k \in DOMAIN data[tmp] :
                                  data[tmp][k].id = data[cat][i].id
    BY DEF CopyFaithful
  <2>2. \A k \in Active(data[cat]) : data'[cat][k] = data[cat][k]
    BY <1>4 DEF Active
  <2>3. data'[cat][off[t]].id = rec[f].id
    BY <1>6 DEF SameCourse
  <2>4. \A i \in Active(data[cat])' :
           i < pos[f] => \/ data'[cat][i].id = rec[f].id
                         \/ \E k \in DOMAIN data[tmp] :
                               data[tmp][k].id = data'[cat][i].id
    BY <1>4, <2>1, <2>2, <2>3
  <2>5. \A k \in DOMAIN data[tmp] :
           \E i \in Active(data[cat])' :
              i < pos[f] /\ SameCourse(data'[cat][i], data[tmp][k])
    BY <1>4, <2>1, <2>2
  <2>6. QED
    BY <2>1, <2>4, <2>5
<1>16. QED
  BY <1>9, <1>10, <1>11, <1>12, <1>13, <1>14, <1>15

(* What a student's call does to the content: nothing, but for taking a    *)
(* copy that is right and for bringing a marked record back.               *)
LEMMA ShopperContent ==
    ASSUME OneTeacher, Structure, Content, ~overwritten', NEW t \in Shopper,
           \/ \E id \in 1..MaxId : BeginEnroll(t, id) \/ BeginDrop(t, id)
           \/ ShopperStep(t)
    PROVE  Content'
<1> USE DEF Structure, OpenInv
<1>1. /\ t \in Thread /\ TypeOK
      /\ cat \in DOMAIN data /\ data[cat] \in Seq(CourseRecord)
      /\ rec[t] \in CourseRecord
  <2>1. t \in Thread /\ TypeOK
    BY DEF Thread
  <2>2. QED
    BY <2>1, TypesAt
<1>2. \A u \in Thread \ {t} : /\ pc'[u] = pc[u] /\ rec'[u] = rec[u] /\ fd'[u] = fd[u]
                              /\ off'[u] = off[u] /\ pos'[u] = pos[u]
  BY <1>1, OnlyItsOwn
<1>3. Teacher \cap Shopper = {} /\ Thread = Teacher \cup Shopper
  BY CatalogAssumption DEF Thread
<1>4. ASSUME UNCHANGED <<cat, tmp, promise, crashes>>,
             DOMAIN data'[cat] = DOMAIN data[cat],
             \A i \in DOMAIN data[cat] : /\ SameCourse(data'[cat][i], data[cat][i])
                                         /\ data'[cat][i].status = data[cat][i].status,
             tmp # 0 => data'[tmp] = data[tmp],
             \/ EnrollCopy(t)'
             \/ /\ pc[t] \in {"enroll", "takeSeat"}
                /\ fd'[t] = fd[t] /\ rec'[t] = rec[t] /\ off'[t] = off[t]
      PROVE  Content'
  <2>1. \A f \in Teacher : /\ pc'[f] = pc[f] /\ rec'[f] = rec[f]
                           /\ off'[f] = off[f] /\ pos'[f] = pos[f]
    BY <1>2, <1>3
  <2>2. \A u \in Shopper :
           \/ EnrollCopy(u)'
           \/ pc'[u] \in {"enroll", "takeSeat"} /\ fd'[u] = cat =>
                 /\ pc[u] \in {"enroll", "takeSeat"} /\ fd[u] = cat
                 /\ rec'[u] = rec[u] /\ off'[u] = off[u]
    BY <1>2, <1>3, <1>4
  <2>3. QED
    BY <1>4, <2>1, <2>2, ContentKept
<1>5. pc'[t] \notin {"enroll", "takeSeat"} => EnrollCopy(t)'
  BY DEF EnrollCopy
<1>6. ASSUME UNCHANGED <<data, cat, tmp, promise, crashes>>,
             \/ EnrollCopy(t)'
             \/ /\ pc[t] \in {"enroll", "takeSeat"}
                /\ fd'[t] = fd[t] /\ rec'[t] = rec[t] /\ off'[t] = off[t]
      PROVE  Content'
  BY <1>4, <1>6 DEF SameCourse
<1>7. \A code : Return(t, code) => pc'[t] = "idle"
  BY <1>1 DEF TypeOK, Return, Goto
<1>8. CASE \E id \in 1..MaxId : BeginEnroll(t, id) \/ BeginDrop(t, id)
  BY <1>1, <1>5, <1>6, <1>7, <1>8
     DEF BeginEnroll, BeginDrop, Begin, Goto, TypeOK, disk, past
<1>9. CASE LockCourse(t) \/ Drop(t) \/ LockCourseToReturn(t)
  BY <1>1, <1>5, <1>6, <1>7, <1>9
     DEF LockCourse, Drop, LockCourseToReturn, Goto, TypeOK, disk, past
<1>10. CASE UpdateFind(t)
  <2>1. pc'[t] \in {"idle", "openOld", "updateWrite"}
    BY <1>1, <1>7, <1>10 DEF UpdateFind, AfterUpdate, Goto, TypeOK
  <2>2. QED
    BY <1>5, <1>6, <1>10, <2>1 DEF UpdateFind, disk, past
<1>11. CASE ReadCourse(t)
  <2>1. UNCHANGED <<data, cat, tmp, promise, crashes>>
    BY <1>11 DEF ReadCourse, disk, past
  <2>2. CASE \E code : Return(t, code)
    BY <1>5, <1>6, <1>7, <2>1, <2>2
  <2>3. CASE /\ Found(data[cat], rec[t].id)
             /\ data[cat][First(data[cat], rec[t].id)].status = "ACTIVE"
             /\ rec' = [rec EXCEPT ![t] = data[cat][First(data[cat], rec[t].id)]]
             /\ fd' = [fd EXCEPT ![t] = cat]
             /\ off' = [off EXCEPT ![t] = First(data[cat], rec[t].id)]
    <3>1. First(data[cat], rec[t].id) \in DOMAIN data[cat]
      BY <1>1, <2>3, FirstIs
    <3>2. off'[t] \in Active(data[cat]) /\ rec'[t] = data[cat][off'[t]]
      BY <1>1, <2>3, <3>1 DEF TypeOK, Active
    <3>3. /\ rec'[t].status = "ACTIVE"
          /\ \A i \in Active(data[cat]) \ {off'[t]} : Differ(data[cat][i], rec'[t])
      BY <3>2 DEF Active, Content, Distinct
    <3>4. EnrollCopy(t)'
      BY <2>1, <3>2, <3>3 DEF EnrollCopy, SameCourse
    <3>5. QED
      BY <1>6, <2>1, <3>4
  <2>4. QED
    BY <1>11, <2>2, <2>3 DEF ReadCourse
<1>12. CASE Enroll(t)
  <2>1. UNCHANGED <<data, cat, tmp, promise, crashes>> /\ pc[t] = "enroll"
    BY <1>12 DEF Enroll, past
  <2>2. CASE \E code : Return(t, code)
    BY <1>5, <1>6, <1>7, <2>1, <2>2
  <2>3. CASE UNCHANGED locals
    BY <1>6, <2>1, <2>3 DEF locals
  <2>4. QED
    BY <1>12, <2>2, <2>3 DEF Enroll
<1>13. CASE TakeSeat(t)
  <2>1. /\ data' = [data EXCEPT ![fd[t]] = WriteAt(@, off[t], OneFewer(rec[t]))]
        /\ pc[t] = "takeSeat" /\ pc' = [pc EXCEPT ![t] = "idle"] /\ pc'[t] = "idle"
        /\ UNCHANGED <<cat, tmp, promise, crashes>>
    BY <1>1, <1>13 DEF TakeSeat, OneTeacher, Return, Goto, TypeOK, past
  <2>2. /\ OneFewer(rec[t]) \in CourseRecord
        /\ SameCourse(OneFewer(rec[t]), rec[t])
        /\ OneFewer(rec[t]).status = rec[t].status
    BY <1>1, CopyIs DEF OneFewer, CourseRecord, SameCourse
  <2>3. /\ DOMAIN data'[cat] = DOMAIN data[cat]
        /\ tmp # 0 => data'[tmp] = data[tmp]
        /\ fd[t] # cat => data'[cat] = data[cat]
        /\ fd[t] = cat => /\ off[t] \in DOMAIN data[cat]
                          /\ data'[cat][off[t]] = OneFewer(rec[t])
                          /\ \A j \in DOMAIN data[cat] :
                                j # off[t] => data'[cat][j] = data[cat][j]
    <3>1. OneFewer(rec[t]) \in CourseRecord /\ pc[t] \in {"takeSeat", "updateWrite"}
      BY <2>1, <2>2
    <3>2. /\ \A k \in DOMAIN data : DOMAIN data'[k] = DOMAIN data[k]
          /\ tmp # 0 => data'[tmp] = data[tmp]
          /\ fd[t] # cat => data'[cat] = data[cat]
          /\ off[t] \in DOMAIN data[fd[t]]
          /\ data'[fd[t]][off[t]] = OneFewer(rec[t])
          /\ \A j \in DOMAIN data[fd[t]] : j # off[t] => data'[fd[t]][j] = data[fd[t]][j]
      BY <2>1, <3>1, WriteOfShopper
    <3>3. QED
      BY <1>1, <3>2
  <2>4. EnrollCopy(t)'
    BY <1>5, <2>1
  <2>5. CASE fd[t] # cat
    BY <1>4, <2>1, <2>3, <2>4, <2>5 DEF SameCourse
  <2>6. CASE fd[t] = cat /\ data[cat][off[t]].status = "ACTIVE"
    <3>1. rec[t].status = "ACTIVE" /\ SameCourse(data[cat][off[t]], rec[t])
      BY <2>1, <2>6 DEF Content, EnrollCopies, EnrollCopy
    <3>2. \A i \in DOMAIN data[cat] : /\ SameCourse(data'[cat][i], data[cat][i])
                                      /\ data'[cat][i].status = data[cat][i].status
      BY <2>2, <2>3, <2>6, <3>1 DEF SameCourse
    <3>3. QED
      BY <1>4, <2>1, <2>3, <2>4, <3>2
  <2>7. CASE fd[t] = cat /\ data[cat][off[t]].status # "ACTIVE"
    <3>1. \A u \in Thread \ {t} : /\ rec'[u] = rec[u] /\ fd'[u] = fd[u]
                                  /\ off'[u] = off[u] /\ pos'[u] = pos[u]
      BY <1>2
    <3>2. QED
      BY <2>1, <2>2, <2>3, <2>7, <3>1, SeatRevives
  <2>8. QED
    BY <2>5, <2>6, <2>7
<1>14. CASE UpdateWrite(t)
  <2>1. /\ data' = [data EXCEPT ![fd[t]] = WriteAt(@, off[t], rec[t])]
        /\ pc[t] = "updateWrite" /\ pc'[t] \in {"idle", "openOld"}
        /\ UNCHANGED <<cat, tmp, promise, crashes>>
        /\ ~Overwrites(t)
    BY <1>1, <1>7, <1>14 DEF UpdateWrite, OneTeacher, AfterUpdate, Goto, TypeOK
  <2>2. op[t] = "drop"
    BY <2>1 DEF CallsMatch, DropSteps
  <2>3. /\ DOMAIN data'[cat] = DOMAIN data[cat]
        /\ tmp # 0 => data'[tmp] = data[tmp]
        /\ fd[t] # cat => data'[cat] = data[cat]
        /\ fd[t] = cat => /\ off[t] \in DOMAIN data[cat]
                          /\ data'[cat][off[t]] = rec[t]
                          /\ \A j \in DOMAIN data[cat] :
                                j # off[t] => data'[cat][j] = data[cat][j]
    <3>1. rec[t] \in CourseRecord /\ pc[t] \in {"takeSeat", "updateWrite"}
      BY <1>1, <2>1
    <3>2. /\ \A k \in DOMAIN data : DOMAIN data'[k] = DOMAIN data[k]
          /\ tmp # 0 => data'[tmp] = data[tmp]
          /\ fd[t] # cat => data'[cat] = data[cat]
          /\ off[t] \in DOMAIN data[fd[t]]
          /\ data'[fd[t]][off[t]] = rec[t]
          /\ \A j \in DOMAIN data[fd[t]] : j # off[t] => data'[fd[t]][j] = data[fd[t]][j]
      BY <2>1, <3>1, WriteOfShopper
    <3>3. QED
      BY <1>1, <3>2
  <2>4. fd[t] = cat => /\ SameCourse(rec[t], data[cat][off[t]])
                       /\ rec[t].status = data[cat][off[t]].status
    <3>1. ASSUME fd[t] = cat
          PROVE  rec[t] = [data[cat][off[t]] EXCEPT !.avail = rec[t].avail]
      BY <2>1, <2>2, <3>1 DEF Overwrites
    <3>2. fd[t] = cat => data[cat][off[t]] \in CourseRecord
      BY <1>1, <2>3
    <3>3. QED
      BY <3>1, <3>2 DEF SameCourse, CourseRecord
  <2>5. \A i \in DOMAIN data[cat] : /\ SameCourse(data'[cat][i], data[cat][i])
                                    /\ data'[cat][i].status = data[cat][i].status
    BY <2>3, <2>4 DEF SameCourse
  <2>6. QED
    BY <1>4, <1>5, <2>1, <2>3, <2>5
<1>15. QED
  BY <1>8, <1>9, <1>10, <1>11, <1>12, <1>13, <1>14 DEF ShopperStep

(* A step of the teacher that leaves courses.dat as it is.                 *)
LEMMA TeacherKeeps ==
    ASSUME Content,
           UNCHANGED <<cat, crashes>>, data'[cat] = data[cat],
           \A u \in Shopper : /\ pc'[u] = pc[u] /\ rec'[u] = rec[u]
                              /\ fd'[u] = fd[u] /\ off'[u] = off[u],
           \A id : Purging(id) => Purging(id)',
           \A id \in 1..MaxId : promise'[id] = "offered" => promise[id] = "offered",
           AddIsNew', RemovesItsOwn', CopyFaithful'
    PROVE  Content'
<1> USE DEF Content
<1>1. Active(data[cat])' = Active(data[cat])
  BY DEF Active
<1>2. EnrollCopies'
  BY <1>1 DEF EnrollCopies, EnrollCopy
<1>3. Distinct'
  BY <1>1 DEF Distinct
<1>4. OfferedOnFile'
  <2>1. Listed' = Listed
    BY <1>1 DEF Listed
  <2>2. QED
    BY <2>1 DEF OfferedOnFile
<1>5. NoneLeft'
  BY DEF NoneLeft
<1>6. QED
  BY <1>2, <1>3, <1>4, <1>5

(* The only teacher: what is true of it is true of all teachers.           *)
LEMMA OnlyTeacher ==
    ASSUME OneTeacher, TypeOK, NEW t \in Teacher,
           \/ \E code \in Code : BeginAdd(t, code)
           \/ \E id \in 1..MaxId : BeginRemove(t, id)
           \/ TeacherStep(t)
    PROVE  /\ FilesCanFail = FALSE
           /\ \A f \in Teacher : f = t
           /\ \A u \in Shopper : /\ pc'[u] = pc[u] /\ rec'[u] = rec[u]
                                 /\ fd'[u] = fd[u] /\ off'[u] = off[u]
           /\ \A id : Purging(id) <=> pc[t] \in PurgeSteps /\ rec[t].id = id
           /\ \A id : Purging(id)' <=> pc'[t] \in PurgeSteps /\ rec'[t].id = id
           /\ pc'[t] \notin AddSteps => AddIsNew'
           /\ pc'[t] \notin RemoveSteps => RemovesItsOwn'
           /\ pc'[t] \notin {"copy", "rename"} => CopyFaithful'
           /\ \A code : Return(t, code) => pc'[t] = "idle"
<1>1. /\ t \in Thread /\ \A f \in Teacher : f = t
      /\ \A u \in Shopper : u \in Thread \ {t}
  BY CatalogAssumption DEF OneTeacher, Thread
<1>2. \A u \in Shopper : /\ pc'[u] = pc[u] /\ rec'[u] = rec[u]
                         /\ fd'[u] = fd[u] /\ off'[u] = off[u]
  BY <1>1, OnlyItsOwn
<1>3. /\ \A id : Purging(id) <=> pc[t] \in PurgeSteps /\ rec[t].id = id
      /\ \A id : Purging(id)' <=> pc'[t] \in PurgeSteps /\ rec'[t].id = id
  BY <1>1 DEF Purging
<1>4. pc'[t] \notin AddSteps => AddIsNew'
  BY <1>1 DEF AddIsNew, AddSteps
<1>5. pc'[t] \notin RemoveSteps => RemovesItsOwn'
  BY <1>1 DEF RemovesItsOwn, RemoveSteps
<1>6. pc'[t] \notin {"copy", "rename"} => CopyFaithful'
  BY <1>1 DEF CopyFaithful
<1>7. \A code : Return(t, code) => pc'[t] = "idle"
  BY <1>1 DEF TypeOK, Return, Goto
<1>8. QED
  BY <1>1, <1>2, <1>3, <1>4, <1>5, <1>6, <1>7 DEF OneTeacher

(* Adding a course, and looking one up for its removal.                    *)
LEMMA AddContent ==
    ASSUME OneTeacher, Structure, Content, NEW t \in Teacher,
           \/ \E code \in Code : BeginAdd(t, code)
           \/ \E id \in 1..MaxId : BeginRemove(t, id)
           \/ AddScan(t) \/ AddSeek(t) \/ RemoveRead(t) \/ UpdateFind(t) \/ OpenOld(t)
    PROVE  Content'
<1> USE DEF Structure, OpenInv
<1>1. /\ t \in Thread /\ TypeOK /\ TeacherAt(t)
      /\ cat \in DOMAIN data /\ data[cat] \in Seq(CourseRecord)
      /\ rec[t] \in CourseRecord
  <2>1. t \in Thread /\ TypeOK /\ TeacherAt(t)
    BY DEF Thread, FilesApart
  <2>2. QED
    BY <2>1, TypesAt
<1>2. /\ FilesCanFail = FALSE
      /\ \A f \in Teacher : f = t
      /\ \A u \in Shopper : /\ pc'[u] = pc[u] /\ rec'[u] = rec[u]
                            /\ fd'[u] = fd[u] /\ off'[u] = off[u]
      /\ \A id : Purging(id) <=> pc[t] \in PurgeSteps /\ rec[t].id = id
      /\ \A id : Purging(id)' <=> pc'[t] \in PurgeSteps /\ rec'[t].id = id
      /\ pc'[t] \notin AddSteps => AddIsNew'
      /\ pc'[t] \notin RemoveSteps => RemovesItsOwn'
      /\ pc'[t] \notin {"copy", "rename"} => CopyFaithful'
      /\ \A code : Return(t, code) => pc'[t] = "idle"
  BY <1>1, OnlyTeacher DEF TeacherStep
<1>3. ASSUME UNCHANGED <<data, cat, crashes>>,
             pc[t] \in PurgeSteps => pc'[t] \in PurgeSteps /\ rec'[t] = rec[t],
             \A id \in 1..MaxId : promise'[id] = "offered" => promise[id] = "offered",
             AddIsNew', RemovesItsOwn', CopyFaithful'
      PROVE  Content'
  <2>1. \A id : Purging(id) => Purging(id)'
    BY <1>2, <1>3
  <2>2. QED
    BY <1>2, <1>3, <2>1, TeacherKeeps
<1>12. /\ {"idle", "addScan", "addSeek", "addWrite", "removeRead", "updateFind",
           "updateWrite"} \cap PurgeSteps = {}
       /\ {"idle", "addScan", "addSeek", "addWrite"} \cap RemoveSteps = {}
       /\ {"idle", "removeRead", "updateFind", "updateWrite", "openOld", "openTmp"}
             \cap AddSteps = {}
  BY DEF AddSteps, RemoveSteps, PurgeSteps
<1>13. ASSUME UNCHANGED <<data, cat, crashes, promise>>, pc[t] \notin PurgeSteps,
              pc'[t] = "idle"
       PROVE  Content'
  <2>1. AddIsNew' /\ RemovesItsOwn' /\ CopyFaithful'
    BY <1>2, <1>12, <1>13
  <2>2. QED
    BY <1>3, <1>13, <2>1
<1>4. CASE \E code \in Code : BeginAdd(t, code)
  <2>1. /\ pc[t] = "idle" /\ pc'[t] = "addScan" /\ rec'[t].status = "ACTIVE"
        /\ UNCHANGED <<data, cat, crashes, promise>>
    BY <1>1, <1>4 DEF BeginAdd, Begin, Goto, TypeOK, disk, past
  <2>2. AddIsNew'
    BY <1>2, <2>1 DEF AddIsNew
  <2>3. RemovesItsOwn' /\ CopyFaithful' /\ pc[t] \notin PurgeSteps
    BY <1>2, <1>12, <2>1
  <2>4. QED
    BY <1>3, <2>1, <2>2, <2>3
<1>5. CASE \E id \in 1..MaxId : BeginRemove(t, id)
  <2>1. PICK id \in 1..MaxId : BeginRemove(t, id)
    BY <1>5
  <2>2. pc[t] = "idle" /\ UNCHANGED <<data, cat, crashes>>
    BY <2>1 DEF BeginRemove, Begin, disk, past
  <2>3. CASE (\E code : Return(t, code)) /\ UNCHANGED promise
    BY <1>2, <1>12, <1>13, <2>2, <2>3
  <2>4. CASE /\ Found(data[cat], id)
             /\ rec' = [rec EXCEPT ![t] = data[cat][First(data[cat], id)]]
             /\ promise' = [promise EXCEPT ![id] = "none"]
             /\ Goto(t, "removeRead")
    <3>1. rec'[t].id = id
      <4>1. rec'[t] = data[cat][First(data[cat], id)]
        BY <1>1, <2>4 DEF TypeOK
      <4>2. QED
        BY <1>1, <2>4, <4>1, FirstIs
    <3>2. /\ pc'[t] = "removeRead" /\ promise'[id] = "none"
          /\ \A i \in 1..MaxId : promise'[i] = "offered" => promise[i] = "offered"
      BY <1>1, <2>4 DEF Goto, TypeOK
    <3>3. RemovesItsOwn'
      BY <1>2, <3>1, <3>2 DEF RemovesItsOwn
    <3>4. AddIsNew' /\ CopyFaithful' /\ pc[t] \notin PurgeSteps
      BY <1>2, <1>12, <2>2, <3>2
    <3>5. QED
      BY <1>3, <2>2, <3>2, <3>3, <3>4
  <2>5. QED
    BY <2>1, <2>3, <2>4 DEF BeginRemove
<1>6. CASE AddScan(t)
  <2>1. pc[t] = "addScan" /\ UNCHANGED <<data, cat, crashes, promise>>
    BY <1>6 DEF AddScan, disk, past
  <2>2. CASE \E code : Return(t, code)
    BY <1>2, <1>12, <1>13, <2>1, <2>2
  <2>3. CASE ~Exists(data[cat], rec[t]) /\ Goto(t, "addSeek") /\ UNCHANGED rec
    <3>1. pc'[t] = "addSeek" /\ rec'[t] = rec[t]
      BY <1>1, <2>3 DEF Goto, TypeOK
    <3>2. \A i \in Active(data[cat]) : Differ(data[cat][i], rec[t])
      BY <2>3 DEF Exists, Differ
    <3>3. Active(data[cat])' = Active(data[cat])
      BY <2>1 DEF Active
    <3>4. AddIsNew'
      BY <1>2, <2>1, <3>1, <3>2, <3>3 DEF AddIsNew, Content, AddSteps
    <3>5. QED
      BY <1>2, <1>3, <2>1, <3>1, <3>4 DEF RemoveSteps, PurgeSteps
  <2>4. QED
    BY <1>2, <1>6, <2>2, <2>3 DEF AddScan
<1>7. CASE AddSeek(t)
  <2>1. /\ pc[t] = "addSeek" /\ pc'[t] = "addWrite" /\ rec'[t] = rec[t]
        /\ UNCHANGED <<data, cat, crashes, promise>>
    BY <1>1, <1>7 DEF AddSeek, Goto, TypeOK, disk, past
  <2>2. Active(data[cat])' = Active(data[cat])
    BY <2>1 DEF Active
  <2>3. AddIsNew'
    BY <1>2, <2>1, <2>2 DEF AddIsNew, Content, AddSteps
  <2>4. QED
    BY <1>2, <1>3, <2>1, <2>3 DEF RemoveSteps, PurgeSteps
<1>8. CASE RemoveRead(t)
  <2>1. pc[t] = "removeRead" /\ UNCHANGED <<data, cat, crashes, promise>>
    BY <1>8 DEF RemoveRead, disk, past
  <2>2. CASE \E code : Return(t, code)
    BY <1>2, <1>12, <1>13, <2>1, <2>2
  <2>3. CASE /\ Found(data[cat], rec[t].id)
             /\ rec' = [rec EXCEPT ![t] =
                           Deactivated(data[cat][First(data[cat], rec[t].id)])]
             /\ Goto(t, "updateFind")
    <3> DEFINE i == First(data[cat], rec[t].id)
    <3>1. /\ i \in Nat /\ data[cat][i] \in CourseRecord /\ data[cat][i].id = rec[t].id
          /\ \A j \in Named(data[cat], rec[t].id) : i <= j
      BY <1>1, <2>3, FirstIs
    <3>2. pc'[t] = "updateFind" /\ rec'[t] = Deactivated(data[cat][i])
      BY <1>1, <2>3 DEF Goto, TypeOK
    <3>3. i \in Named(data[cat], rec[t].id)
      BY <1>1, <2>3, FirstIs DEF Named
    <3> HIDE DEF i
    <3>4. /\ rec'[t].id = rec[t].id /\ rec'[t].code = data[cat][i].code
          /\ rec'[t].status = "INACTIVE"
      BY <3>1, <3>2 DEF Deactivated, CourseRecord
    <3>5. ASSUME NEW k \in Named(data[cat], rec[t].id),
                 \A j \in Named(data[cat], rec[t].id) : k <= j
          PROVE  SameCourse(data[cat][k], rec'[t])
      <4>1. k \in Nat /\ k <= i /\ i <= k
        BY <1>1, <3>1, <3>3, <3>5 DEF Named
      <4>2. k = i
        BY <3>1, <4>1
      <4>3. QED
        BY <3>1, <3>4, <4>2 DEF SameCourse
    <3>6. \A id \in 1..MaxId : rec[t].id = id => promise[id] # "offered"
      BY <2>1 DEF Content, RemovesItsOwn, RemoveSteps
    <3>7. Named(data[cat], rec[t].id)' = Named(data[cat], rec[t].id)
      BY <2>1, <3>4 DEF Named
    <3>8. RemovesItsOwn'
      BY <1>2, <2>1, <3>2, <3>4, <3>5, <3>6, <3>7 DEF RemovesItsOwn
    <3>9. AddIsNew' /\ CopyFaithful' /\ pc[t] \notin PurgeSteps
      BY <1>2, <1>12, <2>1, <3>2
    <3>10. QED
      BY <1>3, <2>1, <3>8, <3>9
  <2>4. QED
    BY <1>8, <2>2, <2>3 DEF RemoveRead
<1>9. CASE UpdateFind(t)
  <2>1. pc[t] = "updateFind" /\ UNCHANGED <<data, cat, crashes, promise>>
    BY <1>9 DEF UpdateFind, disk, past
  <2>2. /\ \A id \in 1..MaxId : rec[t].id = id => promise[id] # "offered"
        /\ rec[t].status = "INACTIVE" /\ op[t] = "remove"
        /\ \A i \in Named(data[cat], rec[t].id) :
              (\A j \in Named(data[cat], rec[t].id) : i <= j)
                 => SameCourse(data[cat][i], rec[t])
    BY <2>1 DEF Content, RemovesItsOwn, RemoveSteps, CallsMatch
  <2>3. CASE \E code : AfterUpdate(t, code)
    <3>1. pc'[t] = "openOld" /\ rec'[t] = rec[t]
      BY <1>1, <2>2, <2>3 DEF AfterUpdate, Goto, TypeOK
    <3>2. RemovesItsOwn'
      BY <1>2, <2>1, <2>2, <3>1 DEF RemovesItsOwn
    <3>3. QED
      BY <1>2, <1>3, <2>1, <3>1, <3>2 DEF AddSteps, PurgeSteps
  <2>4. CASE /\ Found(data[cat], rec[t].id)
             /\ off' = [off EXCEPT ![t] = First(data[cat], rec[t].id)]
             /\ Goto(t, "updateWrite")
             /\ UNCHANGED rec
    <3>1. pc'[t] = "updateWrite" /\ rec'[t] = rec[t] /\ off'[t] = First(data[cat], rec[t].id)
      BY <1>1, <2>4 DEF Goto, TypeOK
    <3>2. /\ off'[t] \in Named(data[cat], rec[t].id)
          /\ \A j \in Named(data[cat], rec[t].id) : off'[t] <= j
      BY <1>1, <2>4, <3>1, FirstIs DEF Named
    <3>3. SameCourse(data'[cat'][off'[t]], rec[t])
      BY <2>1, <2>2, <3>2
    <3>4. RemovesItsOwn'
      BY <1>2, <2>1, <2>2, <3>1, <3>3 DEF RemovesItsOwn
    <3>5. QED
      BY <1>2, <1>3, <2>1, <3>1, <3>4 DEF AddSteps, PurgeSteps
  <2>5. QED
    BY <1>9, <2>3, <2>4 DEF UpdateFind
<1>10. CASE OpenOld(t)
  <2>1. /\ pc[t] = "openOld" /\ pc'[t] = "openTmp" /\ rec'[t] = rec[t]
        /\ UNCHANGED <<data, cat, crashes, promise>>
    BY <1>1, <1>2, <1>10 DEF OpenOld, Goto, TypeOK, disk, past
  <2>2. RemovesItsOwn'
    BY <1>2, <2>1 DEF RemovesItsOwn, Content, RemoveSteps, PurgeSteps
  <2>3. QED
    BY <1>2, <1>3, <2>1, <2>2 DEF AddSteps, PurgeSteps
<1>11. QED
  BY <1>4, <1>5, <1>6, <1>7, <1>8, <1>9, <1>10

(* A new record at the end of courses.dat.                                 *)
LEMMA AddWriteContent ==
    ASSUME OneTeacher, Structure, Content, NEW t \in Teacher, AddWrite(t)
    PROVE  Content'
<1> USE DEF Structure, OpenInv
<1>1. /\ t \in Thread /\ TypeOK
      /\ cat \in DOMAIN data /\ data[cat] \in Seq(CourseRecord)
      /\ rec[t] \in CourseRecord /\ off[t] \in Nat
      /\ fd[t] = cat /\ off[t] = Len(data[cat]) + 1 /\ pc[t] = "addWrite"
  <2>1. t \in Thread /\ TypeOK /\ TeacherAt(t) /\ pc[t] = "addWrite"
    BY DEF AddWrite, Thread, FilesApart
  <2>2. QED
    BY <2>1, TypesAt DEF TeacherAt
<1>2. /\ FilesCanFail = FALSE
      /\ \A u \in Shopper : /\ pc'[u] = pc[u] /\ rec'[u] = rec[u]
                            /\ fd'[u] = fd[u] /\ off'[u] = off[u]
      /\ \A id : Purging(id) <=> pc[t] \in PurgeSteps /\ rec[t].id = id
      /\ pc'[t] \notin AddSteps => AddIsNew'
      /\ pc'[t] \notin RemoveSteps => RemovesItsOwn'
      /\ pc'[t] \notin {"copy", "rename"} => CopyFaithful'
      /\ \A code : Return(t, code) => pc'[t] = "idle"
  BY <1>1, OnlyTeacher DEF TeacherStep
<1>3. /\ data' = [data EXCEPT ![fd[t]] = WriteAt(@, off[t], rec[t])]
      /\ promise' = [promise EXCEPT ![rec[t].id] = "offered"]
      /\ UNCHANGED <<cat, crashes>> /\ pc'[t] = "idle"
  BY <1>1, <1>2 DEF AddWrite, past
<1>4. AddIsNew' /\ RemovesItsOwn' /\ CopyFaithful' /\ \A id : ~Purging(id)
  BY <1>1, <1>2, <1>3 DEF AddSteps, RemoveSteps, PurgeSteps
<1>5. /\ DOMAIN data'[cat] = DOMAIN data[cat] \cup {off[t]}
      /\ off[t] \notin DOMAIN data[cat]
      /\ data'[cat][off[t]] = rec[t]
      /\ \A j \in DOMAIN data[cat] : data'[cat][j] = data[cat][j]
  <2>1. /\ TypeOK /\ fd[t] \in DOMAIN data /\ off[t] \in Nat /\ rec[t] \in CourseRecord
        /\ off[t] > Len(data[fd[t]]) /\ off[t] - 1 <= Len(data[fd[t]])
    <3>1. Len(data[cat]) \in Nat
      BY <1>1
    <3>2. QED
      BY <1>1, <3>1
  <2>2. PICK d : /\ d = [data EXCEPT ![fd[t]] = WriteAt(@, off[t], rec[t])]
                 /\ RecordAdded(d, fd[t], off[t], rec[t])
    BY <2>1, WriteAtEnd
  <2>3. data' = d
    BY <1>3, <2>2
  <2>4. QED
    BY <1>1, <2>2, <2>3 DEF RecordAdded
<1>6. /\ rec[t].status = "ACTIVE"
      /\ \A i \in Active(data[cat]) : Differ(data[cat][i], rec[t])
  BY <1>1 DEF Content, AddIsNew, AddSteps
<1>7. /\ Active(data[cat])' = Active(data[cat]) \cup {off[t]}
      /\ off[t] \notin Active(data[cat])
      /\ \A i \in Active(data[cat]) : data'[cat][i] = data[cat][i]
  BY <1>3, <1>5, <1>6 DEF Active
<1>8. EnrollCopies'
  <2> SUFFICES ASSUME NEW u \in Shopper, pc[u] \in {"enroll", "takeSeat"}, fd[u] = cat
               PROVE  /\ rec[u].status = "ACTIVE"
                      /\ SameCourse(data'[cat][off[u]], rec[u])
                      /\ \A i \in Active(data[cat])' \ {off[u]} : Differ(data'[cat][i], rec[u])
                      /\ data'[cat][off[u]].status = "ACTIVE"
    BY <1>2, <1>3 DEF EnrollCopies, EnrollCopy
  <2>1. off[u] \in DOMAIN data[cat]
    BY DEF FilesApart, ShopperAt
  <2>2. /\ rec[u].status = "ACTIVE"
        /\ SameCourse(data[cat][off[u]], rec[u])
        /\ \A i \in Active(data[cat]) \ {off[u]} : Differ(data[cat][i], rec[u])
        /\ data[cat][off[u]].status = "ACTIVE"
    BY <1>4 DEF Content, EnrollCopies, EnrollCopy
  <2>3. Differ(rec[t], rec[u])
    BY <1>6, <2>1, <2>2 DEF Active, Differ, SameCourse
  <2>4. \A i \in Active(data[cat])' \ {off[u]} : Differ(data'[cat][i], rec[u])
    BY <1>5, <1>7, <2>2, <2>3
  <2>5. QED
    BY <1>5, <2>1, <2>2, <2>4
<1>9. Distinct'
  <2> SUFFICES ASSUME NEW i \in Active(data[cat])', NEW j \in Active(data[cat])', i # j
               PROVE  Differ(data'[cat][i], data'[cat][j])
    BY <1>3 DEF Distinct
  <2>1. CASE i \in Active(data[cat]) /\ j \in Active(data[cat])
    BY <1>7, <2>1 DEF Content, Distinct
  <2>2. CASE i = off[t] \/ j = off[t]
    BY <1>5, <1>6, <1>7, <2>2 DEF Differ
  <2>3. QED
    BY <1>7, <2>1, <2>2
<1>10. OfferedOnFile'
  <2> SUFFICES ASSUME NEW id \in 1..MaxId, promise'[id] = "offered"
               PROVE  \E i \in Active(data[cat])' : data'[cat][i].id = id
    BY <1>3 DEF OfferedOnFile, Listed
  <2>1. CASE id = rec[t].id
    BY <1>5, <1>7, <2>1
  <2>2. CASE id # rec[t].id
    <3>1. promise[id] = "offered"
      BY <1>1, <1>3, <2>2 DEF TypeOK
    <3>2. \E i \in Active(data[cat]) : data[cat][i].id = id
      BY <3>1 DEF Content, OfferedOnFile, Listed
    <3>3. QED
      BY <1>7, <3>2
  <2>3. QED
    BY <2>1, <2>2
<1>11. NoneLeft'
  <2>1. crashes = 0 => \A i \in DOMAIN data[cat] : data[cat][i].status = "ACTIVE"
    BY <1>4 DEF Content, NoneLeft
  <2>2. QED
    BY <1>3, <1>5, <1>6, <2>1 DEF NoneLeft
<1>12. QED
  BY <1>4, <1>8, <1>9, <1>10, <1>11 DEF Content

(* A removal marks the record of its course INACTIVE.                      *)
LEMMA MarkContent ==
    ASSUME OneTeacher, Structure, Content, NEW t \in Teacher, UpdateWrite(t)
    PROVE  Content'
<1> USE DEF Structure, OpenInv
<1>1. /\ t \in Thread /\ TypeOK
      /\ cat \in DOMAIN data /\ data[cat] \in Seq(CourseRecord)
      /\ rec[t] \in CourseRecord
      /\ fd[t] = cat /\ off[t] \in DOMAIN data[cat] /\ pc[t] = "updateWrite"
  <2>1. t \in Thread /\ TypeOK /\ TeacherAt(t) /\ pc[t] = "updateWrite"
    BY DEF UpdateWrite, Thread, FilesApart
  <2>2. QED
    BY <2>1, TypesAt DEF TeacherAt
<1>2. /\ FilesCanFail = FALSE
      /\ \A f \in Teacher : f = t
      /\ \A u \in Shopper : /\ pc'[u] = pc[u] /\ rec'[u] = rec[u]
                            /\ fd'[u] = fd[u] /\ off'[u] = off[u]
      /\ \A id : Purging(id) <=> pc[t] \in PurgeSteps /\ rec[t].id = id
      /\ \A id : Purging(id)' <=> pc'[t] \in PurgeSteps /\ rec'[t].id = id
      /\ pc'[t] \notin AddSteps => AddIsNew'
      /\ pc'[t] \notin {"copy", "rename"} => CopyFaithful'
  BY <1>1, OnlyTeacher DEF TeacherStep
<1>3. op[t] = "remove"
  BY <1>1 DEF CallsMatch, RemoveSteps
<1>4. /\ data' = [data EXCEPT ![fd[t]] = WriteAt(@, off[t], rec[t])]
      /\ UNCHANGED <<cat, crashes, promise>>
      /\ pc'[t] = "openOld" /\ rec'[t] = rec[t]
  BY <1>1, <1>2, <1>3 DEF UpdateWrite, AfterUpdate, Goto, TypeOK
<1>5. AddIsNew' /\ CopyFaithful'
  BY <1>2, <1>4 DEF AddSteps
<1>6. /\ \A id \in 1..MaxId : rec[t].id = id => promise[id] # "offered"
      /\ rec[t].status = "INACTIVE" /\ SameCourse(data[cat][off[t]], rec[t])
  BY <1>1 DEF Content, RemovesItsOwn, RemoveSteps
<1>7. RemovesItsOwn'
  BY <1>2, <1>4, <1>6 DEF RemovesItsOwn
<1>8. pc'[t] \in PurgeSteps /\ \A id : ~Purging(id)
  BY <1>1, <1>2, <1>4 DEF PurgeSteps
<1>9. /\ DOMAIN data'[cat] = DOMAIN data[cat]
      /\ data'[cat][off[t]] = rec[t]
      /\ \A j \in DOMAIN data[cat] : j # off[t] => data'[cat][j] = data[cat][j]
  <2>1. TypeOK /\ fd[t] \in DOMAIN data /\ off[t] \in DOMAIN data[fd[t]] /\ rec[t] \in CourseRecord
    BY <1>1
  <2>2. PICK d : /\ d = [data EXCEPT ![fd[t]] = WriteAt(@, off[t], rec[t])]
                 /\ RecordChanged(d, fd[t], off[t], rec[t])
    BY <2>1, WriteInside
  <2>3. data' = d
    BY <1>4, <2>2
  <2>4. QED
    BY <1>1, <2>2, <2>3 DEF RecordChanged
<1>10. /\ Active(data[cat])' = Active(data[cat]) \ {off[t]}
       /\ \A i \in Active(data[cat]) \ {off[t]} : data'[cat][i] = data[cat][i]
  BY <1>1, <1>4, <1>6, <1>9 DEF Active
<1>11. EnrollCopies'
  <2> SUFFICES ASSUME NEW u \in Shopper, pc[u] \in {"enroll", "takeSeat"}, fd[u] = cat
               PROVE  /\ rec[u].status = "ACTIVE"
                      /\ SameCourse(data'[cat][off[u]], rec[u])
                      /\ \A i \in Active(data[cat])' \ {off[u]} : Differ(data'[cat][i], rec[u])
                      /\ data'[cat][off[u]].status = "ACTIVE" \/ rec[t].id = rec[u].id
    BY <1>2, <1>4, <1>8 DEF EnrollCopies, EnrollCopy, Purging
  <2>1. off[u] \in DOMAIN data[cat]
    BY DEF FilesApart, ShopperAt
  <2>2. /\ rec[u].status = "ACTIVE"
        /\ SameCourse(data[cat][off[u]], rec[u])
        /\ \A i \in Active(data[cat]) \ {off[u]} : Differ(data[cat][i], rec[u])
        /\ data[cat][off[u]].status = "ACTIVE"
    BY <1>8 DEF Content, EnrollCopies, EnrollCopy
  <2>3. \A i \in Active(data[cat])' \ {off[u]} : Differ(data'[cat][i], rec[u])
    BY <1>10, <2>2
  <2>4. CASE off[u] = off[t]
    <3>1. SameCourse(rec[t], rec[u])
      BY <1>6, <2>2, <2>4 DEF SameCourse
    <3>2. rec[t].id = rec[u].id
      BY <3>1 DEF SameCourse
    <3>3. QED
      BY <1>9, <2>2, <2>3, <2>4, <3>1, <3>2
  <2>5. CASE off[u] # off[t]
    BY <1>9, <2>1, <2>2, <2>3, <2>5
  <2>6. QED
    BY <2>4, <2>5
<1>12. Distinct'
  BY <1>4, <1>10 DEF Content, Distinct
<1>13. OfferedOnFile'
  <2> SUFFICES ASSUME NEW id \in 1..MaxId, promise[id] = "offered"
               PROVE  \E i \in Active(data[cat])' : data'[cat][i].id = id
    BY <1>4 DEF OfferedOnFile, Listed
  <2>1. PICK i \in Active(data[cat]) : data[cat][i].id = id
    BY DEF Content, OfferedOnFile, Listed
  <2>2. i # off[t]
    BY <1>6, <2>1 DEF SameCourse
  <2>3. QED
    BY <1>10, <2>1, <2>2
<1>14. NoneLeft'
  <2> SUFFICES ASSUME crashes = 0, NEW i \in DOMAIN data[cat]
               PROVE  data'[cat][i].status = "ACTIVE" \/ rec[t].id = data'[cat][i].id
    BY <1>4, <1>8, <1>9 DEF NoneLeft, Purging
  <2>1. CASE i = off[t]
    BY <1>9, <2>1
  <2>2. CASE i # off[t]
    BY <1>8, <1>9, <2>2 DEF Content, NoneLeft
  <2>3. QED
    BY <2>1, <2>2
<1>15. QED
  BY <1>5, <1>7, <1>11, <1>12, <1>13, <1>14 DEF Content

(* The copying loop: courses.dat stays as it is, and its copy grows by the *)
(* next listed course.                                                     *)
LEMMA CopyContent ==
    ASSUME OneTeacher, Structure, Content, NEW t \in Teacher, OpenTmp(t) \/ CopyRecord(t)
    PROVE  Content'
<1> USE DEF Structure, OpenInv
<1>1. /\ t \in Thread /\ TypeOK
      /\ cat \in DOMAIN data /\ data[cat] \in Seq(CourseRecord)
      /\ data \in Seq(Seq(CourseRecord)) /\ 0 \notin DOMAIN data
      /\ rec[t] \in CourseRecord /\ tmp # cat /\ tmp \in {0} \cup DOMAIN data
      /\ TeacherAt(t)
  <2>1. TypeOK /\ t \in Thread /\ tmp # cat /\ TeacherAt(t)
    BY DEF Thread, FilesApart
  <2>2. data \in Seq(Seq(CourseRecord)) /\ cat \in DOMAIN data /\ tmp \in {0} \cup DOMAIN data
    BY DEF TypeOK
  <2>3. rec[t] \in CourseRecord
    BY <2>1 DEF TypeOK
  <2>4. QED
    BY <2>1, <2>2, <2>3
<1>2. /\ FilesCanFail = FALSE
      /\ \A f \in Teacher : f = t
      /\ \A u \in Shopper : /\ pc'[u] = pc[u] /\ rec'[u] = rec[u]
                            /\ fd'[u] = fd[u] /\ off'[u] = off[u]
      /\ \A id : Purging(id) <=> pc[t] \in PurgeSteps /\ rec[t].id = id
      /\ \A id : Purging(id)' <=> pc'[t] \in PurgeSteps /\ rec'[t].id = id
      /\ pc'[t] \notin AddSteps => AddIsNew'
  BY <1>1, OnlyTeacher DEF TeacherStep
<1>3. /\ pc[t] \in PurgeSteps /\ pc'[t] \in {"copy", "rename"} /\ rec'[t] = rec[t]
      /\ UNCHANGED <<cat, crashes, promise>>
  BY <1>1, <1>2 DEF OpenTmp, CopyRecord, Goto, TypeOK, PurgeSteps, past
<1>4. \A id : Purging(id) => Purging(id)'
  BY <1>2, <1>3 DEF PurgeSteps
<1>5. AddIsNew'
  BY <1>2, <1>3 DEF AddSteps
<1>6. RemovesItsOwn'
  BY <1>2, <1>3 DEF Content, RemovesItsOwn, RemoveSteps, PurgeSteps
<1>7. ASSUME data'[cat] = data[cat], CopyFaithful'
      PROVE  Content'
  BY <1>2, <1>3, <1>4, <1>5, <1>6, <1>7, TeacherKeeps
<1>8. CASE OpenTmp(t)
  <2>1. /\ \/ tmp = 0 /\ data' = Append(data, << >>) /\ tmp' = Len(data) + 1
           \/ tmp # 0 /\ data' = [data EXCEPT ![tmp] = << >>] /\ UNCHANGED tmp
    BY <1>2, <1>8, Zenon DEF OpenTmp
  <2>7. pos'[t] = 1
    BY <1>1, <1>2, <1>8 DEF OpenTmp, TeacherAt
  <2>2. << >> \in Seq(CourseRecord)
    OBVIOUS
  <2>3. data'[cat] = data[cat] /\ data'[tmp'] = << >>
    <3>1. CASE tmp = 0 /\ data' = Append(data, << >>) /\ tmp' = Len(data) + 1
      BY <1>1, <2>2, <3>1, AppendProperties
    <3>2. CASE tmp # 0 /\ data' = [data EXCEPT ![tmp] = << >>] /\ UNCHANGED tmp
      BY <1>1, <2>2, <3>2, FileWritten
    <3>3. QED
      BY <2>1, <3>1, <3>2
  <2>4. DOMAIN data'[tmp'] = {} /\ \A i \in Active(data[cat])' : ~(i < pos'[t])
    <3>1. Active(data[cat])' \subseteq 1..Len(data[cat]) /\ Len(data[cat]) \in Nat
      BY <1>1, <1>3, <2>3 DEF Active
    <3>2. QED
      BY <2>3, <2>7, <3>1
  <2>5. CopyFaithful'
    BY <1>2, <2>4 DEF CopyFaithful
  <2>6. QED
    BY <1>7, <2>3, <2>5
<1>9. CASE CopyRecord(t)
  <2>1. /\ old[t] = cat /\ fd[t] = tmp /\ tmp \in DOMAIN data /\ UNCHANGED tmp
        /\ data[tmp] \in Seq(CourseRecord)
        /\ off[t] = Len(data[tmp]) + 1 /\ pos[t] \in 1..Len(data[cat]) + 1
        /\ pc[t] = "copy"
    BY <1>1, <1>9 DEF CopyRecord, TeacherAt
  <2>2. /\ \A k \in DOMAIN data[tmp] :
              /\ data[tmp][k].status = "ACTIVE"
              /\ \E i \in Active(data[cat]) :
                    i < pos[t] /\ SameCourse(data[cat][i], data[tmp][k])
        /\ \A k, l \in DOMAIN data[tmp] : k # l => Differ(data[tmp][k], data[tmp][l])
        /\ \A i \in Active(data[cat]) :
              i < pos[t] => \/ data[cat][i].id = rec[t].id
                            \/ \E k \in DOMAIN data[tmp] :
                                  data[tmp][k].id = data[cat][i].id
    BY <2>1 DEF Content, CopyFaithful
  <2>3. Active(data[cat]) \subseteq Nat /\ pos[t] \in Nat /\ Len(data[cat]) \in Nat
        /\ DOMAIN data[cat] = 1..Len(data[cat])
    BY <1>1, <2>1 DEF Active
  <2> DEFINE
        Skips == \/ UNCHANGED <<data, pos>>
                 \/ /\ UNCHANGED data
                    /\ pos'[t] = pos[t] + 1
                    /\ pos[t] \notin Active(data[cat])
        Copies == /\ data' = [data EXCEPT ![tmp] = WriteAt(@, off[t], data[cat][pos[t]])]
                  /\ pos'[t] = pos[t] + 1
                  /\ pos[t] \in Active(data[cat])
  <2>4. CASE Skips
    <3>1. \A i \in Active(data[cat]) : i < pos'[t] <=> i < pos[t]
      BY <2>3, <2>4
    <3>2. Active(data[cat])' = Active(data[cat])
      BY <1>3, <2>4 DEF Active
    <3>3. CopyFaithful'
      BY <1>2, <1>3, <2>1, <2>2, <2>4, <3>1, <3>2 DEF CopyFaithful
    <3>4. QED
      BY <1>7, <2>4, <3>3
  <2>5. CASE Copies
    <3>1. off[t] > Len(data[tmp]) /\ off[t] - 1 <= Len(data[tmp]) /\ off[t] \in Nat
      <4>1. Len(data[tmp]) \in Nat
        BY <2>1
      <4>2. QED
        BY <2>1, <4>1
    <3>2. data[cat][pos[t]] \in CourseRecord
      BY <1>1, <2>5 DEF Active
    <3>3. PICK d : /\ d = [data EXCEPT ![tmp] = WriteAt(@, off[t], data[cat][pos[t]])]
                   /\ RecordAdded(d, tmp, off[t], data[cat][pos[t]])
      BY <1>1, <2>1, <3>1, <3>2, WriteAtEnd
    <3>4. data' = d
      BY <2>5, <3>3
    <3>5. /\ data'[cat] = data[cat]
          /\ DOMAIN data'[tmp] = DOMAIN data[tmp] \cup {off[t]}
          /\ off[t] \notin DOMAIN data[tmp]
          /\ data'[tmp][off[t]] = data[cat][pos[t]]
          /\ \A j \in DOMAIN data[tmp] : data'[tmp][j] = data[tmp][j]
      BY <1>1, <3>3, <3>4 DEF RecordAdded
    <3>6. /\ Active(data[cat])' = Active(data[cat])
          /\ \A i \in Active(data[cat]) : i < pos'[t] <=> i < pos[t] \/ i = pos[t]
          /\ pos[t] < pos'[t]
      BY <1>3, <2>3, <2>5, <3>5 DEF Active
    <3>7. \A k \in DOMAIN data'[tmp] :
             /\ data'[tmp][k].status = "ACTIVE"
             /\ \E i \in Active(data[cat]) :
                   i < pos'[t] /\ SameCourse(data[cat][i], data'[tmp][k])
      <4>1. data[cat][pos[t]].status = "ACTIVE"
            /\ SameCourse(data[cat][pos[t]], data[cat][pos[t]])
        BY <2>5 DEF Active, SameCourse
      <4>2. QED
        BY <2>2, <2>5, <3>5, <3>6, <4>1
    <3>8. \A k \in DOMAIN data[tmp] : /\ Differ(data[tmp][k], data[cat][pos[t]])
                                      /\ Differ(data[cat][pos[t]], data[tmp][k])
      <4> SUFFICES ASSUME NEW k \in DOMAIN data[tmp]
                   PROVE  /\ Differ(data[tmp][k], data[cat][pos[t]])
                          /\ Differ(data[cat][pos[t]], data[tmp][k])
        OBVIOUS
      <4>1. PICK i \in Active(data[cat]) :
               i < pos[t] /\ SameCourse(data[cat][i], data[tmp][k])
        BY <2>2
      <4>2. i # pos[t]
        BY <2>3, <4>1
      <4>3. Differ(data[cat][i], data[cat][pos[t]])
        BY <2>5, <4>2 DEF Content, Distinct
      <4>4. QED
        BY <4>1, <4>3 DEF Differ, SameCourse
    <3>9. \A k, l \in DOMAIN data'[tmp] : k # l => Differ(data'[tmp][k], data'[tmp][l])
      BY <2>2, <3>5, <3>8
    <3>10. \A i \in Active(data[cat]) :
              i < pos'[t] => \/ data[cat][i].id = rec[t].id
                             \/ \E k \in DOMAIN data'[tmp] :
                                   data'[tmp][k].id = data[cat][i].id
      <4> SUFFICES ASSUME NEW i \in Active(data[cat]), i < pos'[t],
                          data[cat][i].id # rec[t].id
                   PROVE  \E k \in DOMAIN data'[tmp] : data'[tmp][k].id = data[cat][i].id
        OBVIOUS
      <4>1. CASE i = pos[t]
        BY <3>5, <4>1
      <4>2. CASE i < pos[t]
        <5>1. PICK k \in DOMAIN data[tmp] : data[tmp][k].id = data[cat][i].id
          BY <2>2, <4>2
        <5>2. QED
          BY <3>5, <5>1
      <4>3. QED
        BY <3>6, <4>1, <4>2
    <3>11. CopyFaithful'
      BY <1>2, <1>3, <2>1, <3>5, <3>6, <3>7, <3>9, <3>10 DEF CopyFaithful
    <3>12. QED
      BY <1>7, <3>5, <3>11
  <2>6. QED
    <3>1. CASE pos[t] \notin DOMAIN data[cat]
      BY <1>9, <2>1, <2>4, <3>1 DEF CopyRecord
    <3>2. CASE pos[t] \in DOMAIN data[cat] /\ ~Survives(data[cat][pos[t]])
      BY <1>1, <1>2, <1>9, <2>1, <2>4, <3>2 DEF CopyRecord, Survives, Active, TypeOK
    <3>3. CASE pos[t] \in DOMAIN data[cat] /\ Survives(data[cat][pos[t]])
      <4>1. data' = [data EXCEPT ![tmp] = WriteAt(@, off[t], data[cat][pos[t]])]
        BY <1>2, <1>9, <2>1, <3>3, Zenon DEF CopyRecord
      <4>2. pos'[t] = pos[t] + 1 /\ pos[t] \in Active(data[cat])
        BY <1>1, <1>2, <1>9, <2>1, <3>3 DEF CopyRecord, Survives, Active, TypeOK
      <4>3. Copies
        BY <4>1, <4>2, Zenon
      <4> HIDE DEF Copies
      <4>4. QED
        BY <2>5, <4>3
    <3>4. QED
      BY <3>1, <3>2, <3>3
<1>10. QED
  BY <1>8, <1>9

(* courses.dat.tmp becomes courses.dat: the courses on offer are all in it,*)
(* once, and nothing is INACTIVE there.                                    *)
LEMMA RenameContent ==
    ASSUME OneTeacher, Structure, Content, NEW t \in Teacher, Rename(t)
    PROVE  Content'
<1> USE DEF Structure, OpenInv
<1>1. /\ t \in Thread /\ TypeOK
      /\ cat \in DOMAIN data /\ data[cat] \in Seq(CourseRecord)
      /\ rec[t] \in CourseRecord
      /\ pc[t] = "rename" /\ tmp # 0 /\ pos[t] = Len(data[cat]) + 1
  <2>1. t \in Thread /\ TypeOK /\ TeacherAt(t) /\ pc[t] = "rename"
    BY DEF Rename, Thread, FilesApart
  <2>2. QED
    BY <2>1, TypesAt DEF TeacherAt
<1>2. /\ FilesCanFail = FALSE
      /\ \A f \in Teacher : f = t
      /\ \A u \in Shopper : /\ pc'[u] = pc[u] /\ rec'[u] = rec[u]
                            /\ fd'[u] = fd[u] /\ off'[u] = off[u]
      /\ pc'[t] \notin AddSteps => AddIsNew'
      /\ pc'[t] \notin RemoveSteps => RemovesItsOwn'
      /\ pc'[t] \notin {"copy", "rename"} => CopyFaithful'
      /\ \A code : Return(t, code) => pc'[t] = "idle"
  BY <1>1, OnlyTeacher DEF TeacherStep
<1>3. /\ UNCHANGED <<data, crashes>> /\ cat' = tmp /\ pc'[t] = "idle"
      /\ \/ UNCHANGED promise
         \/ promise' = [promise EXCEPT ![rec[t].id] = "gone"]
  BY <1>1, <1>2 DEF Rename, Answer, past
<1>4. AddIsNew' /\ RemovesItsOwn' /\ CopyFaithful'
  BY <1>2, <1>3 DEF AddSteps, RemoveSteps, PurgeSteps
<1>5. /\ \A k \in DOMAIN data[tmp] :
            /\ data[tmp][k].status = "ACTIVE"
            /\ \E i \in Active(data[cat]) :
                  i < pos[t] /\ SameCourse(data[cat][i], data[tmp][k])
      /\ \A k, l \in DOMAIN data[tmp] : k # l => Differ(data[tmp][k], data[tmp][l])
      /\ \A i \in Active(data[cat]) :
            i < pos[t] => \/ data[cat][i].id = rec[t].id
                          \/ \E k \in DOMAIN data[tmp] :
                                data[tmp][k].id = data[cat][i].id
  BY <1>1 DEF Content, CopyFaithful
<1>6. Active(data[cat])' = DOMAIN data[tmp]
  BY <1>3, <1>5 DEF Active
<1>7. EnrollCopies'
  BY <1>2, <1>3 DEF EnrollCopies, EnrollCopy, FilesApart, ShopperAt
<1>8. Distinct'
  BY <1>3, <1>5, <1>6 DEF Distinct
<1>9. NoneLeft'
  BY <1>3, <1>5 DEF NoneLeft
<1>10. OfferedOnFile'
  <2> SUFFICES ASSUME NEW id \in 1..MaxId, promise'[id] = "offered"
               PROVE  \E k \in DOMAIN data[tmp] : data[tmp][k].id = id
    BY <1>3, <1>6 DEF OfferedOnFile, Listed
  <2>1. promise[id] = "offered"
    BY <1>1, <1>3 DEF TypeOK
  <2>2. rec[t].id # id
    BY <1>1, <2>1 DEF Content, RemovesItsOwn, RemoveSteps, PurgeSteps
  <2>3. PICK i \in Active(data[cat]) : data[cat][i].id = id
    BY <2>1 DEF Content, OfferedOnFile, Listed
  <2>4. i < pos[t]
    <3>1. i \in 1..Len(data[cat]) /\ Len(data[cat]) \in Nat
      BY <1>1 DEF Active
    <3>2. QED
      BY <1>1, <3>1
  <2>5. QED
    BY <1>5, <2>2, <2>3, <2>4
<1>11. QED
  BY <1>4, <1>7, <1>8, <1>9, <1>10 DEF Content

(* Every step keeps the files right, unless a drop has overwritten a course*)
(* that is not the one it copied.                                          *)
LEMMA ContentStep ==
    ASSUME OneTeacher, Structure, Content, [Next]_vars, ~overwritten'
    PROVE  Content'
<1>1. ASSUME NEW t \in Teacher,
             \/ \E code \in Code : BeginAdd(t, code)
             \/ \E id \in 1..MaxId : BeginRemove(t, id)
             \/ TeacherStep(t)
      PROVE  Content'
  BY <1>1, AddContent, AddWriteContent, MarkContent, CopyContent, RenameContent
     DEF TeacherStep
<1>2. ASSUME NEW t \in Shopper,
             \/ \E id \in 1..MaxId : BeginEnroll(t, id) \/ BeginDrop(t, id)
             \/ ShopperStep(t)
      PROVE  Content'
  BY <1>2, ShopperContent
<1>3. CASE Crash
  <2>1. /\ UNCHANGED <<data, cat, promise>> /\ crashes' # 0
        /\ \A t \in Thread : pc'[t] = "idle"
    BY <1>3 DEF Crash, disk, Structure, OpenInv, TypeOK
  <2>2. EnrollCopies' /\ AddIsNew' /\ RemovesItsOwn' /\ CopyFaithful' /\ NoneLeft'
    BY <2>1 DEF EnrollCopies, EnrollCopy, AddIsNew, RemovesItsOwn, CopyFaithful, NoneLeft,
                Thread, AddSteps, RemoveSteps, PurgeSteps
  <2>3. Distinct' /\ OfferedOnFile'
    BY <2>1 DEF Content, Distinct, OfferedOnFile, Listed, Active
  <2>4. QED
    BY <2>2, <2>3 DEF Content
<1>4. CASE UNCHANGED vars
  BY <1>4 DEF vars, Content, EnrollCopies, EnrollCopy, AddIsNew, RemovesItsOwn, Distinct,
              OfferedOnFile, Listed, NoneLeft, CopyFaithful, Purging, Active, Named
<1>5. QED
  BY <1>1, <1>2, <1>3, <1>4 DEF Next, Waiting

(* Once a drop has overwritten a course, it has.                           *)
LEMMA OverwrittenStays ==
    ASSUME TypeOK, [Next]_vars, overwritten
    PROVE  overwritten'
<1>1. CASE UNCHANGED overwritten
  BY <1>1
<1>2. ASSUME NEW t \in Thread, UpdateWrite(t)
      PROVE  overwritten'
  BY <1>2 DEF UpdateWrite
<1>3. ASSUME NEW t \in Teacher,
             \/ \E code \in Code : BeginAdd(t, code)
             \/ \E id \in 1..MaxId : BeginRemove(t, id)
             \/ TeacherStep(t)
      PROVE  overwritten'
  BY <1>1, <1>2, <1>3 DEF BeginAdd, BeginRemove, TeacherStep, AddScan, AddSeek, AddWrite,
     RemoveRead, UpdateFind, OpenOld, OpenTmp, CopyRecord, Rename, Begin, past, Thread
<1>4. ASSUME NEW t \in Shopper,
             \/ \E id \in 1..MaxId : BeginEnroll(t, id) \/ BeginDrop(t, id)
             \/ ShopperStep(t)
      PROVE  overwritten'
  BY <1>1, <1>2, <1>4 DEF BeginEnroll, BeginDrop, ShopperStep, LockCourse, ReadCourse,
     Enroll, TakeSeat, Drop, LockCourseToReturn, UpdateFind, Begin, past, Thread
<1>5. CASE Crash \/ UNCHANGED vars
  BY <1>1, <1>5 DEF Crash, vars
<1>6. QED
  BY <1>3, <1>4, <1>5 DEF Next, Waiting

(* A course on offer is the first record of its id: the records before it  *)
(* are ACTIVE courses of other ids, or are being purged for another one.   *)
LEMMA OfferedIsFirst ==
    ASSUME TypeOK, Content, crashes = 0, NEW id \in 1..MaxId, promise[id] = "offered"
    PROVE  /\ Found(data[cat], id)
           /\ data[cat][First(data[cat], id)].status = "ACTIVE"
<1>1. data[cat] \in Seq(CourseRecord)
  BY DEF TypeOK
<1>2. Found(data[cat], id)
  BY DEF Content, OfferedOnFile, Listed, Active, Found, Named
<1>3. First(data[cat], id) \in DOMAIN data[cat] /\ data[cat][First(data[cat], id)].id = id
  BY <1>1, <1>2, FirstIs
<1>4. ~Purging(id)
  BY DEF Content, RemovesItsOwn, Purging, RemoveSteps
<1>5. QED
  BY <1>2, <1>3, <1>4 DEF Content, NoneLeft

-----------------------------------------------------------------------------
(* What one teacher may rely on                                            *)

THEOREM CatalogIInv == ASSUME OneTeacher PROVE Spec => []IInv
<1>1. Init => IInv
  BY StructureStart, ContentStart DEF IInv
<1>2. IInv /\ [Next]_vars => IInv'
  <2> SUFFICES ASSUME IInv, [Next]_vars PROVE IInv'
    OBVIOUS
  <2>1. Structure /\ Structure'
    BY StructureStep DEF IInv
  <2>2. ASSUME ~overwritten' PROVE Content'
    <3>1. ~overwritten
      BY <2>1, <2>2, OverwrittenStays DEF Structure, OpenInv
    <3>2. QED
      BY <2>1, <2>2, <3>1, ContentStep DEF IInv
  <2>3. QED
    BY <2>1, <2>2 DEF IInv
<1>3. QED
  BY <1>1, <1>2, PTL DEF Spec

(* A course that add_course answered SUCCESS for is listed until its       *)
(* removal begins: a purge copies it whatever the students write meanwhile,*)
(* and a crash in the middle of one leaves the old file, as long as no drop*)
(* has overwritten a record it did not copy.                               *)
THEOREM OfferedStaysListed == ASSUME OneTeacher PROVE Spec => []OfferedListed
<1>1. IInv => OfferedListed
  BY DEF IInv, Content, OfferedListed
<1>2. QED
  BY <1>1, CatalogIInv, PTL

(* add_course's check holds until its write: no two listed courses share an*)
(* id or a code, and no copy made by purge_inactive_courses has one twice. *)
THEOREM CoursesStayDistinct == ASSUME OneTeacher PROVE Spec => []CoursesDistinct
<1>1. IInv => CoursesDistinct
  BY DEF IInv, Content, Distinct, Differ, CoursesDistinct
<1>2. QED
  BY <1>1, CatalogIInv, PTL

(* The scans of get_course_by_id and update_course, which stop at the first*)
(* record of an id whatever its status, find the course on offer: without a*)
(* crash every INACTIVE record has been purged before its id is used again.*)
THEOREM OfferedIsFound == ASSUME OneTeacher PROVE Spec => []OfferedFound
<1>1. IInv => OfferedFound
  BY OfferedIsFirst DEF IInv, Structure, OpenInv, OfferedFound
<1>2. QED
  BY <1>1, CatalogIInv, PTL

-----------------------------------------------------------------------------
(* Seats: what the calls rely on when they write a seat count              *)

(* A call writes to the first record of its course.                        *)
AtFirst(t) ==
    pc[t] \in {"enroll", "takeSeat", "updateWrite"} /\ fd[t] = cat =>
        /\ Found(data[cat], rec[t].id)
        /\ off[t] = First(data[cat], rec[t].id)

(* The seats an enroll has copied are those of the record: the mutex keeps *)
(* other students away, and a removal marks no record of a course on offer.*)
SeatsFresh(t) ==
    pc[t] \in {"enroll", "takeSeat"} /\ fd[t] = cat =>
        \/ rec[t].avail = data[cat][off[t]].avail
        \/ Purging(rec[t].id)

(* A course being removed is no longer promised to anybody.                *)
NotOffered ==
    \A f \in Teacher :
        pc[f] \in RemoveSteps =>
            \A id \in 1..MaxId : rec[f].id = id => promise[id] # "offered"

(* Inductive whatever drops have overwritten: SeatsLostOnlyBy has no such  *)
(* condition, so Content is of no use for it.                              *)
SeatInv == /\ Structure
           /\ \A t \in Thread : AtFirst(t)
           /\ \A t \in Shopper : SeatsFresh(t)
           /\ NotOffered

(* Records that keep their places and ids are found where they were.       *)
LEMMA FirstKept ==
    ASSUME NEW s \in Seq(CourseRecord), NEW s2 \in Seq(CourseRecord),
           DOMAIN s \subseteq DOMAIN s2,
           \A i \in DOMAIN s : s2[i].id = s[i].id,
           NEW id, Found(s, id)
    PROVE  Found(s2, id) /\ First(s2, id) = First(s, id)
<1> DEFINE i == First(s, id)
           j == First(s2, id)
<1>1. i \in DOMAIN s /\ i \in Nat /\ s[i].id = id /\ \A k \in Named(s, id) : i <= k
  BY FirstIs
<1>2. i \in Named(s2, id)
  BY <1>1 DEF Named
<1>3. Found(s2, id)
  BY <1>2 DEF Found
<1>4. j \in DOMAIN s2 /\ j \in Nat /\ s2[j].id = id /\ \A k \in Named(s2, id) : j <= k
  BY <1>3, FirstIs
<1> HIDE DEF i, j
<1>5. j <= i
  BY <1>2, <1>4
<1>6. j \in DOMAIN s
  <2>1. DOMAIN s = 1..Len(s) /\ DOMAIN s2 = 1..Len(s2) /\ Len(s) \in Nat /\ Len(s2) \in Nat
    OBVIOUS
  <2>2. QED
    BY <1>1, <1>4, <1>5, <2>1
<1>7. j \in Named(s, id)
  BY <1>4, <1>6 DEF Named
<1>8. i <= j
  BY <1>1, <1>7
<1>9. j = i
  BY <1>1, <1>4, <1>5, <1>8
<1>10. QED
  BY <1>3, <1>9 DEF i, j

(* courses.dat under the same name, its records with their ids.            *)
IdsKept == /\ cat' = cat /\ data'[cat] \in Seq(CourseRecord)
           /\ DOMAIN data[cat] \subseteq DOMAIN data'[cat]
           /\ \A i \in DOMAIN data[cat] : data'[cat][i].id = data[cat][i].id

LEMMA FirstStays ==
    ASSUME TypeOK, IdsKept, NEW id, Found(data[cat], id)
    PROVE  /\ Found(data'[cat'], id)
           /\ First(data'[cat'], id) = First(data[cat], id)
<1>1. data[cat] \in Seq(CourseRecord)
  BY DEF TypeOK
<1>2. QED
  BY <1>1, FirstKept DEF IdsKept

(* A call that does not step is still at its record.                       *)
LEMMA AtFirstKept ==
    ASSUME TypeOK, IdsKept, NEW t \in Thread, AtFirst(t),
           pc'[t] = pc[t], rec'[t] = rec[t], fd'[t] = fd[t], off'[t] = off[t]
    PROVE  AtFirst(t)'
BY FirstStays DEF AtFirst, IdsKept

(* What Gap counts besides the record.                                     *)
LEMMA CountsKept ==
    ASSUME enrolled' = enrolled, NEW id,
           \A u \in Shopper : pc'[u] = pc[u] /\ op'[u] = op[u] /\ rec'[u] = rec[u]
    PROVE  /\ Owing(id)' = Owing(id) /\ Returning(id)' = Returning(id)
           /\ {p \in enrolled' : p[2] = id} = {p \in enrolled : p[2] = id}
BY DEF Owing, Returning

(* With those and the record's seats as they were, nothing is lost.        *)
LEMMA GapKept ==
    ASSUME NEW id,
           Owing(id)' = Owing(id), Returning(id)' = Returning(id), enrolled' = enrolled,
           data'[cat'][First(data'[cat'], id)].avail = data[cat][First(data[cat], id)].avail
    PROVE  Gap(id)' = Gap(id)
BY DEF Gap

(* What a step explains, as in SeatsLostOnlyBy.                            *)
Explained(id) == LostWrite(id) \/ OldCopy(id) \/ StaleReturn(id) \/ crashes' # crashes

SeatsKept(id) ==
    /\ promise[id] = "offered" /\ promise[id]' = "offered"
    /\ Found(data[cat], id) /\ Found(data'[cat'], id)
    => Gap(id)' = Gap(id) \/ Explained(id)

-----------------------------------------------------------------------------
(* Seats: the teacher's steps *)

(* Between its writes the teacher leaves courses.dat as it is, and goes by *)
(* what it found there.                                                    *)
LEMMA TeacherQuiet ==
    ASSUME OneTeacher, SeatInv, NEW t \in Teacher,
           \/ \E code \in Code : BeginAdd(t, code)
           \/ \E id \in 1..MaxId : BeginRemove(t, id)
           \/ AddScan(t) \/ AddSeek(t) \/ RemoveRead(t) \/ UpdateFind(t)
           \/ OpenOld(t) \/ OpenTmp(t) \/ CopyRecord(t)
    PROVE  /\ cat' = cat /\ data'[cat] = data[cat] /\ enrolled' = enrolled
           /\ \A id : Purging(id) => Purging(id)'
           /\ AtFirst(t)'
           /\ NotOffered'
<1> USE DEF Structure, OpenInv
<1>1. /\ t \in Thread /\ FilesCanFail = FALSE /\ \A f \in Teacher : f = t
      /\ TypeOK /\ AtFirst(t) /\ NotOffered /\ TeacherAt(t) /\ tmp # cat
      /\ data[cat] \in Seq(CourseRecord) /\ data \in Seq(Seq(CourseRecord))
      /\ cat \in DOMAIN data /\ tmp \in {0} \cup DOMAIN data
  BY DEF OneTeacher, SeatInv, Thread, FilesApart, TypeOK
<1>2. TeacherStep(t) \/ (\E code \in Code : BeginAdd(t, code))
                     \/ (\E id \in 1..MaxId : BeginRemove(t, id))
  BY DEF TeacherStep
<1>3. /\ \A id : Purging(id) <=> pc[t] \in PurgeSteps /\ rec[t].id = id
      /\ \A id : Purging(id)' <=> pc'[t] \in PurgeSteps /\ rec'[t].id = id
      /\ \A code : Return(t, code) => pc'[t] = "idle"
  BY <1>1, <1>2, OnlyTeacher
<1>4. pc[t] \in RemoveSteps => op[t] = "remove"
  BY DEF SeatInv, CallsMatch
<1>5. pc[t] \in RemoveSteps => \A id \in 1..MaxId : rec[t].id = id => promise[id] # "offered"
  BY <1>1 DEF NotOffered
<1>6. ASSUME cat' = cat, data'[cat] = data[cat], enrolled' = enrolled,
             pc[t] \in PurgeSteps => pc'[t] \in PurgeSteps /\ rec'[t].id = rec[t].id,
             pc'[t] = "updateWrite" => /\ Found(data[cat], rec'[t].id)
                                       /\ off'[t] = First(data[cat], rec'[t].id),
             pc'[t] \notin {"enroll", "takeSeat"},
             pc'[t] \in RemoveSteps =>
                \A id \in 1..MaxId : rec'[t].id = id => promise'[id] # "offered"
      PROVE  /\ cat' = cat /\ data'[cat] = data[cat] /\ enrolled' = enrolled
             /\ \A id : Purging(id) => Purging(id)'
             /\ AtFirst(t)'
             /\ NotOffered'
  BY <1>1, <1>3, <1>6 DEF AtFirst, NotOffered
<1> USE <1>1, <1>3, <1>5 DEF RemoveSteps, PurgeSteps
<1>7. CASE \E code \in Code : BeginAdd(t, code)
  <2>1. pc[t] = "idle" /\ pc'[t] = "addScan" /\ UNCHANGED <<data, cat, enrolled>>
    BY <1>7 DEF BeginAdd, Begin, Goto, disk, TypeOK
  <2>2. QED
    BY <1>6, <2>1
<1>8. CASE \E id \in 1..MaxId : BeginRemove(t, id)
  <2>1. PICK id \in 1..MaxId : BeginRemove(t, id)
    BY <1>8
  <2>2. pc[t] = "idle" /\ UNCHANGED <<data, cat, enrolled>>
    BY <2>1 DEF BeginRemove, Begin, disk
  <2>3. \/ pc'[t] = "idle"
        \/ /\ pc'[t] = "removeRead" /\ rec'[t] = data[cat][First(data[cat], id)]
           /\ promise' = [promise EXCEPT ![id] = "none"]
           /\ Found(data[cat], id)
    BY <2>1 DEF BeginRemove, Goto, TypeOK
  <2>4. pc'[t] \in RemoveSteps =>
           \A k \in 1..MaxId : rec'[t].id = k => promise'[k] # "offered"
    <3> SUFFICES ASSUME NEW k \in 1..MaxId, pc'[t] \in RemoveSteps, rec'[t].id = k
                 PROVE  promise'[k] # "offered"
      OBVIOUS
    <3>1. k = id
      BY <2>3, FirstIs
    <3>2. QED
      BY <2>3, <3>1 DEF TypeOK
  <2>5. QED
    BY <1>6, <2>2, <2>3, <2>4
<1>9. CASE AddScan(t)
  <2>1. pc[t] = "addScan" /\ pc'[t] \in {"idle", "addSeek"} /\ UNCHANGED <<data, cat, enrolled>>
    BY <1>9 DEF AddScan, Goto, disk, TypeOK
  <2>2. QED
    BY <1>6, <2>1
<1>10. CASE AddSeek(t)
  <2>1. pc[t] = "addSeek" /\ pc'[t] = "addWrite" /\ UNCHANGED <<data, cat, enrolled>>
    BY <1>10 DEF AddSeek, Goto, disk, TypeOK
  <2>2. QED
    BY <1>6, <2>1
<1>11. CASE RemoveRead(t)
  <2>1. pc[t] = "removeRead" /\ UNCHANGED <<data, cat, enrolled, promise>>
    BY <1>11 DEF RemoveRead, disk
  <2>2. \/ pc'[t] = "idle"
        \/ /\ pc'[t] = "updateFind" /\ Found(data[cat], rec[t].id)
           /\ rec'[t] = Deactivated(data[cat][First(data[cat], rec[t].id)])
    BY <1>11 DEF RemoveRead, Goto, TypeOK
  <2>3. \A r \in CourseRecord : Deactivated(r).id = r.id
    BY DEF Deactivated, CourseRecord
  <2>4. pc'[t] = "updateFind" => rec'[t].id = rec[t].id
    BY <2>2, <2>3, FirstIs
  <2>5. QED
    BY <1>6, <2>1, <2>2, <2>4
<1>12. CASE UpdateFind(t)
  <2>1. pc[t] = "updateFind" /\ UNCHANGED <<data, cat, enrolled, promise>> /\ op[t] # "drop"
    BY <1>4, <1>12 DEF UpdateFind, disk
  <2>2. /\ rec'[t] = rec[t]
        /\ \/ pc'[t] = "openOld"
           \/ /\ pc'[t] = "updateWrite" /\ Found(data[cat], rec[t].id)
              /\ off'[t] = First(data[cat], rec[t].id)
    BY <1>12, <2>1 DEF UpdateFind, AfterUpdate, Goto, TypeOK
  <2>3. QED
    BY <1>6, <2>1, <2>2
<1>13. CASE OpenOld(t)
  <2>1. /\ pc[t] = "openOld" /\ pc'[t] = "openTmp" /\ rec'[t] = rec[t]
        /\ UNCHANGED <<data, cat, enrolled, promise>>
    BY <1>13 DEF OpenOld, Goto, disk, TypeOK
  <2>2. QED
    BY <1>6, <2>1
<1>14. CASE OpenTmp(t)
  <2>1. /\ pc[t] = "openTmp" /\ pc'[t] = "copy" /\ rec'[t] = rec[t]
        /\ UNCHANGED <<cat, enrolled, promise>>
    BY <1>14 DEF OpenTmp, Goto, TypeOK
  <2>2. data'[cat] = data[cat]
    <3>1. CASE data' = Append(data, << >>)
      BY <3>1
    <3>2. CASE data' = [data EXCEPT ![tmp] = << >>]
      BY <3>2
    <3>3. QED
      BY <1>14, <3>1, <3>2 DEF OpenTmp
  <2>3. QED
    BY <1>6, <2>1, <2>2
<1>15. CASE CopyRecord(t)
  <2>1. /\ pc[t] = "copy" /\ pc'[t] \in {"copy", "rename"} /\ rec'[t] = rec[t]
        /\ UNCHANGED <<cat, enrolled, promise>>
    BY <1>15 DEF CopyRecord, Goto, TypeOK
  <2>2. fd[t] = tmp
    BY <2>1 DEF TeacherAt
  <2>3. data'[cat] = data[cat]
    BY <1>15, <2>2 DEF CopyRecord
  <2>4. QED
    BY <1>6, <2>1, <2>3
<1>16. QED
  BY <1>7, <1>8, <1>9, <1>10, <1>11, <1>12, <1>13, <1>14, <1>15

(* The record of a new course comes after the others.                      *)
LEMMA AddWriteSeats ==
    ASSUME OneTeacher, SeatInv, NEW t \in Teacher, AddWrite(t)
    PROVE  /\ IdsKept /\ enrolled' = enrolled
           /\ \A i \in DOMAIN data[cat] : data'[cat][i] = data[cat][i]
           /\ \A id : Purging(id) => Purging(id)'
           /\ AtFirst(t)'
           /\ NotOffered'
<1> USE DEF Structure, OpenInv
<1>1. /\ t \in Thread /\ FilesCanFail = FALSE /\ \A f \in Teacher : f = t
      /\ TypeOK /\ TeacherAt(t)
      /\ data[cat] \in Seq(CourseRecord) /\ cat \in DOMAIN data
      /\ rec[t] \in CourseRecord /\ off[t] \in Nat
  BY DEF OneTeacher, SeatInv, Thread, FilesApart, TypeOK
<1>2. /\ pc[t] = "addWrite" /\ pc'[t] = "idle" /\ cat' = cat /\ enrolled' = enrolled
      /\ data' = [data EXCEPT ![fd[t]] = WriteAt(@, off[t], rec[t])]
  BY <1>1 DEF AddWrite, Return, Goto, TypeOK
<1>3. fd[t] = cat /\ off[t] = Len(data[cat]) + 1
  BY <1>1, <1>2 DEF TeacherAt
<1>4. off[t] > Len(data[cat]) /\ off[t] - 1 <= Len(data[cat])
  BY <1>1, <1>3
<1>5. PICK d : d = [data EXCEPT ![cat] = WriteAt(@, off[t], rec[t])]
               /\ RecordAdded(d, cat, off[t], rec[t])
  BY <1>1, <1>4, WriteAtEnd
<1>6. data' = d
  BY <1>2, <1>3, <1>5
<1>7. /\ DOMAIN data[cat] \subseteq DOMAIN data'[cat]
      /\ \A i \in DOMAIN data[cat] : data'[cat][i] = data[cat][i]
  BY <1>5, <1>6 DEF RecordAdded
<1>8. data'[cat] \in Seq(CourseRecord)
  BY <1>1, <1>2, <1>3, WriteIs
<1>9. \A id : ~Purging(id)
  BY <1>1, <1>2 DEF Purging, PurgeSteps
<1>10. QED
  BY <1>1, <1>2, <1>7, <1>8, <1>9 DEF IdsKept, AtFirst, NotOffered, RemoveSteps, PurgeSteps

(* A removal marks the first record of a course that is not on offer.      *)
LEMMA MarkSeats ==
    ASSUME OneTeacher, SeatInv, NEW t \in Teacher, UpdateWrite(t)
    PROVE  /\ IdsKept /\ enrolled' = enrolled
           /\ \A i \in DOMAIN data[cat] :
                 data'[cat][i] = data[cat][i] \/ data[cat][i].id = rec[t].id
           /\ \A id : ~Purging(id)
           /\ \A id : id = rec[t].id => Purging(id)'
           /\ \A id \in 1..MaxId : id = rec[t].id => promise[id] # "offered"
           /\ AtFirst(t)'
           /\ NotOffered'
<1> USE DEF Structure, OpenInv
<1>1. /\ t \in Thread /\ FilesCanFail = FALSE /\ \A f \in Teacher : f = t
      /\ TypeOK /\ TeacherAt(t) /\ AtFirst(t) /\ NotOffered
      /\ data[cat] \in Seq(CourseRecord) /\ cat \in DOMAIN data
      /\ rec[t] \in CourseRecord /\ off[t] \in Nat
  BY DEF OneTeacher, SeatInv, Thread, FilesApart, TypeOK
<1>2. pc[t] = "updateWrite" /\ op[t] = "remove"
  BY <1>1 DEF UpdateWrite, SeatInv, CallsMatch, RemoveSteps
<1>3. /\ pc'[t] = "openOld" /\ rec' = rec /\ cat' = cat
      /\ enrolled' = enrolled /\ promise' = promise
      /\ data' = [data EXCEPT ![fd[t]] = WriteAt(@, off[t], rec[t])]
  BY <1>1, <1>2 DEF UpdateWrite, AfterUpdate, Goto, TypeOK
<1>4. fd[t] = cat /\ off[t] \in DOMAIN data[cat]
  BY <1>1, <1>2 DEF TeacherAt
<1>5. data[cat][off[t]].id = rec[t].id
  <2>1. Found(data[cat], rec[t].id) /\ off[t] = First(data[cat], rec[t].id)
    BY <1>1, <1>2, <1>4 DEF AtFirst
  <2>2. QED
    BY <1>1, <2>1, FirstIs
<1>6. PICK d : d = [data EXCEPT ![cat] = WriteAt(@, off[t], rec[t])]
               /\ RecordChanged(d, cat, off[t], rec[t])
  BY <1>1, <1>4, WriteInside
<1>7. data' = d
  BY <1>3, <1>4, <1>6
<1>8. /\ DOMAIN data'[cat] = DOMAIN data[cat]
      /\ data'[cat][off[t]] = rec[t]
      /\ \A i \in DOMAIN data[cat] : i # off[t] => data'[cat][i] = data[cat][i]
  BY <1>1, <1>6, <1>7 DEF RecordChanged
<1>9. data'[cat] \in Seq(CourseRecord)
  BY <1>1, <1>3, <1>4, WriteIs
<1>10. /\ \A id : ~Purging(id)
       /\ \A id : id = rec[t].id => Purging(id)'
  BY <1>1, <1>2, <1>3 DEF Purging, PurgeSteps
<1>11. \A id \in 1..MaxId : id = rec[t].id => promise[id] # "offered"
  BY <1>1, <1>2 DEF NotOffered, RemoveSteps
<1>12. NotOffered'
  BY <1>1, <1>3, <1>11 DEF NotOffered
<1>13. QED
  BY <1>1, <1>3, <1>5, <1>8, <1>9, <1>10, <1>11, <1>12 DEF IdsKept, AtFirst

(* The name courses.dat goes over to a file that no student has open.      *)
LEMMA RenameSeats ==
    ASSUME OneTeacher, SeatInv, NEW t \in Teacher, Rename(t)
    PROVE  /\ data' = data /\ cat' = tmp /\ cat' # cat /\ enrolled' = enrolled
           /\ pc'[t] = "idle"
           /\ NotOffered'
<1> USE DEF Structure, OpenInv
<1>1. /\ t \in Thread /\ FilesCanFail = FALSE /\ \A f \in Teacher : f = t
      /\ TypeOK /\ TeacherAt(t) /\ tmp # cat
  BY DEF OneTeacher, SeatInv, Thread, FilesApart, TypeOK
<1>2. pc[t] = "rename" /\ tmp # 0
  BY <1>1 DEF Rename, TeacherAt
<1>3. data' = data /\ cat' = tmp /\ enrolled' = enrolled /\ pc'[t] = "idle"
  BY <1>1, <1>2 DEF Rename, Answer, Return, Goto, TypeOK
<1>4. QED
  BY <1>1, <1>3 DEF NotOffered, RemoveSteps, PurgeSteps

(* No step of the teacher loses a seat but the rename of an old copy.      *)
LEMMA TeacherSeats ==
    ASSUME OneTeacher, SeatInv, Structure', NEW t \in Teacher,
           \/ \E code \in Code : BeginAdd(t, code)
           \/ \E id \in 1..MaxId : BeginRemove(t, id)
           \/ TeacherStep(t)
    PROVE  SeatInv' /\ \A id \in 1..MaxId : SeatsKept(id)
<1> USE DEF Structure, OpenInv
<1>1. /\ t \in Thread /\ Thread = Teacher \cup Shopper /\ TypeOK /\ TypeOK'
      /\ \A f \in Teacher : f = t
      /\ \A u \in Thread : AtFirst(u)
      /\ \A u \in Shopper : SeatsFresh(u) /\ ShopperAt(u) /\ u \in Thread \ {t}
      /\ data[cat] \in Seq(CourseRecord) /\ data'[cat'] \in Seq(CourseRecord)
  <2>1. t \in Thread /\ Thread = Teacher \cup Shopper /\ \A u \in Shopper : u \in Thread \ {t}
    BY CatalogAssumption DEF Thread
  <2>2. TypeOK /\ \A u \in Shopper : ShopperAt(u)
    BY DEF SeatInv, FilesApart
  <2>3. TypeOK'
    OBVIOUS
  <2>4. data[cat] \in Seq(CourseRecord)
    BY <2>2 DEF TypeOK
  <2>5. data'[cat'] \in Seq(CourseRecord)
    BY <2>3 DEF TypeOK
  <2>6. \A f \in Teacher : f = t
    BY DEF OneTeacher
  <2>7. (\A u \in Thread : AtFirst(u)) /\ (\A u \in Shopper : SeatsFresh(u))
    BY DEF SeatInv
  <2>8. QED
    BY <2>1, <2>2, <2>3, <2>4, <2>5, <2>6, <2>7
<1>2. \A u \in Shopper : /\ pc'[u] = pc[u] /\ op'[u] = op[u] /\ rec'[u] = rec[u]
                         /\ fd'[u] = fd[u] /\ off'[u] = off[u]
  BY <1>1, OnlyItsOwn
<1>3. ASSUME enrolled' = enrolled
      PROVE  \A id : Owing(id)' = Owing(id) /\ Returning(id)' = Returning(id)
  BY <1>2, <1>3, CountsKept
<1>4. ASSUME IdsKept PROVE \A u \in Shopper : AtFirst(u)'
  BY <1>1, <1>2, <1>4, AtFirstKept
<1>5. ASSUME cat' = cat, NEW u \in Shopper, NEW id, rec[u].id = id,
             pc[u] \in {"enroll", "takeSeat"} /\ fd[u] = cat =>
                \/ /\ data'[cat][off[u]] = data[cat][off[u]]
                   /\ Purging(id) => Purging(id)'
                \/ Purging(id)'
      PROVE  SeatsFresh(u)'
  BY <1>1, <1>2, <1>5 DEF SeatsFresh, Purging
<1>6. ASSUME enrolled' = enrolled, NEW id \in 1..MaxId,
             data'[cat'][First(data'[cat'], id)] = data[cat][First(data[cat], id)]
      PROVE  Gap(id)' = Gap(id)
  BY <1>3, <1>6, GapKept
<1>7. ASSUME IdsKept, enrolled' = enrolled, NEW id \in 1..MaxId,
             Found(data[cat], id) =>
                data'[cat][First(data[cat], id)] = data[cat][First(data[cat], id)]
      PROVE  SeatsKept(id)
  <2> SUFFICES ASSUME Found(data[cat], id) PROVE Gap(id)' = Gap(id)
    BY DEF SeatsKept
  <2>1. First(data'[cat'], id) = First(data[cat], id) /\ cat' = cat
    BY <1>1, <1>7, FirstStays DEF IdsKept
  <2>2. data'[cat'][First(data'[cat'], id)] = data[cat][First(data[cat], id)]
    BY <1>7, <2>1
  <2>3. QED
    BY <1>6, <1>7, <2>2
<1>8. ASSUME Structure', AtFirst(t)', NotOffered',
             \A u \in Shopper : AtFirst(u)' /\ SeatsFresh(u)'
      PROVE  SeatInv'
  BY <1>1, <1>8 DEF SeatInv
<1>9. \A u \in Shopper : pc[u] \in {"enroll", "takeSeat"} /\ fd[u] = cat =>
                            off[u] \in DOMAIN data[cat]
  BY <1>1 DEF ShopperAt
<1>10. CASE \/ \E code \in Code : BeginAdd(t, code)
            \/ \E id \in 1..MaxId : BeginRemove(t, id)
            \/ AddScan(t) \/ AddSeek(t) \/ RemoveRead(t) \/ UpdateFind(t)
            \/ OpenOld(t) \/ OpenTmp(t) \/ CopyRecord(t)
  <2>1. /\ cat' = cat /\ data'[cat] = data[cat] /\ enrolled' = enrolled
        /\ \A id : Purging(id) => Purging(id)'
        /\ AtFirst(t)' /\ NotOffered'
    BY <1>10, TeacherQuiet
  <2>2. IdsKept
    BY <1>1, <2>1 DEF IdsKept
  <2>3. \A u \in Shopper : AtFirst(u)'
    BY <1>4, <2>2
  <2>4. ASSUME NEW u \in Shopper PROVE SeatsFresh(u)'
    <3>1. data'[cat][off[u]] = data[cat][off[u]]
      BY <2>1
    <3>2. QED
      BY <1>5, <2>1, <3>1
  <2>5. ASSUME NEW id \in 1..MaxId PROVE SeatsKept(id)
    BY <1>7, <2>1, <2>2
  <2>6. QED
    BY <1>3, <1>8, <2>1, <2>3, <2>4, <2>5
<1>11. CASE AddWrite(t)
  <2>1. /\ IdsKept /\ enrolled' = enrolled
        /\ \A i \in DOMAIN data[cat] : data'[cat][i] = data[cat][i]
        /\ \A id : Purging(id) => Purging(id)'
        /\ AtFirst(t)' /\ NotOffered'
    BY <1>11, AddWriteSeats
  <2>2. \A u \in Shopper : AtFirst(u)'
    BY <1>4, <2>1
  <2>3. ASSUME NEW u \in Shopper PROVE SeatsFresh(u)'
    <3>1. cat' = cat
      BY <2>1 DEF IdsKept
    <3>2. pc[u] \in {"enroll", "takeSeat"} /\ fd[u] = cat =>
             data'[cat][off[u]] = data[cat][off[u]]
      BY <1>9, <2>1
    <3>3. QED
      BY <1>5, <2>1, <3>1, <3>2
  <2>4. \A id : Found(data[cat], id) => First(data[cat], id) \in DOMAIN data[cat]
    BY <1>1, FirstIs
  <2>5. ASSUME NEW id \in 1..MaxId PROVE SeatsKept(id)
    BY <1>7, <2>1, <2>4
  <2>6. QED
    BY <1>3, <1>8, <2>1, <2>2, <2>3, <2>5
<1>12. CASE UpdateWrite(t)
  <2>1. /\ IdsKept /\ enrolled' = enrolled
        /\ \A i \in DOMAIN data[cat] :
              data'[cat][i] = data[cat][i] \/ data[cat][i].id = rec[t].id
        /\ \A id : ~Purging(id)
        /\ \A id : id = rec[t].id => Purging(id)'
        /\ \A id \in 1..MaxId : id = rec[t].id => promise[id] # "offered"
        /\ AtFirst(t)' /\ NotOffered'
    BY <1>12, MarkSeats
  <2>2. ASSUME NEW u \in Shopper PROVE SeatsFresh(u)'
    <3> SUFFICES ASSUME NEW id, rec[u].id = id PROVE SeatsFresh(u)'
      OBVIOUS
    <3>1. ASSUME pc[u] \in {"enroll", "takeSeat"}, fd[u] = cat
          PROVE  data'[cat][off[u]] = data[cat][off[u]] \/ Purging(id)'
      <4>1. Found(data[cat], rec[u].id) /\ off[u] = First(data[cat], rec[u].id)
        BY <1>1, <3>1 DEF AtFirst
      <4>2. data[cat][off[u]].id = rec[u].id
        BY <1>1, <4>1, FirstIs
      <4>3. CASE data[cat][off[u]].id = rec[t].id
        <5>1. id = rec[t].id
          BY <4>2, <4>3
        <5>2. QED
          BY <2>1, <5>1
      <4>4. CASE data[cat][off[u]].id # rec[t].id
        BY <1>9, <2>1, <3>1, <4>4
      <4>5. QED
        BY <4>3, <4>4
    <3>2. cat' = cat
      BY <2>1 DEF IdsKept
    <3>3. QED
      BY <1>5, <2>1, <3>1, <3>2
  <2>3. ASSUME NEW id \in 1..MaxId PROVE SeatsKept(id)
    <3>1. CASE promise[id] = "offered" /\ Found(data[cat], id)
      <4>1. /\ First(data[cat], id) \in DOMAIN data[cat]
            /\ data[cat][First(data[cat], id)].id = id
        BY <1>1, <3>1, FirstIs
      <4>2. data'[cat][First(data[cat], id)] = data[cat][First(data[cat], id)]
        BY <2>1, <3>1, <4>1
      <4>3. QED
        BY <1>7, <2>1, <4>2
    <3>2. QED
      BY <3>1 DEF SeatsKept
  <2>4. QED
    BY <1>3, <1>4, <1>8, <2>1, <2>2, <2>3
<1>13. CASE Rename(t)
  <2>1. /\ data' = data /\ cat' = tmp /\ cat' # cat /\ enrolled' = enrolled
        /\ pc'[t] = "idle" /\ NotOffered'
    BY <1>13, RenameSeats
  <2>2. \A u \in Shopper : AtFirst(u)' /\ SeatsFresh(u)'
    BY <1>1, <1>2, <2>1 DEF AtFirst, SeatsFresh, ShopperAt
  <2>3. AtFirst(t)'
    BY <2>1 DEF AtFirst
  <2>4. ASSUME NEW id \in 1..MaxId PROVE SeatsKept(id)
    <3>1. CASE OldCopy(id)
      BY <3>1 DEF SeatsKept, Explained
    <3>2. CASE ~OldCopy(id)
      <4>1. data'[cat'][First(data'[cat'], id)] = data[cat][First(data[cat], id)]
        BY <2>1, <3>2 DEF OldCopy
      <4>2. QED
        BY <1>6, <2>1, <4>1 DEF SeatsKept
    <3>3. QED
      BY <3>1, <3>2
  <2>5. QED
    BY <1>3, <1>8, <2>1, <2>2, <2>3, <2>4
<1>14. QED
  BY <1>10, <1>11, <1>12, <1>13 DEF TeacherStep

-----------------------------------------------------------------------------
(* Seats: the students' steps *)

(* Sets that differ in one element at most.                                *)
LEMMA CountsOfOne ==
    ASSUME NEW S, NEW T, NEW x, IsFiniteSet(S), IsFiniteSet(T), S \ {x} = T \ {x}
    PROVE  /\ Cardinality(S) \in Nat /\ Cardinality(T) \in Nat
           /\ x \in S /\ x \notin T => Cardinality(T) = Cardinality(S) - 1
           /\ x \notin S /\ x \in T => Cardinality(T) = Cardinality(S) + 1
           /\ (x \in S <=> x \in T) => Cardinality(T) = Cardinality(S)
<1>1. Cardinality(S) \in Nat /\ Cardinality(T) \in Nat
  BY FS_CardinalityType
<1>2. ASSUME x \in S, x \notin T
      PROVE  Cardinality(T) = Cardinality(S) - 1
  <2>1. T = S \ {x}
    BY <1>2
  <2>2. QED
    BY <1>2, <2>1, FS_RemoveElement
<1>3. ASSUME x \notin S, x \in T
      PROVE  Cardinality(T) = Cardinality(S) + 1
  <2>1. T = S \cup {x}
    BY <1>3
  <2>2. QED
    BY <1>3, <2>1, FS_AddElement
<1>4. ASSUME x \in S <=> x \in T
      PROVE  S = T
  BY <1>4
<1>5. QED
  BY <1>1, <1>2, <1>3, <1>4

(* A condition, counted.                                                   *)
One(b) == IF b THEN 1 ELSE 0

(* What Gap counts of one student.                                         *)
Owes(t, id)    == t \in Owing(id)
Returns(t, id) == t \in Returning(id)
Has(t, id)     == <<t, id>> \in enrolled
Net(t, id)     == One(Has(t, id)) - One(Owes(t, id)) + One(Returns(t, id))

(* A seat goes from the file to a call, to a pair, or back.                *)
LEMMA GapMoves ==
    ASSUME TypeOK, TypeOK', IsFiniteSet(Shopper), NEW t \in Shopper, NEW id \in 1..MaxId,
           \A u \in Shopper \ {t} : pc'[u] = pc[u] /\ op'[u] = op[u] /\ rec'[u] = rec[u],
           \A p \in enrolled \cup enrolled' :
              p[2] = id /\ p # <<t, id>> => (p \in enrolled' <=> p \in enrolled),
           Found(data[cat], id), Found(data'[cat'], id),
           data'[cat'][First(data'[cat'], id)].avail + Net(t, id)'
             = data[cat][First(data[cat], id)].avail + Net(t, id)
    PROVE  Gap(id)' = Gap(id)
<1> DEFINE P == {p \in enrolled : p[2] = id}
           Q == {p \in enrolled' : p[2] = id}
           a == data[cat][First(data[cat], id)].avail
           b == data'[cat'][First(data'[cat'], id)].avail
<1>1. a \in Int /\ b \in Int
  <2>1. data[cat] \in Seq(CourseRecord) /\ data'[cat'] \in Seq(CourseRecord)
    <3>1. data[cat] \in Seq(CourseRecord)
      BY DEF TypeOK
    <3>2. data'[cat'] \in Seq(CourseRecord)
      BY DEF TypeOK
    <3>3. QED
      BY <3>1, <3>2
  <2>2. /\ data[cat][First(data[cat], id)] \in CourseRecord
        /\ data'[cat'][First(data'[cat'], id)] \in CourseRecord
    BY <2>1, FirstIs
  <2>3. QED
    BY <2>2 DEF CourseRecord
<1>2. IsFiniteSet(P) /\ IsFiniteSet(Q)
  <2>1. IsFiniteSet(1..MaxId)
    BY FS_Interval, CatalogAssumption
  <2>2. IsFiniteSet(Shopper \X (1..MaxId))
    BY <2>1, FS_Product
  <2>3. P \subseteq Shopper \X (1..MaxId) /\ Q \subseteq Shopper \X (1..MaxId)
    BY DEF TypeOK
  <2>4. QED
    BY <2>2, <2>3, FS_Subset
<1>3. /\ IsFiniteSet(Owing(id)) /\ IsFiniteSet(Owing(id)')
      /\ IsFiniteSet(Returning(id)) /\ IsFiniteSet(Returning(id)')
  <2>1. /\ Owing(id) \subseteq Shopper /\ Owing(id)' \subseteq Shopper
        /\ Returning(id) \subseteq Shopper /\ Returning(id)' \subseteq Shopper
    BY DEF Owing, Returning
  <2>2. QED
    BY <2>1, FS_Subset
<1>4. P \ {<<t, id>>} = Q \ {<<t, id>>}
  OBVIOUS
<1>5. Owing(id) \ {t} = Owing(id)' \ {t}
  BY DEF Owing
<1>6. Returning(id) \ {t} = Returning(id)' \ {t}
  BY DEF Returning
<1>7. Cardinality(P) \in Nat /\ Cardinality(Q) = Cardinality(P) + One(Has(t, id)') - One(Has(t, id))
  <2>1. (Has(t, id) <=> <<t, id>> \in P) /\ (Has(t, id)' <=> <<t, id>> \in Q)
    BY DEF Has
  <2> HIDE DEF P, Q
  <2>2. /\ Cardinality(P) \in Nat /\ Cardinality(Q) \in Nat
        /\ <<t, id>> \in P /\ <<t, id>> \notin Q => Cardinality(Q) = Cardinality(P) - 1
        /\ <<t, id>> \notin P /\ <<t, id>> \in Q => Cardinality(Q) = Cardinality(P) + 1
        /\ (<<t, id>> \in P <=> <<t, id>> \in Q) => Cardinality(Q) = Cardinality(P)
    BY <1>2, <1>4, CountsOfOne
  <2>3. QED
    BY <2>1, <2>2 DEF One
<1>8. /\ Cardinality(Owing(id)) \in Nat
      /\ Cardinality(Owing(id)') = Cardinality(Owing(id)) + One(Owes(t, id)') - One(Owes(t, id))
  BY <1>3, <1>5, CountsOfOne DEF One, Owes
<1>9. /\ Cardinality(Returning(id)) \in Nat
      /\ Cardinality(Returning(id)')
           = Cardinality(Returning(id)) + One(Returns(t, id)') - One(Returns(t, id))
  BY <1>3, <1>6, CountsOfOne DEF One, Returns
<1>10. Gap(id) = Seats - a - Cardinality(P) + Cardinality(Owing(id)) - Cardinality(Returning(id))
  BY DEF Gap
<1>11. Gap(id)' = Seats - b - Cardinality(Q) + Cardinality(Owing(id)') - Cardinality(Returning(id)')
  BY DEF Gap
<1>12. /\ One(Has(t, id)) \in Int /\ One(Has(t, id)') \in Int
       /\ One(Owes(t, id)) \in Int /\ One(Owes(t, id)') \in Int
       /\ One(Returns(t, id)) \in Int /\ One(Returns(t, id)') \in Int
  BY DEF One
<1>13. b + (One(Has(t, id)') - One(Owes(t, id)') + One(Returns(t, id)'))
          = a + (One(Has(t, id)) - One(Owes(t, id)) + One(Returns(t, id)))
  BY DEF Net
<1>14. Seats \in Int
  BY CatalogAssumption
<1> HIDE DEF a, b, P, Q
<1>15. QED
  BY <1>1, <1>7, <1>8, <1>9, <1>10, <1>11, <1>12, <1>13, <1>14

(* What a student's step leaves alone, and what it does to the file.       *)
LEMMA ShopperFrame ==
    ASSUME OneTeacher, SeatInv, NEW t \in Shopper,
           \/ \E id \in 1..MaxId : BeginEnroll(t, id) \/ BeginDrop(t, id)
           \/ ShopperStep(t)
    PROVE  /\ IdsKept /\ UNCHANGED <<promise, crashes>>
           /\ data' = data \/ pc[t] \in {"takeSeat", "updateWrite"}
           /\ \A id : Purging(id)' <=> Purging(id)
           /\ NotOffered'
           /\ \A u \in Thread \ {t} : AtFirst(u)'
           /\ \A u \in Shopper \ {t} : SeatsFresh(u)'
<1> USE DEF Structure, OpenInv
<1>1. /\ t \in Thread /\ Teacher \cap Shopper = {} /\ Thread = Teacher \cup Shopper
      /\ FilesCanFail = FALSE /\ TypeOK /\ FilesApart /\ OneInside /\ NotOffered
      /\ NoThread \notin Thread
  BY CatalogAssumption DEF OneTeacher, SeatInv, Thread
<1>2. /\ data[cat] \in Seq(CourseRecord) /\ cat \in DOMAIN data
      /\ data \in Seq(Seq(CourseRecord))
      /\ rec[t] \in CourseRecord /\ off[t] \in Nat /\ fd[t] \in {0} \cup DOMAIN data
  BY <1>1 DEF TypeOK
<1>3. \A u \in Thread \ {t} : /\ pc'[u] = pc[u] /\ op'[u] = op[u] /\ rec'[u] = rec[u]
                              /\ fd'[u] = fd[u] /\ off'[u] = off[u]
  BY <1>1, OnlyItsOwn
<1>4. \A f \in Teacher : f \in Thread \ {t}
  BY <1>1
<1>5. CASE \/ \E id \in 1..MaxId : BeginEnroll(t, id) \/ BeginDrop(t, id)
           \/ LockCourse(t) \/ ReadCourse(t) \/ Enroll(t) \/ Drop(t)
           \/ LockCourseToReturn(t) \/ UpdateFind(t)
  <2>1. UNCHANGED <<data, cat, promise, crashes>>
    BY <1>5 DEF BeginEnroll, BeginDrop, Begin, LockCourse, ReadCourse, Enroll, Drop,
                LockCourseToReturn, UpdateFind, disk, past
  <2>2. IdsKept
    BY <1>2, <2>1 DEF IdsKept
  <2>3. \A id : Purging(id)' <=> Purging(id)
    BY <1>3, <1>4 DEF Purging
  <2>4. NotOffered'
    BY <1>1, <1>3, <1>4, <2>1 DEF NotOffered
  <2>5. ASSUME NEW u \in Thread \ {t} PROVE AtFirst(u)'
    BY <1>1, <1>3, <2>2, AtFirstKept DEF SeatInv
  <2>6. ASSUME NEW u \in Shopper \ {t} PROVE SeatsFresh(u)'
    <3>1. SeatsFresh(u) /\ u \in Thread \ {t}
      BY <1>1 DEF SeatInv
    <3>2. QED
      BY <1>3, <1>4, <2>1, <3>1 DEF SeatsFresh, Purging
  <2>7. QED
    BY <2>1, <2>2, <2>3, <2>4, <2>5, <2>6
<1>6. CASE TakeSeat(t) \/ UpdateWrite(t)
  <2>1. UNCHANGED <<cat, promise, crashes>> /\ pc[t] \in {"takeSeat", "updateWrite"}
    BY <1>6 DEF TakeSeat, UpdateWrite, past
  <2>2. PICK r \in CourseRecord : /\ r.id = rec[t].id
                                  /\ data' = [data EXCEPT ![fd[t]] = WriteAt(@, off[t], r)]
    <3>1. OneFewer(rec[t]) \in CourseRecord
      BY <1>2, CopyIs
    <3>2. OneFewer(rec[t]).id = rec[t].id
      BY <1>2 DEF OneFewer, CourseRecord
    <3>3. CASE TakeSeat(t)
      BY <1>1, <3>1, <3>2, <3>3 DEF TakeSeat
    <3>4. CASE UpdateWrite(t)
      BY <1>1, <1>2, <3>4 DEF UpdateWrite
    <3>5. QED
      BY <1>6, <3>3, <3>4
  <2>3. Structure
    BY DEF SeatInv
  <2>4. /\ DOMAIN data' = DOMAIN data
        /\ \A k \in DOMAIN data : DOMAIN data'[k] = DOMAIN data[k]
        /\ fd[t] # cat => data'[cat] = data[cat]
        /\ off[t] \in DOMAIN data[fd[t]]
        /\ data'[fd[t]][off[t]] = r
        /\ \A j \in DOMAIN data[fd[t]] : j # off[t] => data'[fd[t]][j] = data[fd[t]][j]
    BY <2>1, <2>2, <2>3, WriteOfShopper
  <2>5. IdsKept
    <3>1. data'[cat] \in Seq(CourseRecord)
      <4>1. data' \in Seq(Seq(CourseRecord))
        BY <1>1, <1>2, <2>2, WriteType
      <4>2. QED
        BY <1>2, <2>4, <4>1
    <3>2. ASSUME fd[t] = cat PROVE data[cat][off[t]].id = rec[t].id
      <4>1. AtFirst(t)
        BY <1>1 DEF SeatInv
      <4>2. Found(data[cat], rec[t].id) /\ off[t] = First(data[cat], rec[t].id)
        BY <2>1, <3>2, <4>1 DEF AtFirst
      <4>3. QED
        BY <1>2, <4>2, FirstIs
    <3>3. ASSUME NEW i \in DOMAIN data[cat] PROVE data'[cat][i].id = data[cat][i].id
      BY <2>2, <2>4, <3>2
    <3>4. QED
      BY <1>2, <2>1, <2>4, <3>1, <3>3 DEF IdsKept
  <2>6. \A id : Purging(id)' <=> Purging(id)
    BY <1>3, <1>4 DEF Purging
  <2>7. NotOffered'
    BY <1>1, <1>3, <1>4, <2>1 DEF NotOffered
  <2>8. ASSUME NEW u \in Thread \ {t} PROVE AtFirst(u)'
    BY <1>1, <1>3, <2>5, AtFirstKept DEF SeatInv
  <2>9. ASSUME NEW u \in Shopper \ {t} PROVE SeatsFresh(u)'
    <3>1. pc[u] \notin {"enroll", "takeSeat"}
      BY <1>1, <2>1 DEF OneInside
    <3>2. u \in Thread \ {t}
      BY <1>1
    <3>3. QED
      BY <1>3, <3>1, <3>2 DEF SeatsFresh
  <2>10. QED
    BY <2>1, <2>5, <2>6, <2>7, <2>8, <2>9
<1>7. QED
  BY <1>5, <1>6 DEF ShopperStep

(* A step of a student that writes to no course: one place to another of   *)
(* the seats it owes, returns or has, and a record looked up afresh.       *)
NetKept(t) ==
    \A id \in 1..MaxId :
        Found(data[cat], id) =>
            /\ Net(t, id)' = Net(t, id)
            /\ \A p \in enrolled \cup enrolled' :
                  p[2] = id /\ p # <<t, id>> => (p \in enrolled' <=> p \in enrolled)

(* Nothing owed, returned or enrolled on either side of the step.          *)
LEMMA NetIdle ==
    ASSUME NEW t \in Shopper, enrolled' = enrolled,
           pc[t] \notin {"takeSeat", "waitCourseToReturn", "updateFind", "updateWrite"},
           pc'[t] \notin {"takeSeat", "waitCourseToReturn", "updateFind", "updateWrite"}
    PROVE  NetKept(t)
BY DEF NetKept, Net, Has, Owes, Returns, Owing, Returning

(* enroll_student up to its write: a new pair, and the seat owed for it.   *)
LEMMA EnrollMoves ==
    ASSUME OneTeacher, SeatInv, NEW t \in Shopper,
           \/ \E id \in 1..MaxId : BeginEnroll(t, id)
           \/ LockCourse(t) \/ ReadCourse(t) \/ Enroll(t)
    PROVE  /\ NetKept(t)
           /\ AtFirst(t)'
           /\ SeatsFresh(t)'
<1> USE DEF Structure, OpenInv
<1>1. t \in Thread /\ FilesCanFail = FALSE /\ TypeOK /\ AtFirst(t) /\ SeatsFresh(t)
  BY DEF OneTeacher, SeatInv, Thread
<1>2. data[cat] \in Seq(CourseRecord)
  BY <1>1 DEF TypeOK
<1>3. \A code : Return(t, code) => pc'[t] = "idle"
  BY <1>1 DEF TypeOK, Return, Goto
<1>4. \A f \in Teacher : pc'[f] = pc[f] /\ rec'[f] = rec[f]
  <2>1. \A f \in Teacher : f \in Thread \ {t}
    BY CatalogAssumption DEF Thread
  <2>2. ShopperStep(t) \/ \E id \in 1..MaxId : BeginEnroll(t, id)
    BY DEF ShopperStep
  <2>3. QED
    BY <1>1, <2>1, <2>2, OnlyItsOwn
<1>5. CASE (\E id \in 1..MaxId : BeginEnroll(t, id)) \/ LockCourse(t)
  <2>1. /\ pc[t] \in {"idle", "waitCourse"} /\ pc'[t] \in {"waitCourse", "readCourse"}
        /\ enrolled' = enrolled
    BY <1>1, <1>5 DEF BeginEnroll, Begin, LockCourse, Goto, TypeOK, disk
  <2>2. QED
    BY <2>1, NetIdle DEF AtFirst, SeatsFresh
<1>6. CASE ReadCourse(t)
  <2>1. /\ pc[t] = "readCourse" /\ UNCHANGED <<data, cat, enrolled>>
        /\ \/ pc'[t] = "idle"
           \/ /\ pc'[t] = "enroll" /\ Found(data[cat], rec[t].id)
              /\ rec'[t] = data[cat][First(data[cat], rec[t].id)]
              /\ off'[t] = First(data[cat], rec[t].id)
    BY <1>1, <1>3, <1>6 DEF ReadCourse, Goto, TypeOK, disk
  <2>2. NetKept(t)
    BY <2>1, NetIdle
  <2>3. CASE pc'[t] = "idle"
    BY <2>2, <2>3 DEF AtFirst, SeatsFresh
  <2>4. CASE /\ pc'[t] = "enroll" /\ Found(data[cat], rec[t].id)
             /\ rec'[t] = data[cat][First(data[cat], rec[t].id)]
             /\ off'[t] = First(data[cat], rec[t].id)
    <3>1. rec'[t].id = rec[t].id
      BY <1>2, <2>4, FirstIs
    <3>2. QED
      BY <2>1, <2>2, <2>4, <3>1 DEF AtFirst, SeatsFresh
  <2>5. QED
    BY <2>1, <2>3, <2>4
<1>7. CASE Enroll(t)
  <2>1. pc[t] = "enroll" /\ UNCHANGED <<data, cat>>
    BY <1>7 DEF Enroll
  <2>2. \/ pc'[t] = "idle" /\ enrolled' = enrolled
        \/ /\ pc'[t] = "takeSeat" /\ UNCHANGED <<rec, fd, off>>
           /\ <<t, rec[t].id>> \notin enrolled
           /\ enrolled' = enrolled \cup {<<t, rec[t].id>>}
    BY <1>1, <1>3, <1>7 DEF Enroll, Goto, TypeOK, locals
  <2>3. CASE pc'[t] = "idle" /\ enrolled' = enrolled
    BY <2>1, <2>3, NetIdle DEF AtFirst, SeatsFresh
  <2>4. CASE /\ pc'[t] = "takeSeat" /\ UNCHANGED <<rec, fd, off>>
             /\ <<t, rec[t].id>> \notin enrolled
             /\ enrolled' = enrolled \cup {<<t, rec[t].id>>}
    <3>1. AtFirst(t)' /\ SeatsFresh(t)'
      BY <1>1, <1>4, <2>1, <2>4 DEF AtFirst, SeatsFresh, Purging
    <3>2. ASSUME NEW id \in 1..MaxId PROVE Net(t, id)' = Net(t, id)
      <4>1. /\ ~Owes(t, id) /\ ~Returns(t, id) /\ ~Returns(t, id)'
            /\ Owes(t, id)' <=> rec[t].id = id
        BY <2>1, <2>4 DEF Owes, Returns, Owing, Returning
      <4>2. /\ rec[t].id = id => ~Has(t, id) /\ Has(t, id)'
            /\ rec[t].id # id => (Has(t, id)' <=> Has(t, id))
        BY <2>4 DEF Has
      <4>3. QED
        BY <4>1, <4>2 DEF Net, One
    <3>3. ASSUME NEW id \in 1..MaxId, NEW p \in enrolled \cup enrolled',
                 p[2] = id, p # <<t, id>>
          PROVE  p \in enrolled' <=> p \in enrolled
      BY <2>4, <3>3
    <3>4. QED
      BY <3>1, <3>2, <3>3 DEF NetKept
  <2>5. QED
    BY <2>2, <2>3, <2>4
<1>8. QED
  BY <1>5, <1>6, <1>7

(* unenroll_student up to its write: a pair gone, and the seat to return.  *)
LEMMA DropMoves ==
    ASSUME OneTeacher, SeatInv, NEW t \in Shopper,
           \/ \E id \in 1..MaxId : BeginDrop(t, id)
           \/ Drop(t) \/ LockCourseToReturn(t) \/ UpdateFind(t)
    PROVE  /\ NetKept(t)
           /\ AtFirst(t)'
           /\ SeatsFresh(t)'
<1> USE DEF Structure, OpenInv
<1>1. t \in Thread /\ FilesCanFail = FALSE /\ TypeOK
  BY DEF OneTeacher, SeatInv, Thread
<1>2. pc[t] \in DropSteps => op[t] = "drop"
  BY DEF SeatInv, CallsMatch
<1>3. \A code : Return(t, code) => pc'[t] = "idle"
  BY <1>1 DEF TypeOK, Return, Goto
<1>4. CASE \E id \in 1..MaxId : BeginDrop(t, id)
  <2>1. pc[t] = "idle" /\ pc'[t] \in {"idle", "drop"} /\ enrolled' = enrolled
    BY <1>1, <1>3, <1>4 DEF BeginDrop, Begin, Goto, TypeOK, disk
  <2>2. QED
    BY <2>1, NetIdle DEF AtFirst, SeatsFresh
<1>5. CASE Drop(t)
  <2>1. pc[t] = "drop" /\ op' = op /\ op[t] = "drop"
    BY <1>2, <1>5 DEF Drop, DropSteps
  <2>2. \/ pc'[t] = "idle" /\ enrolled' = enrolled
        \/ /\ pc'[t] = "waitCourseToReturn" /\ rec' = rec
           /\ <<t, rec[t].id>> \in enrolled
           /\ enrolled' = enrolled \ {<<t, rec[t].id>>}
    BY <1>1, <1>3, <1>5 DEF Drop, Goto, TypeOK, locals
  <2>3. CASE pc'[t] = "idle" /\ enrolled' = enrolled
    BY <2>1, <2>3, NetIdle DEF AtFirst, SeatsFresh
  <2>4. CASE /\ pc'[t] = "waitCourseToReturn" /\ rec' = rec
             /\ <<t, rec[t].id>> \in enrolled
             /\ enrolled' = enrolled \ {<<t, rec[t].id>>}
    <3>1. AtFirst(t)' /\ SeatsFresh(t)'
      BY <2>4 DEF AtFirst, SeatsFresh
    <3>2. ASSUME NEW id \in 1..MaxId PROVE Net(t, id)' = Net(t, id)
      <4>1. /\ ~Owes(t, id) /\ ~Owes(t, id)' /\ ~Returns(t, id)
            /\ Returns(t, id)' <=> rec[t].id = id
        BY <2>1, <2>4 DEF Owes, Returns, Owing, Returning
      <4>2. /\ rec[t].id = id => Has(t, id) /\ ~Has(t, id)'
            /\ rec[t].id # id => (Has(t, id)' <=> Has(t, id))
        BY <2>4 DEF Has
      <4>3. QED
        BY <4>1, <4>2 DEF Net, One
    <3>3. ASSUME NEW id \in 1..MaxId, NEW p \in enrolled \cup enrolled',
                 p[2] = id, p # <<t, id>>
          PROVE  p \in enrolled' <=> p \in enrolled
      BY <2>4, <3>3
    <3>4. QED
      BY <3>1, <3>2, <3>3 DEF NetKept
  <2>5. QED
    BY <2>2, <2>3, <2>4
<1>6. CASE LockCourseToReturn(t)
  <2>1. /\ pc[t] = "waitCourseToReturn" /\ pc'[t] = "updateFind"
        /\ UNCHANGED <<enrolled, op, rec>>
    BY <1>1, <1>6 DEF LockCourseToReturn, Goto, TypeOK, disk, locals
  <2>2. QED
    BY <2>1 DEF NetKept, Net, Has, Owes, Returns, Owing, Returning, AtFirst, SeatsFresh
<1>7. CASE UpdateFind(t)
  <2>1. pc[t] = "updateFind" /\ op[t] = "drop" /\ UNCHANGED <<data, cat, enrolled, op>>
    BY <1>2, <1>7 DEF UpdateFind, DropSteps, disk
  <2>2. \/ ~Found(data[cat], rec[t].id) /\ pc'[t] = "idle"
        \/ /\ Found(data[cat], rec[t].id) /\ pc'[t] = "updateWrite" /\ rec' = rec
           /\ off'[t] = First(data[cat], rec[t].id)
    BY <1>1, <1>3, <1>7, <2>1 DEF UpdateFind, AfterUpdate, Goto, TypeOK
  <2>3. CASE ~Found(data[cat], rec[t].id) /\ pc'[t] = "idle"
    <3>1. ASSUME NEW id \in 1..MaxId, Found(data[cat], id)
          PROVE  Net(t, id)' = Net(t, id)
      <4>1. rec[t].id # id
        BY <2>3, <3>1
      <4>2. QED
        BY <2>1, <2>3, <4>1 DEF Net, Has, Owes, Returns, Owing, Returning
    <3>2. QED
      BY <2>1, <2>3, <3>1 DEF NetKept, AtFirst, SeatsFresh
  <2>4. CASE /\ Found(data[cat], rec[t].id) /\ pc'[t] = "updateWrite" /\ rec' = rec
             /\ off'[t] = First(data[cat], rec[t].id)
    <3>1. AtFirst(t)' /\ SeatsFresh(t)'
      BY <2>1, <2>4 DEF AtFirst, SeatsFresh
    <3>2. NetKept(t)
      BY <2>1, <2>4 DEF NetKept, Net, Has, Owes, Returns, Owing, Returning
    <3>3. QED
      BY <3>1, <3>2
  <2>5. QED
    BY <2>2, <2>3, <2>4
<1>8. QED
  BY <1>4, <1>5, <1>6, <1>7

(* The write that ends a student's call.                                   *)
WritesBack(t, r) == /\ pc[t] \in {"takeSeat", "updateWrite"}
                    /\ IdsKept
                    /\ data' = [data EXCEPT ![fd[t]] = WriteAt(@, off[t], r)]

(* What the write of record r by t leaves of the course with this id.       *)
WroteTo(t, r, id) ==
    /\ rec[t].id = id /\ fd[t] = cat =>
          /\ off[t] = First(data[cat], id)
          /\ data'[cat'][First(data'[cat'], id)] = r
    /\ rec[t].id # id =>
          data'[cat'][First(data'[cat'], id)] = data[cat][First(data[cat], id)]

(* A student's write to the record of another course, or to a file that is *)
(* no longer courses.dat, leaves the seats of a course as they are.        *)
LEMMA WriteElsewhere ==
    ASSUME SeatInv, NEW t \in Shopper, NEW r \in CourseRecord,
           WritesBack(t, r), NEW id, Found(data[cat], id)
    PROVE  WroteTo(t, r, id)
<1> DEFINE i == First(data[cat], id)
<1>1. /\ pc[t] \in {"takeSeat", "updateWrite"} /\ IdsKept /\ cat' = cat
      /\ data' = [data EXCEPT ![fd[t]] = WriteAt(@, off[t], r)]
  BY DEF WritesBack, IdsKept
<1>2. Structure /\ TypeOK /\ t \in Thread /\ AtFirst(t)
  BY DEF SeatInv, Structure, OpenInv, Thread
<1>3. data[cat] \in Seq(CourseRecord)
  BY <1>2 DEF TypeOK
<1>4. /\ fd[t] # cat => data'[cat] = data[cat]
      /\ data'[fd[t]][off[t]] = r
      /\ \A j \in DOMAIN data[fd[t]] : j # off[t] => data'[fd[t]][j] = data[fd[t]][j]
  BY <1>1, <1>2, WriteOfShopper DEF Structure
<1>5. First(data'[cat'], id) = i
  BY <1>1, <1>2, FirstStays
<1>6. i \in DOMAIN data[cat] /\ data[cat][i].id = id
  BY <1>3, FirstIs
<1>7. fd[t] = cat => Found(data[cat], rec[t].id) /\ off[t] = First(data[cat], rec[t].id)
  BY <1>1, <1>2 DEF AtFirst
<1>8. fd[t] = cat => data[cat][off[t]].id = rec[t].id
  BY <1>3, <1>7, FirstIs
<1> HIDE DEF i
<1>9. ASSUME rec[t].id = id, fd[t] = cat
      PROVE  off[t] = i /\ data'[cat'][i] = r
  <2>1. off[t] = i
    BY <1>7, <1>9 DEF i
  <2>2. QED
    BY <1>1, <1>4, <1>9, <2>1
<1>10. ASSUME rec[t].id # id
       PROVE  data'[cat'][i] = data[cat][i]
  <2>1. CASE fd[t] # cat
    BY <1>1, <1>4, <2>1
  <2>2. CASE fd[t] = cat
    <3>1. i # off[t]
      BY <1>6, <1>8, <1>10, <2>2
    <3>2. QED
      BY <1>1, <1>4, <1>6, <2>2, <3>1
  <2>3. QED
    BY <2>1, <2>2
<1>11. QED
  BY <1>5, <1>9, <1>10 DEF i, WroteTo

(* The write of enroll_student: the seat owed is taken, from a record whose*)
(* seats are those it read.                                                *)
LEMMA TakeSeatSeats ==
    ASSUME OneTeacher, SeatInv, TypeOK', IsFiniteSet(Shopper), NEW t \in Shopper, TakeSeat(t)
    PROVE  /\ AtFirst(t)' /\ SeatsFresh(t)'
           /\ \A id \in 1..MaxId : SeatsKept(id)
<1> USE DEF Structure, OpenInv
<1>1. /\ t \in Thread /\ FilesCanFail = FALSE /\ TypeOK /\ SeatsFresh(t) /\ NotOffered
      /\ Teacher \cap Shopper = {} /\ Thread = Teacher \cup Shopper
  BY CatalogAssumption DEF OneTeacher, SeatInv, Thread
<1>2. /\ data[cat] \in Seq(CourseRecord) /\ rec[t] \in CourseRecord
  BY <1>1 DEF TypeOK
<1>3. IdsKept /\ UNCHANGED <<promise, crashes>>
  BY ShopperFrame DEF ShopperStep
<1>4. \A u \in Shopper \ {t} : pc'[u] = pc[u] /\ op'[u] = op[u] /\ rec'[u] = rec[u]
  <2>1. \A u \in Shopper \ {t} : u \in Thread \ {t}
    BY <1>1
  <2>2. QED
    BY <1>1, <2>1, OnlyItsOwn DEF ShopperStep
<1>5. /\ pc[t] = "takeSeat" /\ pc'[t] = "idle" /\ cat' = cat /\ enrolled' = enrolled
      /\ data' = [data EXCEPT ![fd[t]] = WriteAt(@, off[t], OneFewer(rec[t]))]
  BY <1>1 DEF TakeSeat, Return, Goto, TypeOK
<1>6. OneFewer(rec[t]) \in CourseRecord /\ OneFewer(rec[t]).avail = rec[t].avail - 1
  <2>1. OneFewer(rec[t]).avail = rec[t].avail - 1
    BY <1>2 DEF OneFewer, CourseRecord
  <2>2. QED
    BY <1>2, <2>1, CopyIs
<1>7. ASSUME NEW id \in 1..MaxId, promise[id] = "offered",
             Found(data[cat], id), Found(data'[cat'], id), ~LostWrite(id)
      PROVE  Gap(id)' = Gap(id)
  <2> DEFINE a == data[cat][First(data[cat], id)].avail
             b == data'[cat'][First(data'[cat'], id)].avail
  <2>1. rec[t].id = id => fd[t] = cat
    BY <1>5, <1>7 DEF LostWrite
  <2>2. /\ rec[t].id = id /\ fd[t] = cat =>
              /\ off[t] = First(data[cat], id)
              /\ data'[cat'][First(data'[cat'], id)] = OneFewer(rec[t])
        /\ rec[t].id # id =>
              data'[cat'][First(data'[cat'], id)] = data[cat][First(data[cat], id)]
    <3> DEFINE r == OneFewer(rec[t])
    <3>1. r \in CourseRecord /\ WritesBack(t, r)
      BY <1>3, <1>5, <1>6 DEF WritesBack
    <3> HIDE DEF r, a, b
    <3>2. /\ rec[t].id = id /\ fd[t] = cat =>
                /\ off[t] = First(data[cat], id)
                /\ data'[cat'][First(data'[cat'], id)] = r
          /\ rec[t].id # id =>
                data'[cat'][First(data'[cat'], id)] = data[cat][First(data[cat], id)]
      <4>1. WroteTo(t, r, id)
        BY <1>7, <3>1, WriteElsewhere
      <4>2. QED
        BY <4>1 DEF WroteTo
    <3>3. QED
      BY <3>2 DEF r
  <2>3. rec[t].id = id => rec[t].avail = a
    <3> SUFFICES ASSUME rec[t].id = id PROVE rec[t].avail = a
      OBVIOUS
    <3>1. ~Purging(id)
      BY <1>1, <1>7 DEF NotOffered, Purging, RemoveSteps
    <3>2. off[t] = First(data[cat], id) /\ fd[t] = cat
      BY <2>1, <2>2
    <3>3. QED
      BY <1>1, <1>5, <3>1, <3>2 DEF SeatsFresh
  <2>4. a \in Int
    <3>1. data[cat][First(data[cat], id)] \in CourseRecord
      BY <1>2, <1>7, FirstIs
    <3>2. QED
      BY <3>1 DEF CourseRecord
  <2>5. /\ Owes(t, id) <=> rec[t].id = id
        /\ ~Owes(t, id)' /\ ~Returns(t, id) /\ ~Returns(t, id)'
        /\ Has(t, id)' <=> Has(t, id)
    BY <1>5 DEF Owes, Returns, Has, Owing, Returning
  <2>6. b + Net(t, id)' = a + Net(t, id)
    <3> HIDE DEF a, b
    <3>1. CASE rec[t].id = id
      <4>1. b = a - 1
        BY <1>6, <2>1, <2>2, <2>3, <3>1 DEF b
      <4>2. Net(t, id)' = Net(t, id) + 1 /\ Net(t, id) \in Int
        BY <2>5, <3>1 DEF Net, One
      <4>3. QED
        BY <2>4, <4>1, <4>2
    <3>2. CASE rec[t].id # id
      <4>1. b = a
        BY <2>2, <3>2 DEF a, b
      <4>2. Net(t, id)' = Net(t, id)
        BY <2>5, <3>2 DEF Net, One
      <4>3. QED
        BY <4>1, <4>2
    <3>3. QED
      BY <3>1, <3>2
  <2>7. QED
    BY <1>1, <1>4, <1>5, <1>7, <2>6, GapMoves
<1>8. QED
  BY <1>5, <1>7 DEF AtFirst, SeatsFresh, SeatsKept, Explained

(* The write of unenroll_student: the seat is back, where its copy is fresh.*)
LEMMA ReturnSeats ==
    ASSUME OneTeacher, SeatInv, TypeOK', IsFiniteSet(Shopper), NEW t \in Shopper, UpdateWrite(t)
    PROVE  /\ AtFirst(t)' /\ SeatsFresh(t)'
           /\ \A id \in 1..MaxId : SeatsKept(id)
<1> USE DEF Structure, OpenInv
<1>1. /\ t \in Thread /\ FilesCanFail = FALSE /\ TypeOK
      /\ Teacher \cap Shopper = {} /\ Thread = Teacher \cup Shopper
  BY CatalogAssumption DEF OneTeacher, SeatInv, Thread
<1>2. /\ data[cat] \in Seq(CourseRecord) /\ rec[t] \in CourseRecord
  BY <1>1 DEF TypeOK
<1>3. IdsKept /\ UNCHANGED <<promise, crashes>>
  BY ShopperFrame DEF ShopperStep
<1>4. \A u \in Shopper \ {t} : pc'[u] = pc[u] /\ op'[u] = op[u] /\ rec'[u] = rec[u]
  <2>1. \A u \in Shopper \ {t} : u \in Thread \ {t}
    BY <1>1
  <2>2. QED
    BY <1>1, <2>1, OnlyItsOwn DEF ShopperStep
<1>5. pc[t] = "updateWrite" /\ op[t] = "drop"
  BY DEF UpdateWrite, SeatInv, CallsMatch, DropSteps
<1>6. /\ pc'[t] = "idle" /\ cat' = cat /\ enrolled' = enrolled
      /\ data' = [data EXCEPT ![fd[t]] = WriteAt(@, off[t], rec[t])]
  BY <1>1, <1>5 DEF UpdateWrite, AfterUpdate, Return, Goto, TypeOK
<1>7. ASSUME NEW id \in 1..MaxId,
             Found(data[cat], id), Found(data'[cat'], id), ~LostWrite(id), ~StaleReturn(id)
      PROVE  Gap(id)' = Gap(id)
  <2> DEFINE a == data[cat][First(data[cat], id)].avail
             b == data'[cat'][First(data'[cat'], id)].avail
  <2>1. rec[t].id = id => fd[t] = cat /\ rec[t].avail = a + 1
    BY <1>5, <1>6, <1>7 DEF LostWrite, StaleReturn
  <2>2. /\ rec[t].id = id /\ fd[t] = cat =>
              data'[cat'][First(data'[cat'], id)] = rec[t]
        /\ rec[t].id # id =>
              data'[cat'][First(data'[cat'], id)] = data[cat][First(data[cat], id)]
    <3> DEFINE r == rec[t]
    <3>1. r \in CourseRecord /\ WritesBack(t, r)
      BY <1>2, <1>3, <1>5, <1>6 DEF WritesBack
    <3> HIDE DEF r, a, b
    <3>2. /\ rec[t].id = id /\ fd[t] = cat => data'[cat'][First(data'[cat'], id)] = r
          /\ rec[t].id # id =>
                data'[cat'][First(data'[cat'], id)] = data[cat][First(data[cat], id)]
      <4>1. WroteTo(t, r, id)
        BY <1>7, <3>1, WriteElsewhere
      <4>2. QED
        BY <4>1 DEF WroteTo
    <3>3. QED
      BY <3>2 DEF r
  <2>3. a \in Int
    <3>1. data[cat][First(data[cat], id)] \in CourseRecord
      BY <1>2, <1>7, FirstIs
    <3>2. QED
      BY <3>1 DEF CourseRecord
  <2>4. /\ Returns(t, id) <=> rec[t].id = id
        /\ ~Returns(t, id)' /\ ~Owes(t, id) /\ ~Owes(t, id)'
        /\ Has(t, id)' <=> Has(t, id)
    BY <1>5, <1>6 DEF Owes, Returns, Has, Owing, Returning
  <2>5. b + Net(t, id)' = a + Net(t, id)
    <3> HIDE DEF a, b
    <3>1. CASE rec[t].id = id
      <4>1. b = a + 1
        BY <2>1, <2>2, <3>1 DEF b
      <4>2. Net(t, id)' = Net(t, id) - 1 /\ Net(t, id) \in Int
        BY <2>4, <3>1 DEF Net, One
      <4>3. QED
        BY <2>3, <4>1, <4>2
    <3>2. CASE rec[t].id # id
      <4>1. b = a
        BY <2>2, <3>2 DEF a, b
      <4>2. Net(t, id)' = Net(t, id)
        BY <2>4, <3>2 DEF Net, One
      <4>3. QED
        BY <4>1, <4>2
    <3>3. QED
      BY <3>1, <3>2
  <2>6. QED
    BY <1>1, <1>4, <1>6, <1>7, <2>5, GapMoves
<1>8. QED
  BY <1>6, <1>7 DEF AtFirst, SeatsFresh, SeatsKept, Explained

(* No step of a student loses a seat but those that SeatsLostOnlyBy names. *)
LEMMA ShopperSeats ==
    ASSUME OneTeacher, IsFiniteSet(Shopper), SeatInv, Structure', NEW t \in Shopper,
           \/ \E id \in 1..MaxId : BeginEnroll(t, id) \/ BeginDrop(t, id)
           \/ ShopperStep(t)
    PROVE  SeatInv' /\ \A id \in 1..MaxId : SeatsKept(id)
<1> USE DEF Structure, OpenInv
<1>1. /\ IdsKept /\ UNCHANGED <<promise, crashes>>
      /\ data' = data \/ pc[t] \in {"takeSeat", "updateWrite"}
      /\ NotOffered'
      /\ \A u \in Thread \ {t} : AtFirst(u)'
      /\ \A u \in Shopper \ {t} : SeatsFresh(u)'
  BY ShopperFrame
<1>2. ASSUME AtFirst(t)', SeatsFresh(t)', Structure'
      PROVE  SeatInv'
  BY <1>1, <1>2 DEF SeatInv
<1>3. TypeOK /\ TypeOK' /\ t \in Thread
  BY DEF SeatInv, Thread
<1>4. \A u \in Shopper \ {t} : pc'[u] = pc[u] /\ op'[u] = op[u] /\ rec'[u] = rec[u]
  <2>1. \A u \in Shopper \ {t} : u \in Thread \ {t}
    BY DEF Thread
  <2>2. QED
    BY <1>3, <2>1, OnlyItsOwn
<1>5. CASE \/ \E id \in 1..MaxId : BeginEnroll(t, id) \/ BeginDrop(t, id)
           \/ LockCourse(t) \/ ReadCourse(t) \/ Enroll(t) \/ Drop(t)
           \/ LockCourseToReturn(t) \/ UpdateFind(t)
  <2>1. NetKept(t) /\ AtFirst(t)' /\ SeatsFresh(t)'
    BY <1>5, EnrollMoves, DropMoves
  <2>2. data' = data /\ cat' = cat
    BY <1>5 DEF BeginEnroll, BeginDrop, LockCourse, ReadCourse, Enroll, Drop,
                LockCourseToReturn, UpdateFind, disk
  <2>3. ASSUME NEW id \in 1..MaxId, Found(data[cat], id), Found(data'[cat'], id)
        PROVE  Gap(id)' = Gap(id)
    <3>1. /\ Net(t, id)' = Net(t, id)
          /\ \A p \in enrolled \cup enrolled' :
                p[2] = id /\ p # <<t, id>> => (p \in enrolled' <=> p \in enrolled)
      BY <2>1, <2>3 DEF NetKept
    <3>2. data'[cat'][First(data'[cat'], id)].avail + Net(t, id)'
            = data[cat][First(data[cat], id)].avail + Net(t, id)
      BY <2>2, <3>1
    <3>3. QED
      BY <1>3, <1>4, <2>3, <3>1, <3>2, GapMoves
  <2>4. QED
    BY <1>2, <2>1, <2>3 DEF SeatsKept
<1>6. CASE TakeSeat(t)
  <2>1. /\ AtFirst(t)' /\ SeatsFresh(t)'
        /\ \A id \in 1..MaxId : SeatsKept(id)
    BY <1>3, <1>6, TakeSeatSeats
  <2>2. QED
    BY <1>2, <2>1
<1>7. CASE UpdateWrite(t)
  <2>1. /\ AtFirst(t)' /\ SeatsFresh(t)'
        /\ \A id \in 1..MaxId : SeatsKept(id)
    BY <1>3, <1>7, ReturnSeats
  <2>2. QED
    BY <1>2, <2>1
<1>8. QED
  BY <1>5, <1>6, <1>7 DEF ShopperStep

(* The first state: nobody has anything open.                              *)
LEMMA SeatStart == Init => SeatInv
<1>1. Init => Structure
  BY StructureStart
<1>2. Init => (\A t \in Thread : AtFirst(t)) /\ (\A t \in Shopper : SeatsFresh(t)) /\ NotOffered
  BY DEF Init, AtFirst, SeatsFresh, NotOffered, Thread, RemoveSteps, PurgeSteps
<1>3. QED
  BY <1>1, <1>2 DEF SeatInv

(* Every step, crashes among them.                                         *)
LEMMA SeatStep ==
    ASSUME OneTeacher, IsFiniteSet(Shopper), SeatInv, [Next]_vars
    PROVE  SeatInv' /\ (vars' # vars => \A id \in 1..MaxId : SeatsKept(id))
<1>1. Structure'
  BY StructureStep DEF SeatInv
<1>2. ASSUME NEW t \in Teacher,
             \/ \E code \in Code : BeginAdd(t, code)
             \/ \E id \in 1..MaxId : BeginRemove(t, id)
             \/ TeacherStep(t)
      PROVE  SeatInv' /\ \A id \in 1..MaxId : SeatsKept(id)
  BY <1>1, <1>2, TeacherSeats
<1>3. ASSUME NEW t \in Shopper,
             \/ \E id \in 1..MaxId : BeginEnroll(t, id) \/ BeginDrop(t, id)
             \/ ShopperStep(t)
      PROVE  SeatInv' /\ \A id \in 1..MaxId : SeatsKept(id)
  BY <1>1, <1>3, ShopperSeats
<1>4. CASE Crash
  <2>1. /\ \A t \in Thread : pc'[t] = "idle"
        /\ crashes' # crashes
    <3>1. crashes \in Nat
      BY DEF SeatInv, Structure, OpenInv, TypeOK
    <3>2. QED
      BY <1>4, <3>1 DEF Crash
  <2>2. /\ \A t \in Thread : AtFirst(t)'
        /\ \A t \in Shopper : SeatsFresh(t)'
        /\ NotOffered'
    BY <2>1 DEF AtFirst, SeatsFresh, NotOffered, Thread, RemoveSteps, PurgeSteps
  <2>3. QED
    BY <1>1, <2>1, <2>2 DEF SeatInv, SeatsKept, Explained
<1>5. CASE UNCHANGED vars
  <2>1. /\ \A t \in Thread : AtFirst(t)'
        /\ \A t \in Shopper : SeatsFresh(t)'
        /\ NotOffered'
    BY <1>5 DEF SeatInv, vars, AtFirst, SeatsFresh, NotOffered, Purging
  <2>2. QED
    BY <1>1, <1>5, <2>1 DEF SeatInv
<1>6. QED
  BY <1>2, <1>3, <1>4, <1>5 DEF Next, Waiting

(* What the seats of a course on offer do, for any number of students and  *)
(* of courses and whatever is added, removed and purged meanwhile: they    *)
(* add up after a step as before it, except after a seat written to a file *)
(* that a purge has replaced, a rename of a copy that misses such a write, *)
(* a copy that a drop made too early, or a crash.                          *)
THEOREM SeatsStayOrAreExplained ==
    ASSUME OneTeacher, IsFiniteSet(Shopper)
    PROVE  Spec => SeatsLostOnlyBy
<1> DEFINE Kept == \A id \in 1..MaxId :
          /\ promise[id] = "offered" /\ promise[id]' = "offered"
          /\ Found(data[cat], id) /\ Found(data'[cat'], id)
          /\ Gap(id)' # Gap(id)
          => LostWrite(id) \/ OldCopy(id) \/ StaleReturn(id) \/ crashes' # crashes
<1>1. Init => SeatInv
  BY SeatStart
<1>2. SeatInv /\ [Next]_vars => SeatInv'
  BY SeatStep
<1>3. SeatInv /\ [Next]_vars => [Kept]_vars
  <2> SUFFICES ASSUME SeatInv, [Next]_vars, vars' # vars PROVE Kept
    OBVIOUS
  <2>1. \A id \in 1..MaxId : SeatsKept(id)
    BY SeatStep
  <2>2. QED
    BY <2>1 DEF SeatsKept, Explained
<1>4. QED
  BY <1>1, <1>2, <1>3, PTL DEF Spec, SeatsLostOnlyBy

=============================================================================
