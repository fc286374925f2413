-------------------------------- MODULE Catalog --------------------------------
(***************************************************************************)
(* courses.dat as a file: teachers add and remove courses, and every       *)
(* removal rewrites the file without its INACTIVE records into             *)
(* courses.dat.tmp and renames that over courses.dat, while students       *)
(* enroll and drop through descriptors of whichever file they opened       *)
(* (utils/file_ops_course.c and the course part of                         *)
(* utils/file_ops_enrollment.c).                                           *)
(*                                                                         *)
(* Opening a file and the reads that follow it up to the record looked for *)
(* are one step; so is a seek to the end; every write is one.  fcntl locks *)
(* do not make threads wait for each other and are left out, g_course_mutex*)
(* is taken by the students' calls alone.  All courses have Seats seats;   *)
(* edits of that number are in Enrollment, and so is the order of events   *)
(* inside enrollments.dat, which here is the set of pairs enrolled.        *)
(***************************************************************************)
EXTENDS Integers, Sequences, FiniteSets, FiniteSetsExt, SequencesExt

CONSTANTS
    Teacher,       \* threads serving a faculty member, one session each
    Shopper,       \* threads serving a student, one session each
    NoThread,      \* the holder of a free mutex; the teacher of no course
    Code,          \* course codes a teacher may type
    NoCode,        \* the code of a record of zero bytes
    Seats,         \* max_seats of every course, any number atoi returns
    ListCap,       \* courses that get_all_courses lists at most (100)
    FirstCourses,  \* the records of courses.dat at the start
    FirstEnrolled, \* the pairs <<student, course id>> enrolled then
    FilesCanFail,  \* TRUE if open, fcntl, read, write, rename may fail
    MaxCalls,      \* bound: MaxCalls[t] calls are made by session t
    MaxId,         \* bound: the highest course id in use
    MaxCrashes     \* bound: times the process dies and is restarted

Thread == Teacher \cup Shopper

CourseRecord == [id : 0..MaxId, owner : Teacher \cup {NoThread},
                 code : Code \cup {NoCode}, avail : Int,
                 status : {"ACTIVE", "INACTIVE"}]

(* What a read finds where nothing was ever written: zeroes.               *)
Hole == [id |-> 0, owner |-> NoThread, code |-> NoCode, avail |-> 0,
         status |-> "INACTIVE"]

ASSUME CatalogAssumption ==
    /\ Teacher \cap Shopper = {} /\ NoThread \notin Thread
    /\ NoCode \notin Code
    /\ Seats \in Int /\ ListCap \in Nat \ {0}
    /\ MaxId \in Nat /\ MaxCrashes \in Nat
    /\ FilesCanFail \in BOOLEAN
    /\ MaxCalls \in [Thread -> Nat]
    /\ FirstCourses \in Seq(CourseRecord)
    /\ FirstEnrolled \subseteq Shopper \X (1..MaxId)

VARIABLES
    data,      \* data[f]: the records of file (inode) f
    cat,       \* the file that the name courses.dat stands for
    tmp,       \* the file that courses.dat.tmp stands for; 0: no such name
    enrolled,  \* the pairs <<student, course id>> enrolled
    mutex,     \* the holder of g_course_mutex
    pc,        \* where each thread is
    op,        \* the call it is in
    answer,    \* the status code of its last call
    rec,       \* local Course course
    fd,        \* the file the call has open
    off,       \* index of the record it found there, or where it will write
    old,       \* purge: the file read from
    pos,       \* purge: index of the next record to read
    promise,   \* promise[id]: what the last answer about course id said
    calls,     \* calls made so far by each session
    crashes,   \* crashes so far
    overwritten \* history: a drop has written its copy over another record

past   == <<crashes, overwritten>>
locals == <<rec, fd, off, old, pos>>
disk   == <<data, cat, tmp, enrolled>>
vars   == <<data, cat, tmp, enrolled, mutex, pc, op, answer, rec, fd, off,
            old, pos, promise, calls, crashes, overwritten>>

Steps == {"idle", "addScan", "addSeek", "addWrite", "removeRead", "updateFind",
          "updateWrite", "openOld", "openTmp", "copy", "rename", "waitCourse",
          "readCourse", "enroll", "takeSeat", "drop", "waitCourseToReturn"}
Codes == {"none", "SUCCESS", "FAILURE", "COURSE_EXISTS", "COURSE_NOT_FOUND",
          "COURSE_FULL", "ALREADY_ENROLLED", "NOT_ENROLLED"}

-----------------------------------------------------------------------------
(* Looking things up in a file                                             *)

Active(s) == {i \in DOMAIN s : s[i].status = "ACTIVE"}

(* The scan loops stop at the first record with the id, whatever its status.*)
Named(s, id) == {i \in DOMAIN s : s[i].id = id}
Found(s, id) == Named(s, id) # {}
First(s, id) == Min(Named(s, id))

(* A loop has read n records when it ends: all of them, or those before a  *)
(* read that failed, which every loop takes for the end of the file.       *)
ReadBefore(s) == IF FilesCanFail THEN 0..Len(s) ELSE {Len(s)}

(* get_all_courses: of the n records read the first ListCap ACTIVE ones.   *)
AllCourses(s, n) == {i \in Active(s) : /\ i <= n
                                       /\ Cardinality({j \in Active(s) : j < i}) < ListCap}

(* add_new_course: one more than the highest id of the courses listed.     *)
NextCourseId(n) ==
    1 + Max({0} \cup {data[cat][i].id : i \in AllCourses(data[cat], n)})

(* Mutant: only the id is compared.                                        *)
TakenId(s, r) == \E i \in Active(s) : s[i].id = r.id
Exists(s, r)  == \E i \in Active(s) : s[i].id = r.id \/ s[i].code = r.code

(* A write at index i; beyond the end it leaves a hole of zeroes.          *)
WriteAt(s, i, r) ==
    [j \in 1..Max({i, Len(s)}) |->
        IF j = i THEN r ELSE IF j \in DOMAIN s THEN s[j] ELSE Hole]

-----------------------------------------------------------------------------
Init ==
    /\ data = <<FirstCourses>> /\ cat = 1 /\ tmp = 0
    /\ enrolled = FirstEnrolled
    /\ mutex = NoThread
    /\ pc = [t \in Thread |-> "idle"]
    /\ op = [t \in Thread |-> "none"]
    /\ answer = [t \in Thread |-> "none"]
    /\ rec = [t \in Thread |-> Hole]
    /\ fd = [t \in Thread |-> 0]
    /\ off = [t \in Thread |-> 0]
    /\ old = [t \in Thread |-> 0]
    /\ pos = [t \in Thread |-> 0]
    /\ promise = [id \in 1..MaxId |-> IF \E i \in Active(FirstCourses) :
                                            FirstCourses[i].id = id
                                      THEN "offered" ELSE "none"]
    /\ calls = [t \in Thread |-> 0]
    /\ crashes = 0
    /\ overwritten = FALSE

Goto(t, step) == pc' = [pc EXCEPT ![t] = step]

Begin(t, name) == /\ pc[t] = "idle"
                  /\ calls[t] < MaxCalls[t]
                  /\ calls' = [calls EXCEPT ![t] = @ + 1]
                  /\ op' = [op EXCEPT ![t] = name]
                  /\ UNCHANGED past

(* The call returns; its locals and its descriptor go.                     *)
Return(t, code) == /\ Goto(t, "idle")
                   /\ answer' = [answer EXCEPT ![t] = code]
                   /\ rec' = [rec EXCEPT ![t] = Hole]
                   /\ fd' = [fd EXCEPT ![t] = 0]
                   /\ off' = [off EXCEPT ![t] = 0]
                   /\ old' = [old EXCEPT ![t] = 0]
                   /\ pos' = [pos EXCEPT ![t] = 0]

Acquire(t) == mutex = NoThread /\ mutex' = t
Release    == mutex' = NoThread

-----------------------------------------------------------------------------
(* add_new_course and add_course: the id is chosen before the dialogue.    *)

BeginAdd(t, code) ==
    /\ Begin(t, "add")
    /\ \E n \in ReadBefore(data[cat]) :
          /\ NextCourseId(n) <= MaxId
          /\ rec' = [rec EXCEPT ![t] = [id |-> NextCourseId(n), owner |-> t,
                                        code |-> code, avail |-> Seats,
                                        status |-> "ACTIVE"]]
    /\ answer' = [answer EXCEPT ![t] = "none"]
    /\ Goto(t, "addScan")
    /\ UNCHANGED <<disk, mutex, fd, off, old, pos, promise>>

(* A search that a failing read ends has found nothing.                    *)
AddScan(t) ==
    /\ pc[t] = "addScan"
    /\ \/ FilesCanFail /\ Return(t, "FAILURE")
       \/ Exists(data[cat], rec[t]) /\ Return(t, "COURSE_EXISTS")
       \/ /\ FilesCanFail \/ ~Exists(data[cat], rec[t])
          /\ fd' = [fd EXCEPT ![t] = cat]
          /\ Goto(t, "addSeek")
          /\ UNCHANGED <<answer, rec, off, old, pos>>
    /\ UNCHANGED <<disk, mutex, op, promise, calls, past>>

AddSeek(t) ==
    /\ pc[t] = "addSeek"
    /\ off' = [off EXCEPT ![t] = Len(data[fd[t]]) + 1]
    /\ Goto(t, "addWrite")
    /\ UNCHANGED <<disk, mutex, op, answer, rec, fd, old, pos, promise, calls, past>>

(* The result of the write is not looked at.                               *)
AddWrite(t) ==
    /\ pc[t] = "addWrite"
    /\ \/ data' = [data EXCEPT ![fd[t]] = WriteAt(@, off[t], rec[t])]
       \/ FilesCanFail /\ UNCHANGED data
    /\ promise' = [promise EXCEPT ![rec[t].id] = "offered"]
    /\ Return(t, "SUCCESS")
    /\ UNCHANGED <<cat, tmp, enrolled, mutex, op, calls, past>>

-----------------------------------------------------------------------------
(* remove_course_handler and remove_course                                 *)

(* The handler looks the course up and compares its teacher.               *)
BeginRemove(t, id) ==
    LET s == data[cat] IN
    /\ Begin(t, "remove")
    /\ \/ /\ \/ FilesCanFail /\ Return(t, "COURSE_NOT_FOUND")
             \/ ~Found(s, id) /\ Return(t, "COURSE_NOT_FOUND")
             \/ Found(s, id) /\ s[First(s, id)].owner # t /\ Return(t, "FAILURE")
          /\ UNCHANGED promise
       \/ /\ Found(s, id)
          /\ s[First(s, id)].owner = t
          /\ rec' = [rec EXCEPT ![t] = s[First(s, id)]]
          /\ promise' = [promise EXCEPT ![id] = "none"]
          /\ answer' = [answer EXCEPT ![t] = "none"]
          /\ Goto(t, "removeRead")
          /\ UNCHANGED <<fd, off, old, pos>>
    /\ UNCHANGED <<disk, mutex>>

(* Mutant: a third status, which no reader of the file knows.              *)
Blocked(r)     == [r EXCEPT !.status = "BLOCKED"]
Deactivated(r) == [r EXCEPT !.status = "INACTIVE"]

(* remove_course looks it up once more; this copy is written back.         *)
RemoveRead(t) ==
    LET s == data[cat]  id == rec[t].id IN
    /\ pc[t] = "removeRead"
    /\ \/ FilesCanFail /\ Return(t, "FAILURE")
       \/ FilesCanFail /\ Return(t, "COURSE_NOT_FOUND")
       \/ ~Found(s, id) /\ Return(t, "COURSE_NOT_FOUND")
       \/ /\ Found(s, id)
          /\ rec' = [rec EXCEPT ![t] = Deactivated(s[First(s, id)])]
          /\ Goto(t, "updateFind")
          /\ UNCHANGED <<answer, fd, off, old, pos>>
    /\ UNCHANGED <<disk, mutex, op, promise, calls, past>>

(* What follows update_course: a removal purges whatever the result was and*)
(* keeps the result for its answer; a drop looks at no result.             *)
AfterUpdate(t, code) ==
    \/ /\ op[t] = "remove"
       /\ answer' = [answer EXCEPT ![t] = code]
       /\ Goto(t, "openOld")
       /\ UNCHANGED <<mutex, rec, fd, off, old, pos>>
    \/ op[t] = "drop" /\ Return(t, "SUCCESS") /\ Release

(* update_course: find the record in the file of that name ...             *)
UpdateFind(t) ==
    LET s == data[cat]  id == rec[t].id IN
    /\ pc[t] = "updateFind"
    /\ \/ FilesCanFail /\ AfterUpdate(t, "FAILURE")
       \/ FilesCanFail /\ AfterUpdate(t, "COURSE_NOT_FOUND")
       \/ ~Found(s, id) /\ AfterUpdate(t, "COURSE_NOT_FOUND")
       \/ /\ Found(s, id)
          /\ fd' = [fd EXCEPT ![t] = cat]
          /\ off' = [off EXCEPT ![t] = First(s, id)]
          /\ Goto(t, "updateWrite")
          /\ UNCHANGED <<mutex, answer, rec, old, pos>>
    /\ UNCHANGED <<disk, op, promise, calls, past>>

(* A drop is about to overwrite a record of courses.dat that differs from  *)
(* its copy in more than the seats: another course with the id, or the same*)
(* one removed in between.                                                 *)
Overwrites(t) == /\ op[t] = "drop"
                 /\ fd[t] = cat
                 /\ rec[t] # [data[cat][off[t]] EXCEPT !.avail = rec[t].avail]

(* ... and overwrite it; the result of the write is not looked at.         *)
UpdateWrite(t) ==
    /\ pc[t] = "updateWrite"
    /\ \/ data' = [data EXCEPT ![fd[t]] = WriteAt(@, off[t], rec[t])]
       \/ FilesCanFail /\ UNCHANGED data
    /\ AfterUpdate(t, "SUCCESS")
    /\ overwritten' = (overwritten \/ Overwrites(t))
    /\ UNCHANGED <<cat, tmp, enrolled, op, promise, calls, crashes>>

-----------------------------------------------------------------------------
(* purge_inactive_courses, whose result remove_course does not look at     *)

(* remove_course returns the result that update_course had.                *)
Answer(t) == /\ promise' = IF answer[t] = "SUCCESS"
                           THEN [promise EXCEPT ![rec[t].id] = "gone"] ELSE promise
             /\ Return(t, answer[t])

OpenOld(t) ==
    /\ pc[t] = "openOld"
    /\ \/ FilesCanFail /\ Answer(t)
       \/ /\ old' = [old EXCEPT ![t] = cat]
          /\ pos' = [pos EXCEPT ![t] = 1]
          /\ Goto(t, "openTmp")
          /\ UNCHANGED <<answer, rec, fd, off, promise>>
    /\ UNCHANGED <<disk, mutex, op, calls, past>>

(* O_CREAT | O_TRUNC: a file left there, or being written by another       *)
(* removal, is emptied and shared.  A failing lock unlinks the name.       *)
OpenTmp(t) ==
    /\ pc[t] = "openTmp"
    /\ \/ /\ FilesCanFail
          /\ Answer(t)
          /\ tmp' \in {tmp, 0}
          /\ UNCHANGED data
       \/ /\ \/ /\ tmp = 0
                /\ data' = Append(data, << >>)
                /\ tmp' = Len(data) + 1
             \/ /\ tmp # 0
                /\ data' = [data EXCEPT ![tmp] = << >>]
                /\ UNCHANGED tmp
          /\ fd' = [fd EXCEPT ![t] = tmp']
          /\ off' = [off EXCEPT ![t] = 1]
          /\ Goto(t, "copy")
          /\ UNCHANGED <<answer, rec, old, pos, promise>>
    /\ UNCHANGED <<cat, enrolled, mutex, op, calls, past>>

(* Mutants: the copy keeps the removed courses; it keeps only those.       *)
SurvivesAlways(r) == TRUE
SurvivesIdle(r)   == r.status = "INACTIVE"
Survives(r)       == r.status = "ACTIVE"

(* One turn of the copying loop, or its end: a read that fails is one too. *)
CopyRecord(t) ==
    LET s == data[old[t]] IN
    /\ pc[t] = "copy"
    /\ \/ /\ pos[t] \in DOMAIN s
          /\ pos' = [pos EXCEPT ![t] = @ + 1]
          /\ \/ /\ Survives(s[pos[t]])
                /\ \/ data' = [data EXCEPT ![fd[t]] = WriteAt(@, off[t], s[pos[t]])]
                      /\ off' = [off EXCEPT ![t] = @ + 1]
                   \/ FilesCanFail /\ UNCHANGED <<data, off>>
             \/ ~Survives(s[pos[t]]) /\ UNCHANGED <<data, off>>
          /\ UNCHANGED pc
       \/ /\ FilesCanFail \/ pos[t] \notin DOMAIN s
          /\ Goto(t, "rename")
          /\ UNCHANGED <<data, off, pos>>
    /\ UNCHANGED <<cat, tmp, enrolled, mutex, op, answer, rec, fd, old, promise,
                   calls, past>>

(* The name courses.dat.tmp may be gone: another removal renamed it.       *)
Rename(t) ==
    /\ pc[t] = "rename"
    /\ \/ tmp # 0 /\ cat' = tmp /\ tmp' = 0
       \/ tmp = 0 /\ UNCHANGED <<cat, tmp>>
       \/ FilesCanFail /\ tmp' = 0 /\ UNCHANGED cat
    /\ Answer(t)
    /\ UNCHANGED <<data, enrolled, mutex, op, calls, past>>

-----------------------------------------------------------------------------
(* enroll_student                                                          *)

BeginEnroll(t, id) ==
    /\ Begin(t, "enroll")
    /\ rec' = [rec EXCEPT ![t].id = id]
    /\ answer' = [answer EXCEPT ![t] = "none"]
    /\ Goto(t, "waitCourse")
    /\ UNCHANGED <<disk, mutex, fd, off, old, pos, promise>>

LockCourse(t) ==
    /\ pc[t] = "waitCourse"
    /\ Acquire(t)
    /\ Goto(t, "readCourse")
    /\ UNCHANGED <<disk, op, answer, locals, promise, calls, past>>

(* Mutant: the mutex is not released where the call is refused.            *)
KeepMutex == UNCHANGED mutex
Refuse    == Release

ReadCourse(t) ==
    LET s == data[cat]
        id == rec[t].id
        open == Found(s, id) /\ s[First(s, id)].status = "ACTIVE"
    IN
    /\ pc[t] = "readCourse"
    /\ \/ /\ \/ FilesCanFail /\ Return(t, "FAILURE")
             \/ FilesCanFail /\ Return(t, "COURSE_NOT_FOUND")
             \/ ~open /\ Return(t, "COURSE_NOT_FOUND")
             \/ open /\ s[First(s, id)].avail <= 0 /\ Return(t, "COURSE_FULL")
          /\ Refuse
       \/ /\ open
          /\ s[First(s, id)].avail > 0
          /\ rec' = [rec EXCEPT ![t] = s[First(s, id)]]
          /\ fd' = [fd EXCEPT ![t] = cat]
          /\ off' = [off EXCEPT ![t] = First(s, id)]
          /\ Goto(t, "enroll")
          /\ UNCHANGED <<mutex, answer, old, pos>>
    /\ UNCHANGED <<disk, op, promise, calls, past>>

(* The scan, which a failing read ends, and the append in enrollments.dat. *)
Enroll(t) ==
    LET pair == <<t, rec[t].id>> IN
    /\ pc[t] = "enroll"
    /\ \/ /\ \/ FilesCanFail /\ Return(t, "FAILURE")
             \/ pair \in enrolled /\ Return(t, "ALREADY_ENROLLED")
          /\ Refuse
          /\ UNCHANGED enrolled
       \/ /\ FilesCanFail \/ pair \notin enrolled
          /\ enrolled' = enrolled \cup {pair}
          /\ Goto(t, "takeSeat")
          /\ UNCHANGED <<mutex, answer, locals>>
    /\ UNCHANGED <<data, cat, tmp, op, promise, calls, past>>

(* Mutant: the copy is written back as it was read.                        *)
SameSeats(r)   == r
OneFewer(r)    == [r EXCEPT !.avail = @ - 1]

(* Through the descriptor opened by ReadCourse, whatever its name is now.  *)
TakeSeat(t) ==
    /\ pc[t] = "takeSeat"
    /\ \/ data' = [data EXCEPT ![fd[t]] = WriteAt(@, off[t], OneFewer(rec[t]))]
       \/ FilesCanFail /\ UNCHANGED data
    /\ Release
    /\ Return(t, "SUCCESS")
    /\ UNCHANGED <<cat, tmp, enrolled, op, promise, calls, past>>

-----------------------------------------------------------------------------
(* unenroll_student                                                        *)

(* The course is copied, with one seat added already, before anything else.*)
BeginDrop(t, id) ==
    LET s == data[cat] IN
    /\ Begin(t, "drop")
    /\ \/ FilesCanFail /\ Return(t, "FAILURE")
       \/ FilesCanFail /\ Return(t, "COURSE_NOT_FOUND")
       \/ ~Found(s, id) /\ Return(t, "COURSE_NOT_FOUND")
       \/ /\ Found(s, id)
          /\ rec' = [rec EXCEPT ![t] = [s[First(s, id)] EXCEPT !.avail = @ + 1]]
          /\ answer' = [answer EXCEPT ![t] = "none"]
          /\ Goto(t, "drop")
          /\ UNCHANGED <<fd, off, old, pos>>
    /\ UNCHANGED <<disk, mutex, promise>>

Drop(t) ==
    LET pair == <<t, rec[t].id>> IN
    /\ pc[t] = "drop"
    /\ \/ /\ \/ FilesCanFail /\ Return(t, "FAILURE")
             \/ FilesCanFail /\ Return(t, "NOT_ENROLLED")
             \/ pair \notin enrolled /\ Return(t, "NOT_ENROLLED")
          /\ UNCHANGED enrolled
       \/ /\ pair \in enrolled
          /\ \/ enrolled' = enrolled \ {pair}
             \/ FilesCanFail /\ UNCHANGED enrolled
          /\ Goto(t, "waitCourseToReturn")
          /\ UNCHANGED <<answer, locals>>
    /\ UNCHANGED <<data, cat, tmp, mutex, op, promise, calls, past>>

LockCourseToReturn(t) ==
    /\ pc[t] = "waitCourseToReturn"
    /\ Acquire(t)
    /\ Goto(t, "updateFind")
    /\ UNCHANGED <<disk, op, answer, locals, promise, calls, past>>

-----------------------------------------------------------------------------
(* The process dies and is started again; what was on disk stays.          *)
Crash ==
    /\ crashes < MaxCrashes
    /\ crashes' = crashes + 1
    /\ mutex' = NoThread
    /\ pc' = [t \in Thread |-> "idle"]
    /\ op' = [t \in Thread |-> "none"]
    /\ answer' = [t \in Thread |-> "none"]
    /\ rec' = [t \in Thread |-> Hole]
    /\ fd' = [t \in Thread |-> 0]
    /\ off' = [t \in Thread |-> 0]
    /\ old' = [t \in Thread |-> 0]
    /\ pos' = [t \in Thread |-> 0]
    /\ UNCHANGED <<disk, promise, calls, overwritten>>

Waiting == (\A t \in Thread : pc[t] = "idle") /\ UNCHANGED vars

TeacherStep(t) == \/ AddScan(t) \/ AddSeek(t) \/ AddWrite(t) \/ RemoveRead(t)
                  \/ UpdateFind(t) \/ UpdateWrite(t) \/ OpenOld(t) \/ OpenTmp(t)
                  \/ CopyRecord(t) \/ Rename(t)

ShopperStep(t) == \/ LockCourse(t) \/ ReadCourse(t) \/ Enroll(t) \/ TakeSeat(t)
                  \/ Drop(t) \/ LockCourseToReturn(t) \/ UpdateFind(t)
                  \/ UpdateWrite(t)

Next ==
    \/ \E t \in Teacher :
          \/ \E code \in Code : BeginAdd(t, code)
          \/ \E id \in 1..MaxId : BeginRemove(t, id)
          \/ TeacherStep(t)
    \/ \E t \in Shopper :
          \/ \E id \in 1..MaxId : BeginEnroll(t, id) \/ BeginDrop(t, id)
          \/ ShopperStep(t)
    \/ Crash
    \/ Waiting

Spec == Init /\ [][Next]_vars

(* A thread that can run does run, as in Enrollment.                       *)
FairSpec == /\ Spec
            /\ \A t \in Teacher : WF_vars(TeacherStep(t))
            /\ \A t \in Shopper : WF_vars(ShopperStep(t))

-----------------------------------------------------------------------------
(* Derived state *)

Listed == {data[cat][i].id : i \in Active(data[cat])}

Owing(id)     == {t \in Shopper : pc[t] = "takeSeat" /\ rec[t].id = id}
Returning(id) == {t \in Shopper : /\ op[t] = "drop"
                                  /\ pc[t] \in {"waitCourseToReturn", "updateFind",
                                                "updateWrite"}
                                  /\ rec[t].id = id}

(* Seats of course id that neither the file nor a call accounts for.       *)
Gap(id) == Seats - data[cat][First(data[cat], id)].avail
              - Cardinality({p \in enrolled : p[2] = id})
              + Cardinality(Owing(id)) - Cardinality(Returning(id))

-----------------------------------------------------------------------------
(* Properties *)

(* Every variable has its type.                                            *)
TypeOK ==
    /\ data \in Seq(Seq(CourseRecord))
    /\ cat \in DOMAIN data /\ tmp \in {0} \cup DOMAIN data
    /\ enrolled \subseteq Shopper \X (1..MaxId)
    /\ mutex \in Thread \cup {NoThread}
    /\ pc \in [Thread -> Steps]
    /\ op \in [Thread -> {"none", "add", "remove", "enroll", "drop"}]
    /\ answer \in [Thread -> Codes]
    /\ rec \in [Thread -> CourseRecord]
    /\ fd \in [Thread -> {0} \cup DOMAIN data] /\ old \in [Thread -> {0} \cup DOMAIN data]
    /\ off \in [Thread -> Nat] /\ pos \in [Thread -> Nat]
    /\ promise \in [1..MaxId -> {"none", "offered", "gone"}]
    /\ calls \in [Thread -> Nat] /\ crashes \in Nat /\ overwritten \in BOOLEAN

(* A course that add answered SUCCESS for, and that nobody has begun to    *)
(* remove since, is listed by every reader of courses.dat.                 *)
OfferedOnFile == \A id \in 1..MaxId : promise[id] = "offered" => id \in Listed

(* So it is between two renames, after a crash in the middle of a purge,   *)
(* and whatever the students' writes through old descriptors do, as long as*)
(* no drop has met a record that is not the one it copied.                 *)
OfferedListed == ~overwritten => OfferedOnFile

(* The listed courses have distinct ids and distinct codes, which the check*)
(* of add_course is for, unless a drop has brought an old code back.       *)
CoursesDistinct ==
    \A i, j \in Active(data[cat]) :
        i # j /\ ~overwritten => /\ data[cat][i].id # data[cat][j].id
                                /\ data[cat][i].code # data[cat][j].code

(* A look-up by id, which stops at the first record of any status, gets the*)
(* course on offer and not what a removal left before it.                  *)
OfferedFound ==
    \A id \in 1..MaxId :
        promise[id] = "offered" /\ crashes = 0 /\ ~overwritten =>
            /\ Found(data[cat], id)
            /\ data[cat][First(data[cat], id)].status = "ACTIVE"

(* A write through a descriptor of a file that courses.dat no longer names.*)
LostWrite(id) ==
    \E t \in Shopper : /\ pc[t] \in {"takeSeat", "updateWrite"}
                       /\ rec[t].id = id /\ fd[t] # cat
                       /\ pc'[t] # pc[t]

(* A rename of a copy made before a student's write to the original.       *)
OldCopy(id) ==
    /\ cat' # cat
    /\ data[cat'][First(data[cat'], id)] # data[cat][First(data[cat], id)]

(* A drop that writes back a copy the record has moved away from, or finds *)
(* no record to write to.                                                  *)
StaleReturn(id) ==
    \E t \in Shopper :
        /\ op[t] = "drop" /\ rec[t].id = id
        /\ \/ pc[t] = "updateFind" /\ ~Found(data[cat], id)
           \/ /\ pc[t] = "updateWrite"
              /\ rec[t].avail # data[cat][First(data[cat], id)].avail + 1
        /\ pc'[t] # pc[t]

(* Why the seats of a course on offer stop adding up: a seat written to a  *)
(* file that was replaced, a copy renamed that misses a write, a stale copy*)
(* written by a drop, or a crash inside a call.  Nothing else that adding, *)
(* removing and purging do to the file loses a seat.                       *)
SeatsLostOnlyBy ==
    [][\A id \in 1..MaxId :
          /\ promise[id] = "offered" /\ promise[id]' = "offered"
          /\ Found(data[cat], id) /\ Found(data'[cat'], id)
          /\ Gap(id)' # Gap(id)
          => LostWrite(id) \/ OldCopy(id) \/ StaleReturn(id) \/ crashes' # crashes]_vars

(* The comment of remove_course: "Clean the database to ensure inactive    *)
(* courses are properly purged": a course whose removal was answered       *)
(* SUCCESS is not on offer until it is added again.                        *)
RemovedStaysOut == \A id \in 1..MaxId : promise[id] = "gone" => id \notin Listed

(* Every call returns: the copying loop ends and no mutex is kept.         *)
EveryCallReturns == \A t \in Thread : pc[t] # "idle" ~> pc[t] = "idle"

===============================================================================
