-------------------------------- MODULE Accounts --------------------------------
(***************************************************************************)
(* student.dat: whole records are read, changed in one field and written   *)
(* back by administrators (add, activate, block, modify), by students who  *)
(* change their password, and by the last part of enroll_student and       *)
(* unenroll_student, which alone takes g_student_mutex                     *)
(* (utils/file_ops_student.c, controllers/admin_controller_*.c,            *)
(* controllers/student_controller_*.c).  Students log in with what the     *)
(* record says.  faculty.dat is kept by code of its own                    *)
(* (utils/file_ops_core.c) in the same way, but for blocking, lists and a  *)
(* mutex, which it has not, and for writes that are looked at, which it    *)
(* has; a behaviour is about one of the two files.                         *)
(*                                                                         *)
(* A scan for one record is one step, and so is a write: records are never *)
(* moved in this file.  A student's name goes the way of the password and  *)
(* is left out; enrolled_courses is the set of its courses (its order and  *)
(* its ten places are in Enrollment).                                      *)
(***************************************************************************)
EXTENDS Integers, Sequences, FiniteSets, FiniteSetsExt, SequencesExt

CONSTANTS
    Admin,          \* threads serving an administrator
    Session,        \* threads serving the student menu
    NoThread,       \* the holder of the mutex when it is free
    Password,       \* passwords a user may type
    Course,         \* course ids
    FirstStudents,  \* the records of student.dat at the start
    ListCap,        \* records that get_all_students reads at most (100)
    FilesCanFail,   \* TRUE if open, fcntl, read and write may report an error
    MaxCalls,       \* bound: MaxCalls[t] calls are made by thread t
    MaxId           \* bound: the highest student id in use

Thread == Admin \cup Session

StudentRecord == [id : 1..MaxId, password : Password,
                  status : {"ACTIVE", "INACTIVE"}, list : SUBSET Course]

ASSUME AccountsAssumption ==
    /\ Admin \cap Session = {} /\ NoThread \notin Thread
    /\ Password # {}
    /\ ListCap \in Nat \ {0} /\ MaxId \in Nat \ {0}
    /\ FilesCanFail \in BOOLEAN
    /\ MaxCalls \in [Thread -> Nat]
    /\ FirstStudents \in Seq(StudentRecord)
    /\ \A i, j \in DOMAIN FirstStudents :
          FirstStudents[i].id = FirstStudents[j].id => i = j

VARIABLES
    table,   \* whose records these are: "student" or "faculty"
    file,    \* student.dat, or faculty.dat
    mutex,   \* the holder of g_student_mutex
    user,    \* user[t]: who is logged in on session t; 0: nobody
    pc,      \* where each thread is
    call,    \* the student and the field its call is about; for the list,
             \* the courses to put in and to take out
    rec,     \* local Student student
    off,     \* adding: the records its descriptor has gone past; then where
             \* the record will be written
    told,    \* told[id]: the record as the answers given so far describe it
    calls,   \* calls made so far by each thread
    blind    \* history: the places in the file that were filled, or are about
             \* to be, after a search that had not seen every record before

vars == <<table, file, mutex, user, pc, call, rec, off, told, calls, blind>>

Fields  == {"password", "status", "list"}
Writing == {"write", "dialogue", "password", "writeList", "writeOldList"}
Steps   == Writing \cup {"idle", "addScan", "addSeek", "addWrite", "waitStudent",
                         "reread"}
NoCall  == [id |-> 0, field |-> "none", put |-> {}, take |-> {}]

(* What a local holds before it is assigned.                               *)
Blank == [id |-> 1, password |-> CHOOSE p \in Password : TRUE,
          status |-> "INACTIVE", list |-> {}]

-----------------------------------------------------------------------------
Named(id) == {i \in DOMAIN file : file[i].id = id}
Found(id) == Named(id) # {}
First(id) == Min(Named(id))
Record(id) == file[First(id)]

(* get_all_students stops after ListCap records.                           *)
NextId ==
    1 + Max({0} \cup {file[i].id : i \in {j \in DOMAIN file : j <= ListCap}})

(* If it fails, the handler goes through students[0..count] with a count   *)
(* that was never set: any id may come of what is there.                   *)
IdsChosen == {NextId} \cup (IF FilesCanFail THEN 1..MaxId ELSE {})

(* A search has read n records when it ends: all of them, or those before  *)
(* a read that failed, which is taken for the end of the file.             *)
ReadBefore == IF FilesCanFail THEN 0..Len(file) ELSE {Len(file)}

(* Mutant: the file is only opened, not searched.                          *)
NeverExists(id, n) == FALSE
Exists(id, n)      == \E i \in 1..n : file[i].id = id

(* A faculty record has no list of courses.                                *)
WithoutLists == [i \in DOMAIN FirstStudents |-> [FirstStudents[i] EXCEPT !.list = {}]]

Init ==
    /\ table \in {"student", "faculty"}
    /\ file = IF table = "student" THEN FirstStudents ELSE WithoutLists
    /\ mutex = NoThread
    /\ user = [t \in Session |-> 0]
    /\ pc = [t \in Thread |-> "idle"]
    /\ call = [t \in Thread |-> NoCall]
    /\ rec = [t \in Thread |-> Blank]
    /\ off = [t \in Thread |-> 0]
    /\ told = [id \in 1..MaxId |->
                  IF Found(id) THEN Record(id) ELSE [Blank EXCEPT !.id = id]]
    /\ calls = [t \in Thread |-> 0]
    /\ blind = {}

Goto(t, step) == pc' = [pc EXCEPT ![t] = step]

Begin(t) == /\ pc[t] = "idle"
            /\ calls[t] < MaxCalls[t]
            /\ calls' = [calls EXCEPT ![t] = @ + 1]

Return(t) == /\ Goto(t, "idle")
             /\ call' = [call EXCEPT ![t] = NoCall]
             /\ rec' = [rec EXCEPT ![t] = Blank]
             /\ off' = [off EXCEPT ![t] = 0]

(* get_student_by_id at the start of a call; copy is the record as it is   *)
(* when the call first lets another thread in.                             *)
Get(t, c, step, copy) ==
    \/ /\ FilesCanFail \/ ~Found(c.id)
       /\ Return(t)
    \/ /\ Found(c.id)
       /\ call' = [call EXCEPT ![t] = c]
       /\ rec' = [rec EXCEPT ![t] = copy]
       /\ Goto(t, step)
       /\ UNCHANGED off

About(id, field) == [NoCall EXCEPT !.id = id, !.field = field]
Listing(r, c)    == (r.list \cup c.put) \ c.take

(* Mutant: the write goes where the scan stopped, behind the record.       *)
PutAfter(r) == IF First(r.id) < Len(file) THEN [file EXCEPT ![First(r.id) + 1] = r]
                                          ELSE Append(file, r)
Put(r)      == [file EXCEPT ![First(r.id)] = r]

(* The answer is SUCCESS: the field is now as asked for.                   *)
Tell(t, r) ==
    told' = CASE call[t].field = "none" -> told
              [] call[t].field = "list" ->
                    [told EXCEPT ![r.id].list = Listing(told[r.id], call[t])]
              [] OTHER -> [told EXCEPT ![r.id][call[t].field] = r[call[t].field]]

(* update_student writes the whole record; whether the write worked is not *)
(* looked at, and whether the file could be opened and locked is looked at *)
(* by all but the calls about the list.                                    *)
Update(t, r) ==
    /\ table = "student"
    /\ \/ file' = Put(r) /\ Tell(t, r)
       \/ FilesCanFail /\ Tell(t, r) /\ UNCHANGED file
       \/ FilesCanFail /\ call[t].field # "list" /\ UNCHANGED <<file, told>>
    /\ Return(t)

(* update_faculty looks at the result of its write.  Mutant: it does not. *)
UpdateBlindly(t, r) ==
    /\ table = "faculty"
    /\ \/ file' = Put(r) /\ Tell(t, r)
       \/ FilesCanFail /\ Tell(t, r) /\ UNCHANGED file
    /\ Return(t)
UpdateFaculty(t, r) ==
    /\ table = "faculty"
    /\ \/ file' = Put(r) /\ Tell(t, r)
       \/ FilesCanFail /\ UNCHANGED <<file, told>>
    /\ Return(t)

-----------------------------------------------------------------------------
(* add_student_handler and add_faculty_handler choose an id, wait for what *)
(* is typed, then add_student and add_faculty search, seek and write; none *)
(* looks at the result of the write.                                       *)

NewRecord(t, p) ==
    /\ Begin(t)
    /\ \E id \in IdsChosen \cap (1..MaxId) :
          rec' = [rec EXCEPT ![t] = [id |-> id, password |-> p,
                                     status |-> "ACTIVE", list |-> {}]]
    /\ Goto(t, "addScan")
    /\ UNCHANGED <<table, file, mutex, user, call, off, told, blind>>

BeginAdd(t, p)        == table = "student" /\ NewRecord(t, p)
BeginAddFaculty(t, p) == table = "faculty" /\ NewRecord(t, p)

AddScan(t) ==
    /\ pc[t] = "addScan"
    /\ \/ /\ FilesCanFail \/ Exists(rec[t].id, Len(file))
          /\ Return(t)
       \/ \E n \in ReadBefore :
          /\ ~Exists(rec[t].id, n)
          /\ off' = [off EXCEPT ![t] = n]
          /\ Goto(t, "addSeek")
          /\ UNCHANGED <<call, rec>>
    /\ UNCHANGED <<table, file, mutex, user, told, calls, blind>>

AddSeek(t) ==
    /\ pc[t] = "addSeek"
    /\ off' = [off EXCEPT ![t] = Len(file) + 1]
    /\ blind' = IF off[t] < Len(file) THEN blind \cup {Len(file) + 1}
                                     ELSE blind \ {Len(file) + 1}
    /\ Goto(t, "addWrite")
    /\ UNCHANGED <<table, file, mutex, user, call, rec, told, calls>>

AddWrite(t) ==
    /\ pc[t] = "addWrite"
    /\ \/ file' = IF off[t] \in DOMAIN file THEN [file EXCEPT ![off[t]] = rec[t]]
                                            ELSE Append(file, rec[t])
       \/ FilesCanFail /\ UNCHANGED file
    /\ told' = [told EXCEPT ![rec[t].id] = rec[t]]
    /\ Return(t)
    /\ UNCHANGED <<table, mutex, user, calls, blind>>

AddStudent(t) == table = "student" /\ (AddScan(t) \/ AddSeek(t) \/ AddWrite(t))
AddFaculty(t) == table = "faculty" /\ (AddScan(t) \/ AddSeek(t) \/ AddWrite(t))

-----------------------------------------------------------------------------
(* activate_student and deactivate_student                                 *)

Activated(r) == [r EXCEPT !.status = "ACTIVE"]
(* Mutant: a third status, which no reader of the file knows.              *)
Suspended(r) == [r EXCEPT !.status = "SUSPENDED"]
Blocked(r)   == [r EXCEPT !.status = "INACTIVE"]

BeginActivate(t, id) ==
    /\ table = "student"
    /\ Begin(t)
    /\ Get(t, About(id, "status"), "write", Activated(Record(id)))
    /\ UNCHANGED <<table, file, mutex, user, told, blind>>

BeginBlock(t, id) ==
    /\ table = "student"
    /\ Begin(t)
    /\ Get(t, About(id, "status"), "write", Blocked(Record(id)))
    /\ UNCHANGED <<table, file, mutex, user, told, blind>>

WriteStatus(t) == /\ pc[t] = "write"
                  /\ Update(t, rec[t])
                  /\ UNCHANGED <<table, mutex, user, calls, blind>>

(* modify_student_details, modify_faculty_details: Enter keeps the         *)
(* password, and the copy is written back all the same.                    *)
FetchToModify(t, id, keep) ==
    /\ Begin(t)
    /\ Get(t, About(id, IF keep THEN "none" ELSE "password"), "dialogue",
           Record(id))
    /\ UNCHANGED <<table, file, mutex, user, told, blind>>

Modified(t) == IF call[t].field = "none" THEN {rec[t]}
               ELSE {[rec[t] EXCEPT !.password = p] : p \in Password}

BeginModify(t, id, keep)        == table = "student" /\ FetchToModify(t, id, keep)
BeginModifyFaculty(t, id, keep) == table = "faculty" /\ FetchToModify(t, id, keep)

FinishModify(t) ==
    /\ pc[t] = "dialogue"
    /\ \E r \in Modified(t) : Update(t, r)
    /\ UNCHANGED <<table, mutex, user, calls, blind>>

FinishModifyFaculty(t) ==
    /\ pc[t] = "dialogue"
    /\ \E r \in Modified(t) : UpdateFaculty(t, r)
    /\ UNCHANGED <<table, mutex, user, calls, blind>>

-----------------------------------------------------------------------------
(* student_login, faculty_login: authenticate_student and                  *)
(* authenticate_faculty search for the id.                                 *)

Admits(id, p) == /\ Found(id) /\ Record(id).password = p
                 /\ Record(id).status = "ACTIVE"

Authenticate(t, id, p) ==
    /\ user[t] = 0
    /\ Begin(t)
    /\ \/ Admits(id, p) /\ user' = [user EXCEPT ![t] = id]
       \/ (FilesCanFail \/ ~Admits(id, p)) /\ UNCHANGED user
    /\ UNCHANGED <<table, file, mutex, pc, call, rec, off, told, blind>>

Login(t, id, p)        == table = "student" /\ Authenticate(t, id, p)
LoginFaculty(t, id, p) == table = "faculty" /\ Authenticate(t, id, p)

Logout(t) ==
    /\ user[t] # 0
    /\ pc[t] = "idle"
    /\ user' = [user EXCEPT ![t] = 0]
    /\ UNCHANGED <<table, file, mutex, pc, call, rec, off, told, calls, blind>>

(* change_student_password, change_faculty_password: the old one is        *)
(* compared with the copy; an empty or unconfirmed new one is refused.     *)
BeginPassword(t) ==
    /\ user[t] # 0
    /\ Begin(t)
    /\ Get(t, About(user[t], "password"), "password", Record(user[t]))
    /\ UNCHANGED <<table, file, mutex, user, told, blind>>

Changed(t) == {[rec[t] EXCEPT !.password = p] : p \in Password}

FinishPassword(t) ==
    /\ pc[t] = "password"
    /\ table = "student"
    /\ \/ Return(t) /\ UNCHANGED <<file, told>>
       \/ \E r \in Changed(t) : Update(t, r)
    /\ UNCHANGED <<table, mutex, user, calls, blind>>

FinishFacultyPassword(t) ==
    /\ pc[t] = "password"
    /\ table = "faculty"
    /\ \/ Return(t) /\ UNCHANGED <<file, told>>
       \/ \E r \in Changed(t) : UpdateFaculty(t, r)
    /\ UNCHANGED <<table, mutex, user, calls, blind>>

-----------------------------------------------------------------------------
(* The student's list, after the seat has been taken or returned: whether  *)
(* the list is touched at all when enrolling depends on the copy made at   *)
(* the beginning.                                                          *)

BeginEnroll(t, c) ==
    /\ table = "student"
    /\ user[t] # 0
    /\ Begin(t)
    /\ \/ /\ c \in Record(user[t]).list
          /\ UNCHANGED <<pc, call, rec, off>>
       \/ /\ c \notin Record(user[t]).list
          /\ Get(t, [About(user[t], "list") EXCEPT !.put = {c}], "waitStudent",
                 Record(user[t]))
    /\ UNCHANGED <<table, file, mutex, user, told, blind>>

BeginDrop(t, c) ==
    /\ table = "student"
    /\ user[t] # 0
    /\ Begin(t)
    /\ Get(t, [About(user[t], "list") EXCEPT !.take = {c}], "waitStudent",
           Record(user[t]))
    /\ UNCHANGED <<table, file, mutex, user, told, blind>>

(* Mutant: the mutex makes nobody wait.                                    *)
Barge(t)   == mutex' = t
Acquire(t) == mutex = NoThread /\ mutex' = t

LockStudent(t) ==
    /\ pc[t] = "waitStudent"
    /\ Acquire(t)
    /\ Goto(t, "reread")
    /\ UNCHANGED <<table, file, user, call, rec, off, told, calls, blind>>

(* Whether the second reading worked is not looked at.                     *)
Reread(t) ==
    /\ pc[t] = "reread"
    /\ \/ rec' = [rec EXCEPT ![t] = Record(call[t].id)] /\ Goto(t, "writeList")
       \/ FilesCanFail /\ Goto(t, "writeOldList") /\ UNCHANGED rec
    /\ UNCHANGED <<table, file, mutex, user, call, off, told, calls, blind>>

WriteList(t) ==
    /\ pc[t] \in {"writeList", "writeOldList"}
    /\ Update(t, [rec[t] EXCEPT !.list = Listing(rec[t], call[t])])
    /\ mutex' = NoThread
    /\ UNCHANGED <<table, user, calls, blind>>

-----------------------------------------------------------------------------
Waiting == (\A t \in Thread : pc[t] = "idle") /\ UNCHANGED vars

Next ==
    \/ \E t \in Admin :
          \/ \E p \in Password : BeginAdd(t, p) \/ BeginAddFaculty(t, p)
          \/ \E id \in 1..MaxId :
                \/ BeginActivate(t, id) \/ BeginBlock(t, id)
                \/ \E keep \in BOOLEAN :
                      BeginModify(t, id, keep) \/ BeginModifyFaculty(t, id, keep)
          \/ AddStudent(t) \/ AddFaculty(t)
          \/ WriteStatus(t) \/ FinishModify(t) \/ FinishModifyFaculty(t)
    \/ \E t \in Session :
          \/ \E id \in 1..MaxId, p \in Password : Login(t, id, p) \/ LoginFaculty(t, id, p)
          \/ Logout(t)
          \/ BeginPassword(t) \/ FinishPassword(t) \/ FinishFacultyPassword(t)
          \/ \E c \in Course : BeginEnroll(t, c) \/ BeginDrop(t, c)
          \/ LockStudent(t) \/ Reread(t) \/ WriteList(t)
    \/ Waiting

Spec == Init /\ [][Next]_vars

-----------------------------------------------------------------------------
(* Properties *)

(* Every variable has its type.                                            *)
TypeOK ==
    /\ table \in {"student", "faculty"}
    /\ file \in Seq(StudentRecord)
    /\ mutex \in Thread \cup {NoThread}
    /\ user \in [Session -> 0..MaxId]
    /\ pc \in [Thread -> Steps]
    /\ call \in [Thread -> [id : 0..MaxId, field : Fields \cup {"none"},
                            put : SUBSET Course, take : SUBSET Course]]
    /\ rec \in [Thread -> StudentRecord]
    /\ off \in [Thread -> Nat]
    /\ told \in [1..MaxId -> StudentRecord]
    /\ calls \in [Thread -> Nat]
    /\ blind \subseteq Nat

(* The search of add_student and add_faculty is there because the id       *)
(* chosen by the handler is often taken.  Two records have the same id only*)
(* if the search made for the later one was cut short by a failing read.   *)
IdsDistinct ==
    \A i, j \in DOMAIN file : i < j /\ file[i].id = file[j].id => j \in blind

(* Records stay where they are and keep their ids, and only a call about a *)
(* student changes that student's record: an administrator adding students *)
(* and the sessions of others never do.                                    *)
OthersKept ==
    file' # file =>
        /\ Len(file') >= Len(file)
        /\ \A i \in DOMAIN file :
              /\ file'[i].id = file[i].id
              /\ file'[i] # file[i] =>
                    \E t \in Thread : call[t].id = file[i].id /\ pc'[t] # pc[t]
OthersUntouched == [][OthersKept]_vars

(* The fields of a student that are not what the answers said.             *)
Lost(id) == {f \in Fields : Found(id) /\ Record(id)[f] # told[id][f]}

(* t writes back a field from a copy that the record has moved away from:  *)
(* one it did not mean to change, or the list, which it changes relative to*)
(* what it read.                                                           *)
StaleField(t, id, f) ==
    /\ pc[t] \in Writing
    /\ call[t].id = id
    /\ rec[t][f] # Record(id)[f]
    /\ call[t].field # f \/ f = "list"

(* What an answered change set is undone only by another call writing back *)
(* a stale copy of that field; or, for students, it was never written for  *)
(* an error nobody looked at; or the answer was that a student was added   *)
(* whose record, after a search cut short, has another of its id before it.*)
LossExplained ==
    <<file, told>>' # <<file, told>> =>
        \A id \in 1..MaxId : \A f \in Lost(id)' \ Lost(id) :
           \E t \in Thread :
              /\ pc'[t] # pc[t]
              /\ \/ StaleField(t, id, f)
                 \/ /\ table = "student" /\ FilesCanFail /\ UNCHANGED file
                    /\ pc[t] \in Writing /\ call[t].id = id
                 \/ pc[t] = "addWrite" /\ rec[t].id = id /\ off[t] \in blind
ChangesLostOnlyBy == [][LossExplained]_vars

(* What g_student_mutex gives, and all it gives: from re-reading a list to *)
(* writing it, the record is changed by calls that take no mutex only      *)
(* (block, activate, modify, change password), never by another list call. *)
RereadStaysFresh ==
    file' # file =>
        \A t \in Thread, id \in 1..MaxId :
           /\ pc[t] = "writeList" /\ pc'[t] = "writeList"
           /\ call[t].id = id /\ Record(id)' # Record(id)
           => \E s \in Thread : pc[s] \in {"write", "dialogue", "password"} /\ pc'[s] # pc[s]
ListsApart == [][RereadStaysFresh]_vars

(* The comment in add_student_handler: "Get highest student ID".  The id   *)
(* chosen is above every id in the file.                                   *)
NextIdIsHighest ==
    [][\A t \in Admin :
          pc[t] = "idle" /\ pc'[t] = "addScan" =>
              \A i \in DOMAIN file : file[i].id < rec'[t].id]_vars

=============================================================================
