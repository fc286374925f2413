----------------------------- MODULE AccountsProofs -----------------------------
(***************************************************************************)
(* For any number of sessions, passwords, courses and calls, and one       *)
(* administrator at most: types, distinct ids, who touches whose record,   *)
(* the only ways in which an answered change is lost, and what             *)
(* g_student_mutex keeps apart.                                            *)
(***************************************************************************)
EXTENDS Accounts, Extremes, TLAPS

(* With two administrators adding at once none of this holds: their new    *)
(* records get the same id and the same place.                             *)
OneAdmin == \A s, t \in Admin : s = t

Calls == [id : 0..MaxId, field : Fields \cup {"none"},
          put : SUBSET Course, take : SUBSET Course]

ListSteps == {"waitStudent", "reread", "writeList", "writeOldList"}
Locked    == {"reread", "writeList", "writeOldList"}
AddSteps  == {"addScan", "addSeek", "addWrite"}

(* What a thread in the middle of a call goes by: the record it copied is  *)
(* that of its call and is in the file, the one it adds goes to the end and*)
(* has an id that is not there or that a search cut short has missed, and  *)
(* it has the mutex when it is to have it.                                 *)
CopyInv(t) == pc[t] \in Writing \cup ListSteps =>
                 rec[t].id = call[t].id /\ Found(call[t].id)
AddInv(t)  == /\ pc[t] \in AddSteps => t \in Admin
              /\ pc[t] = "addSeek" /\ Found(rec[t].id) => off[t] < Len(file)
              /\ pc[t] = "addWrite" => /\ off[t] = Len(file) + 1
                                       /\ Found(rec[t].id) => off[t] \in blind
LockInv(t) == pc[t] \in Locked => mutex = t
FieldInv(t) ==
    /\ pc[t] = "write" => call[t].field = "status"
    /\ pc[t] = "dialogue" => call[t].field \in {"none", "password"}
    /\ pc[t] = "password" => call[t].field = "password"
    /\ pc[t] \in ListSteps => call[t].field = "list"
ThreadInv(t) == CopyInv(t) /\ AddInv(t) /\ LockInv(t) /\ FieldInv(t)

UsersFound == \A t \in Session : user[t] # 0 => Found(user[t])

IInv == /\ TypeOK /\ IdsDistinct /\ UsersFound
        /\ \A t \in Thread : ThreadInv(t)

-----------------------------------------------------------------------------
(* The file.                                                               *)

LEMMA FirstFacts ==
    ASSUME file \in Seq(StudentRecord), NEW id, Found(id)
    PROVE  /\ First(id) \in DOMAIN file /\ file[First(id)].id = id
           /\ Record(id) \in StudentRecord /\ Record(id).id = id
<1>1. Named(id) \in SUBSET Nat /\ Named(id) # {}
  BY DEF Found, Named
<1>2. First(id) \in Named(id)
  BY <1>1, MinIsIn DEF First
<1>3. First(id) \in DOMAIN file /\ file[First(id)].id = id
  BY <1>2 DEF Named
<1> QED BY <1>3 DEF Record

LEMMA PutFacts ==
    ASSUME file \in Seq(StudentRecord), IdsDistinct, UNCHANGED blind,
           NEW r \in StudentRecord, Found(r.id), file' = Put(r)
    PROVE  /\ file' \in Seq(StudentRecord) /\ Len(file') = Len(file)
           /\ DOMAIN file' = DOMAIN file
           /\ \A i \in DOMAIN file : file'[i] # file[i] => file[i].id = r.id
           /\ \A i \in DOMAIN file : file'[i].id = file[i].id
           /\ IdsDistinct'
           /\ \A id : /\ Found(id)' = Found(id)
                      /\ Found(id) => Record(id)' = IF id = r.id THEN r ELSE Record(id)
<1> DEFINE k == First(r.id)
<1>1. k \in DOMAIN file /\ file[k].id = r.id
  BY FirstFacts
<1>2. file' = [file EXCEPT ![k] = r]
  BY DEF Put
<1>8. Record(r.id)' = file'[First(r.id)'] /\ k = First(r.id)
  BY DEF Record
<1> HIDE DEF k
<1>3. /\ file' \in Seq(StudentRecord) /\ Len(file') = Len(file)
      /\ DOMAIN file' = DOMAIN file
      /\ \A i \in DOMAIN file : file'[i] = IF i = k THEN r ELSE file[i]
  BY <1>1, <1>2
<1>4. \A i \in DOMAIN file : file'[i] # file[i] => file[i].id = r.id
  BY <1>1, <1>3
<1>5. \A i \in DOMAIN file : file'[i].id = file[i].id
  BY <1>1, <1>3
<1>6. IdsDistinct'
  BY <1>3, <1>5 DEF IdsDistinct
<1>7. ASSUME NEW id
      PROVE  /\ Found(id)' = Found(id)
             /\ Found(id) => Record(id)' = IF id = r.id THEN r ELSE Record(id)
  <2>1. Named(id)' = Named(id)
    BY <1>3, <1>5 DEF Named
  <2>2. Found(id)' = Found(id) /\ First(id)' = First(id)
    BY <2>1 DEF Found, First
  <2>3. ASSUME Found(id)
        PROVE  Record(id)' = IF id = r.id THEN r ELSE Record(id)
    <3>1. First(id) \in DOMAIN file /\ file[First(id)].id = id
      BY <2>3, FirstFacts
    <3>2. Record(id)' = file'[First(id)]
      BY <2>2 DEF Record
    <3>3. CASE id = r.id
      BY <3>2, <3>3, <1>1, <1>3, <1>8
    <3>4. CASE id # r.id
      BY <3>1, <3>2, <3>4, <1>4 DEF Record
    <3> QED BY <3>3, <3>4
  <2> QED BY <2>2, <2>3
<1> QED BY <1>3, <1>4, <1>5, <1>6, <1>7

LEMMA AppendFacts ==
    ASSUME file \in Seq(StudentRecord), IdsDistinct, UNCHANGED blind,
           NEW r \in StudentRecord, Found(r.id) => Len(file) + 1 \in blind,
           file' = Append(file, r)
    PROVE  /\ file' \in Seq(StudentRecord) /\ Len(file') = Len(file) + 1
           /\ \A i \in DOMAIN file : i \in DOMAIN file' /\ file'[i] = file[i]
           /\ IdsDistinct'
           /\ Found(r.id)' /\ (~Found(r.id) => Record(r.id)' = r)
           /\ \A id : /\ id # r.id => Found(id)' = Found(id)
                      /\ Found(id) => Found(id)' /\ Record(id)' = Record(id)
<1> DEFINE n == Len(file)
<1>1. /\ file' \in Seq(StudentRecord) /\ Len(file') = n + 1 /\ n \in Nat
      /\ DOMAIN file = 1..n /\ DOMAIN file' = 1..(n + 1)
      /\ \A i \in 1..n : file'[i] = file[i]
      /\ file'[n + 1] = r
  OBVIOUS
<1>2. Found(r.id) \/ \A i \in 1..n : file[i].id # r.id
  BY <1>1 DEF Found, Named
<1>9. Found(r.id) => n + 1 \in blind
  OBVIOUS
<1>3. \A i \in 1..(n + 1) : i \in 1..n \/ i = n + 1
  BY <1>1
<1> HIDE DEF n
<1>4. IdsDistinct'
  <2> SUFFICES ASSUME NEW i \in 1..(n + 1), NEW j \in 1..(n + 1), i < j,
                      file'[i].id = file'[j].id
               PROVE  j \in blind
    BY <1>1 DEF IdsDistinct
  <2>1. CASE j \in 1..n
    <3>1. i \in 1..n
      BY <2>1, <1>1
    <3> QED BY <2>1, <3>1, <1>1 DEF IdsDistinct
  <2>2. CASE j = n + 1
    <3>1. i \in 1..n
      BY <2>2, <1>1
    <3>2. file[i].id = r.id
      BY <2>2, <3>1, <1>1
    <3> QED BY <2>2, <3>1, <3>2, <1>2, <1>9
  <2> QED BY <2>1, <2>2, <1>3
<1>5. Found(r.id)'
  BY <1>1 DEF Found, Named
<1>6. ASSUME ~Found(r.id) PROVE Record(r.id)' = r
  <2>1. Named(r.id)' = {n + 1}
    BY <1>1, <1>2, <1>3, <1>6 DEF Named
  <2>2. n + 1 \in Int
    BY <1>1
  <2>3. First(r.id)' = n + 1
    BY <2>1, <2>2 DEF First, Min
  <2> QED BY <2>3, <1>1 DEF Record
<1>7. ASSUME NEW id, id # r.id
      PROVE  Found(id)' = Found(id)
  <2>1. Named(id)' = Named(id)
    BY <1>1, <1>3, <1>7 DEF Named
  <2> QED BY <2>1 DEF Found
<1>8. ASSUME NEW id, Found(id)
      PROVE  Found(id)' /\ Record(id)' = Record(id)
  <2>1. First(id) \in 1..n /\ file[First(id)].id = id
    BY <1>8, <1>1, FirstFacts
  <2>2. Named(id) \in SUBSET Nat /\ Named(id) # {}
    BY <1>1, <1>8 DEF Found, Named
  <2>3. First(id) \in Named(id) /\ \A j \in Named(id) : First(id) <= j
    BY <2>2, MinIsIn DEF First
  <2>4. Named(id)' = Named(id) \/ Named(id)' = Named(id) \cup {n + 1}
    BY <1>1, <1>3 DEF Named
  <2>5. Named(id)' \in SUBSET Nat /\ Named(id)' # {}
    BY <1>1, <2>2, <2>4
  <2>6. First(id)' \in Named(id)' /\ \A j \in Named(id)' : First(id)' <= j
    BY <2>5, MinIsIn DEF First
  <2>7. First(id)' = First(id)
    <3> DEFINE p == First(id)
               q == First(id)'
    <3>1. /\ p \in 1..n /\ p \in Named(id)' /\ \A j \in Named(id) : p <= j
          /\ q \in Named(id)' /\ \A j \in Named(id)' : q <= j
      BY <2>1, <2>3, <2>4, <2>6
    <3>2. q \in Named(id) \/ q = n + 1
      BY <2>4, <2>6
    <3>3. Named(id) \subseteq Nat
      BY <2>2
    <3> HIDE DEF p, q
    <3>4. q <= p /\ p < n + 1 /\ (q = n + 1 \/ p <= q) /\ q \in Nat
      BY <3>1, <3>2, <3>3, <1>1
    <3>5. p = q
      BY <3>4, <3>1, <1>1
    <3> QED BY <3>5 DEF p, q
  <2> QED BY <2>1, <2>5, <2>7, <1>1 DEF Found, Record
<1> QED BY <1>1, <1>4, <1>5, <1>6, <1>7, <1>8

-----------------------------------------------------------------------------
(* What a step does to the file and to what the answers said: nothing, but *)
(* for the place to be filled next, which a seek may note; a               *)
(* record is written back, with the field changed that the call is about;  *)
(* or a record is added.                                                   *)

Keeps == UNCHANGED <<file, told>>

Notes(t) == \/ UNCHANGED blind
            \/ t \in Admin /\ blind' = blind \cup {Len(file) + 1}
            \/ t \in Admin /\ blind' = blind \ {Len(file) + 1}

Meant(t, r) ==
    /\ r \in StudentRecord /\ r.id = rec[t].id
    /\ \A f \in Fields : f # call[t].field => r[f] = rec[t][f]
    /\ call[t].field = "list" => r.list = Listing(rec[t], call[t])

WritesBack(t, r) ==
    /\ Meant(t, r)
    /\ \/ file' = Put(r) /\ Tell(t, r)
       \/ table = "student" /\ FilesCanFail /\ Tell(t, r) /\ UNCHANGED file
       \/ Keeps

Rewrites(t) == /\ pc[t] \in Writing /\ pc'[t] = "idle" /\ UNCHANGED blind
               /\ \E r \in StudentRecord : WritesBack(t, r)

Adds(t) == /\ pc[t] = "addWrite" /\ pc'[t] = "idle" /\ UNCHANGED blind
           /\ file' = Append(file, rec[t]) \/ UNCHANGED file
           /\ told' = [told EXCEPT ![rec[t].id] = rec[t]]

Kind(t) == (Keeps /\ Notes(t)) \/ Rewrites(t) \/ Adds(t)

LEMMA RecordTypes ==
    ASSUME NEW r \in StudentRecord
    PROVE  /\ r.id \in 1..MaxId
           /\ r["password"] \in Password
           /\ r["status"] \in {"ACTIVE", "INACTIVE"}
           /\ r["list"] \subseteq Course
BY DEF StudentRecord

LEMMA CallTypes ==
    ASSUME TypeOK, NEW t \in Thread
    PROVE  /\ call[t].id \in 0..MaxId
           /\ call[t].field \in {"password", "status", "list", "none"}
           /\ call[t].put \subseteq Course /\ call[t].take \subseteq Course
BY DEF TypeOK, Fields

LEMMA TellFacts ==
    ASSUME TypeOK, NEW t \in Thread, NEW r \in StudentRecord, Tell(t, r)
    PROVE  /\ told' \in [1..MaxId -> StudentRecord]
           /\ \A id \in 1..MaxId : id # r.id => told'[id] = told[id]
           /\ \A f \in Fields : f # call[t].field => told'[r.id][f] = told[r.id][f]
           /\ call[t].field = "list" => told'[r.id]["list"] = Listing(told[r.id], call[t])
           /\ call[t].field \in {"password", "status"} =>
                 told'[r.id][call[t].field] = r[call[t].field]
<1> DEFINE k == r.id
<1>1. /\ told \in [1..MaxId -> StudentRecord] /\ k \in 1..MaxId
      /\ told[k] \in StudentRecord
  BY RecordTypes DEF TypeOK
<1>2. CASE call[t].field = "none"
  <2>1. told' = told
    BY <1>2 DEF Tell
  <2> QED BY <2>1, <1>1, <1>2
<1>3. CASE call[t].field = "list"
  <2>1. told' = [told EXCEPT ![k].list = Listing(told[k], call[t])]
    BY <1>3 DEF Tell
  <2>2. Listing(told[k], call[t]) \subseteq Course
    BY <1>1, RecordTypes, CallTypes DEF Listing
  <2>3. told'[k] \in StudentRecord
    BY <2>1, <2>2, <1>1 DEF StudentRecord
  <2> QED BY <2>1, <2>2, <2>3, <1>1, <1>3 DEF Fields, StudentRecord
<1>4. CASE call[t].field = "password"
  <2>1. told' = [told EXCEPT ![k]["password"] = r["password"]]
    BY <1>4 DEF Tell
  <2>2. told'[k] \in StudentRecord
    BY <2>1, <1>1, RecordTypes DEF StudentRecord
  <2> QED BY <2>1, <2>2, <1>1, <1>4 DEF Fields, StudentRecord
<1>5. CASE call[t].field = "status"
  <2>1. told' = [told EXCEPT ![k]["status"] = r["status"]]
    BY <1>5 DEF Tell
  <2>2. told'[k] \in StudentRecord
    BY <2>1, <1>1, RecordTypes DEF StudentRecord
  <2> QED BY <2>1, <2>2, <1>1, <1>5 DEF Fields, StudentRecord
<1> QED BY <1>2, <1>3, <1>4, <1>5, CallTypes

(* What such a step leaves as it was.                                      *)
LEMMA FileKept ==
    ASSUME IInv, NEW t \in Thread, Kind(t)
    PROVE  /\ file' \in Seq(StudentRecord)
           /\ told' \in [1..MaxId -> StudentRecord]
           /\ IdsDistinct' /\ blind' \subseteq Nat
           /\ \A id : Found(id) => Found(id)'
           /\ (t \in Admin \/ UNCHANGED blind)
           /\ \/ Adds(t)
              \/ Len(file') = Len(file) /\ \A id : Found(id)' = Found(id)
<1>1. /\ TypeOK /\ IdsDistinct /\ CopyInv(t) /\ AddInv(t)
      /\ file \in Seq(StudentRecord) /\ told \in [1..MaxId -> StudentRecord]
      /\ rec[t] \in StudentRecord /\ blind \subseteq Nat
  BY DEF IInv, ThreadInv, TypeOK
<1>6. /\ blind' \subseteq Nat /\ (t \in Admin \/ UNCHANGED blind)
      /\ \A i \in DOMAIN file : i \in blind => i \in blind'
  <2>1. PICK k : k = Len(file) + 1
    OBVIOUS
  <2>2. k \in Nat /\ k \notin DOMAIN file
    BY <1>1, <2>1
  <2>3. Notes(t)
    BY DEF Kind, Notes, Rewrites, Adds
  <2>4. \/ UNCHANGED blind
        \/ t \in Admin /\ (blind' = blind \cup {k} \/ blind' = blind \ {k})
    BY <2>1, <2>3 DEF Notes
  <2> QED BY <1>1, <2>2, <2>4
<1>2. ASSUME UNCHANGED file
      PROVE  /\ file' \in Seq(StudentRecord) /\ IdsDistinct' /\ Len(file') = Len(file)
             /\ \A id : Found(id)' = Found(id)
  BY <1>1, <1>2, <1>6 DEF IdsDistinct, Found, Named
<1>3. CASE Keeps
  BY <1>1, <1>2, <1>3, <1>6 DEF Keeps
<1>4. CASE Rewrites(t)
  <2>1. PICK r \in StudentRecord : WritesBack(t, r)
    BY <1>4 DEF Rewrites
  <2>2. r.id = rec[t].id /\ Found(r.id) /\ UNCHANGED blind
    BY <2>1, <1>1, <1>4 DEF WritesBack, Meant, Rewrites, CopyInv
  <2>3. CASE file' = Put(r) /\ Tell(t, r)
    <3>1. told' \in [1..MaxId -> StudentRecord]
      BY <1>1, <2>3, TellFacts
    <3> QED BY <1>1, <1>6, <2>2, <2>3, <3>1, PutFacts
  <2>4. CASE Tell(t, r) /\ UNCHANGED file
    <3>1. told' \in [1..MaxId -> StudentRecord]
      BY <1>1, <2>4, TellFacts
    <3> QED BY <1>2, <1>6, <2>4, <3>1
  <2> QED BY <2>1, <2>3, <2>4, <1>3 DEF WritesBack
<1>5. CASE Adds(t)
  <2>1. PICK r \in StudentRecord : r = rec[t]
    BY <1>1
  <2>2. (Found(r.id) => Len(file) + 1 \in blind) /\ UNCHANGED blind
    BY <1>1, <1>5, <2>1 DEF Adds, AddInv
  <2>3. told' \in [1..MaxId -> StudentRecord]
    BY <1>1, <1>5, <2>1 DEF Adds
  <2>4. CASE file' = Append(file, r)
    <3>1. file' \in Seq(StudentRecord) /\ IdsDistinct' /\ Found(r.id)'
      BY <1>1, <2>2, <2>4, AppendFacts
    <3>2. \A id : id # r.id => Found(id)' = Found(id)
      BY <1>1, <2>2, <2>4, AppendFacts
    <3> QED BY <1>5, <1>6, <2>3, <3>1, <3>2
  <2>5. CASE UNCHANGED file
    BY <1>2, <1>6, <2>3, <2>5, <1>5
  <2> QED BY <1>5, <2>1, <2>4, <2>5 DEF Adds
<1> QED BY <1>3, <1>4, <1>5 DEF Kind

-----------------------------------------------------------------------------
(* One thread moves, the others stay where they are.                       *)

Others(t) == \A s \in Thread : s # t => /\ pc'[s] = pc[s] /\ call'[s] = call[s]
                                        /\ rec'[s] = rec[s] /\ off'[s] = off[s]

LocalTypes == /\ pc \in [Thread -> Steps] /\ call \in [Thread -> Calls]
              /\ rec \in [Thread -> StudentRecord] /\ off \in [Thread -> Nat]

MutexStep(t) == \/ mutex' = mutex
                \/ mutex' \in {NoThread, t} /\ mutex \in {NoThread, t}

LEMMA Carried ==
    ASSUME IInv, OneAdmin, NEW t \in Thread,
           UNCHANGED table, Kind(t),
           Others(t), LocalTypes', ThreadInv(t)', MutexStep(t),
           user' \in [Session -> 0..MaxId], calls' \in [Thread -> Nat],
           \A s \in Session : user'[s] \in {0, user[s]} \/ Found(user'[s])
    PROVE  IInv'
<1>1. /\ TypeOK /\ IdsDistinct /\ UsersFound
      /\ \A s \in Thread : CopyInv(s) /\ AddInv(s) /\ LockInv(s) /\ FieldInv(s)
  BY DEF IInv, ThreadInv
<1>2. /\ file' \in Seq(StudentRecord)
      /\ told' \in [1..MaxId -> StudentRecord]
      /\ IdsDistinct' /\ blind' \subseteq Nat
      /\ \A id : Found(id) => Found(id)'
      /\ (t \in Admin \/ UNCHANGED blind)
      /\ \/ Adds(t)
         \/ Len(file') = Len(file) /\ \A id : Found(id)' = Found(id)
  BY FileKept
<1>3. mutex' \in Thread \cup {NoThread}
  BY <1>1 DEF MutexStep, TypeOK
<1>4. TypeOK'
  BY <1>1, <1>2, <1>3 DEF TypeOK, LocalTypes, Calls
<1>5. UsersFound'
  BY <1>1, <1>2 DEF UsersFound
<1>6. ASSUME NEW s \in Thread, s # t
      PROVE  ThreadInv(s)'
  <2>1. /\ pc'[s] = pc[s] /\ call'[s] = call[s] /\ rec'[s] = rec[s] /\ off'[s] = off[s]
    BY <1>6 DEF Others
  <2>2. CopyInv(s)'
    BY <1>1, <1>2, <2>1 DEF CopyInv
  <2>3. AddInv(s)'
    <3>1. CASE pc[s] \in AddSteps
      <4>1. s \in Admin
        BY <1>1, <3>1 DEF AddInv
      <4>2. ~Adds(t)
        <5>1. pc[t] = "addWrite" => t \in Admin
          BY <1>1 DEF AddInv, AddSteps
        <5> QED BY <5>1, <4>1, <1>6 DEF Adds, OneAdmin
      <4>3. UNCHANGED blind
        BY <4>1, <1>2, <1>6 DEF OneAdmin
      <4>4. PICK k : k = rec[s].id
        OBVIOUS
      <4>5. Len(file') = Len(file) /\ Found(k)' = Found(k)
        BY <4>2, <1>2
      <4> QED BY <4>1, <4>3, <4>4, <4>5, <1>1, <2>1 DEF AddInv
    <3>2. CASE pc[s] \notin AddSteps
      BY <3>2, <2>1 DEF AddInv, AddSteps
    <3> QED BY <3>1, <3>2
  <2>4. LockInv(s)'
    BY <1>1, <1>6, <2>1, AccountsAssumption DEF LockInv, MutexStep, Locked
  <2>5. FieldInv(s)'
    BY <1>1, <2>1 DEF FieldInv
  <2> QED BY <2>2, <2>3, <2>4, <2>5 DEF ThreadInv
<1> QED BY <1>2, <1>4, <1>5, <1>6 DEF IInv

LEMMA StillCarried ==
    ASSUME IInv, OneAdmin, NEW t \in Thread, UNCHANGED <<table, mutex, user>>,
           Kind(t), Others(t), LocalTypes', ThreadInv(t)', calls' \in [Thread -> Nat]
    PROVE  IInv'
<1>1. MutexStep(t)
  BY DEF MutexStep
<1>2. user' \in [Session -> 0..MaxId]
  BY DEF IInv, TypeOK
<1>3. \A s \in Session : user'[s] \in {0, user[s]}
  OBVIOUS
<1> QED BY <1>1, <1>2, <1>3, Carried

(* A call that ends, and one that begins.                                  *)
LEMMA Idle ==
    ASSUME NEW t \in Thread, pc'[t] = "idle" PROVE ThreadInv(t)'
BY DEF ThreadInv, CopyInv, AddInv, LockInv, FieldInv, Writing, ListSteps, Locked,
       AddSteps

LEMMA BlankType == Blank \in StudentRecord
<1>1. (CHOOSE p \in Password : TRUE) \in Password
  BY AccountsAssumption
<1>2. 1 \in 1..MaxId
  BY AccountsAssumption
<1> QED BY <1>1, <1>2 DEF Blank, StudentRecord

LEMMA Returned ==
    ASSUME TypeOK, NEW t \in Thread, Return(t)
    PROVE  LocalTypes' /\ Others(t) /\ pc'[t] = "idle" /\ ThreadInv(t)'
<1>1. /\ pc \in [Thread -> Steps] /\ call \in [Thread -> Calls]
      /\ rec \in [Thread -> StudentRecord] /\ off \in [Thread -> Nat]
  BY DEF TypeOK, Calls
<1>2. NoCall \in Calls
  BY AccountsAssumption DEF NoCall, Calls
<1>3. "idle" \in Steps
  BY DEF Steps
<1>4. LocalTypes' /\ pc'[t] = "idle"
  BY <1>1, <1>2, <1>3, BlankType DEF LocalTypes, Return, Goto
<1>5. Others(t)
  BY <1>1 DEF Others, Return, Goto
<1> QED BY <1>4, <1>5, Idle

Starts(step, c) ==
    /\ step \in {"write", "dialogue", "password", "waitStudent"}
    /\ step = "write" => c.field = "status"
    /\ step = "dialogue" => c.field \in {"none", "password"}
    /\ step = "password" => c.field = "password"
    /\ step = "waitStudent" => c.field = "list"

LEMMA Got ==
    ASSUME TypeOK, NEW t \in Thread, NEW c \in Calls, NEW step, NEW copy,
           Starts(step, c),
           Found(c.id) => copy \in StudentRecord /\ copy.id = c.id,
           UNCHANGED file, Get(t, c, step, copy)
    PROVE  LocalTypes' /\ Others(t) /\ ThreadInv(t)'
<1>1. /\ pc \in [Thread -> Steps] /\ call \in [Thread -> Calls]
      /\ rec \in [Thread -> StudentRecord] /\ off \in [Thread -> Nat]
  BY DEF TypeOK, Calls
<1>2. CASE Return(t)
  BY <1>2, Returned
<1>3. CASE /\ Found(c.id) /\ Goto(t, step) /\ UNCHANGED off
           /\ call' = [call EXCEPT ![t] = c] /\ rec' = [rec EXCEPT ![t] = copy]
  <2>1. step \in Steps
    BY DEF Starts, Steps, Writing
  <2>2. LocalTypes' /\ pc'[t] = step /\ call'[t] = c /\ rec'[t] = copy
    BY <1>1, <1>3, <2>1 DEF LocalTypes, Goto
  <2>3. Others(t)
    BY <1>1, <1>3 DEF Others, Goto
  <2>4. Found(c.id)'
    BY <1>3 DEF Found, Named
  <2>5. CopyInv(t)'
    BY <2>2, <2>4, <1>3 DEF CopyInv
  <2>6. AddInv(t)' /\ LockInv(t)' /\ FieldInv(t)'
    BY <2>2 DEF AddInv, LockInv, FieldInv, Starts, AddSteps, Locked, ListSteps
  <2> QED BY <2>2, <2>3, <2>5, <2>6 DEF ThreadInv
<1> QED BY <1>2, <1>3 DEF Get

LEMMA Rewritten ==
    ASSUME IInv, NEW t \in Thread, NEW r \in StudentRecord,
           pc[t] \in Writing, Meant(t, r), Update(t, r) \/ UpdateFaculty(t, r),
           UNCHANGED blind
    PROVE  Rewrites(t) /\ LocalTypes' /\ Others(t) /\ ThreadInv(t)'
<1>1. Return(t)
  BY DEF Update, UpdateFaculty
<1>2. LocalTypes' /\ Others(t) /\ pc'[t] = "idle" /\ ThreadInv(t)'
  BY <1>1, Returned DEF IInv
<1>3. WritesBack(t, r)
  BY DEF WritesBack, Update, UpdateFaculty, Keeps
<1> QED BY <1>2, <1>3 DEF Rewrites

-----------------------------------------------------------------------------
(* Every action keeps IInv, and does one of these things to the file.      *)

LEMMA NewRecordStep ==
    ASSUME IInv, OneAdmin, NEW t \in Admin, NEW p \in Password, NewRecord(t, p)
    PROVE  IInv' /\ Kind(t)
<1>1. /\ pc \in [Thread -> Steps] /\ call \in [Thread -> Calls]
      /\ rec \in [Thread -> StudentRecord] /\ off \in [Thread -> Nat]
      /\ user \in [Session -> 0..MaxId] /\ calls \in [Thread -> Nat]
      /\ t \in Thread
  BY DEF IInv, TypeOK, Calls, Thread
<1>2. Keeps /\ UNCHANGED <<table, mutex, user, blind>> /\ calls' \in [Thread -> Nat]
  BY <1>1 DEF NewRecord, Keeps, Begin
<1>3. PICK id \in 1..MaxId :
         rec' = [rec EXCEPT ![t] = [id |-> id, password |-> p,
                                    status |-> "ACTIVE", list |-> {}]]
  BY DEF NewRecord
<1> DEFINE r == [id |-> id, password |-> p, status |-> "ACTIVE", list |-> {}]
<1>8. r \in StudentRecord
  BY DEF StudentRecord
<1>4. "addScan" \in Steps
  BY DEF Steps
<1>5. LocalTypes' /\ Others(t) /\ pc'[t] = "addScan"
  <2>1. rec' = [rec EXCEPT ![t] = r]
    BY <1>3
  <2> HIDE DEF r
  <2> QED BY <1>1, <2>1, <1>4, <1>8 DEF NewRecord, LocalTypes, Others, Goto
<1>6. ThreadInv(t)'
  BY <1>5 DEF ThreadInv, CopyInv, AddInv, LockInv, FieldInv, Writing, ListSteps,
              Locked, AddSteps
<1>7. IInv'
  BY <1>1, <1>2, <1>5, <1>6, StillCarried DEF Kind, Notes
<1> QED BY <1>2, <1>7 DEF Kind, Notes

LEMMA AddStep ==
    ASSUME IInv, OneAdmin, NEW t \in Admin, AddScan(t) \/ AddSeek(t) \/ AddWrite(t)
    PROVE  IInv' /\ Kind(t)
<1>1. /\ pc \in [Thread -> Steps] /\ call \in [Thread -> Calls]
      /\ rec \in [Thread -> StudentRecord] /\ off \in [Thread -> Nat]
      /\ user \in [Session -> 0..MaxId] /\ calls \in [Thread -> Nat]
      /\ t \in Thread /\ TypeOK /\ AddInv(t) /\ Len(file) \in Nat
  BY DEF IInv, TypeOK, Calls, Thread, ThreadInv
<1>2. UNCHANGED <<table, mutex, user, calls>>
  BY DEF AddScan, AddSeek, AddWrite
<1>3. ASSUME UNCHANGED file
      PROVE  \A id : Found(id)' = Found(id)
  BY <1>3 DEF Found, Named
<1>4. Kind(t) /\ LocalTypes' /\ Others(t) /\ ThreadInv(t)'
  <2>1. CASE AddScan(t) /\ Return(t)
    BY <2>1, <1>1, Returned DEF AddScan, Kind, Keeps, Notes
  <2>2. ASSUME AddScan(t), NEW n \in ReadBefore, ~Exists(rec[t].id, n),
               Goto(t, "addSeek"), UNCHANGED <<call, rec>>,
               off' = [off EXCEPT ![t] = n]
        PROVE  Kind(t) /\ LocalTypes' /\ Others(t) /\ ThreadInv(t)'
    <3>1. "addSeek" \in Steps
      BY DEF Steps
    <3>2. n \in 0..Len(file)
      BY <1>1 DEF ReadBefore
    <3>3. /\ LocalTypes' /\ Others(t) /\ pc'[t] = "addSeek" /\ rec' = rec
          /\ off'[t] = n
      BY <2>2, <3>1, <3>2, <1>1 DEF LocalTypes, Others, Goto
    <3>4. Keeps /\ UNCHANGED blind
      BY <2>2 DEF AddScan, Keeps
    <3>5. PICK k : k = rec[t].id
      OBVIOUS
    <3>6. Found(k) => n < Len(file)
      <4>1. n = Len(file) => ~Found(k)
        <5>1. file \in Seq(StudentRecord)
          BY <1>1 DEF TypeOK
        <5> QED BY <2>2, <3>5, <5>1 DEF Exists, Found, Named
      <4> QED BY <4>1, <3>2, <1>1
    <3>7. Found(k)' => off'[t] < Len(file')
      BY <3>3, <3>4, <3>6, <1>3 DEF Keeps
    <3>8. ThreadInv(t)'
      BY <3>3, <3>5, <3>7 DEF ThreadInv, CopyInv, AddInv, LockInv, FieldInv, Writing,
                              ListSteps, Locked, AddSteps
    <3> QED BY <3>3, <3>4, <3>8 DEF Kind, Notes
  <2>3. CASE AddSeek(t)
    <3>1. "addWrite" \in Steps
      BY DEF Steps
    <3>2. /\ LocalTypes' /\ Others(t) /\ pc'[t] = "addWrite" /\ rec' = rec
          /\ off'[t] = Len(file) + 1
      BY <2>3, <3>1, <1>1 DEF AddSeek, LocalTypes, Others, Goto
    <3>3. Keeps /\ Notes(t)
      BY <2>3 DEF AddSeek, Keeps, Notes
    <3>4. PICK k : k = rec[t].id
      OBVIOUS
    <3>5. Found(k)' => off'[t] \in blind'
      <4>1. Found(k) => off[t] < Len(file)
        BY <2>3, <3>4, <1>1 DEF AddSeek, AddInv
      <4> QED BY <2>3, <3>2, <3>3, <4>1, <1>3 DEF AddSeek, Keeps
    <3>6. ThreadInv(t)'
      BY <3>2, <3>3, <3>4, <3>5 DEF ThreadInv, CopyInv, AddInv, LockInv, FieldInv,
                                    Writing, ListSteps, Locked, AddSteps, Keeps
    <3> QED BY <3>2, <3>3, <3>6 DEF Kind
  <2>4. CASE AddWrite(t)
    <3>1. off[t] \notin DOMAIN file
      <4>1. off[t] = Len(file) + 1
        BY <2>4, <1>1 DEF AddWrite, AddInv
      <4>2. file \in Seq(StudentRecord)
        BY <1>1 DEF TypeOK
      <4> QED BY <4>1, <4>2, <1>1
    <3>2. Adds(t) /\ Return(t)
      <4>1. pc'[t] = "idle" /\ Return(t)
        BY <2>4, <1>1 DEF AddWrite, Return, Goto
      <4> QED BY <2>4, <3>1, <4>1 DEF AddWrite, Adds
    <3> QED BY <3>2, <1>1, Returned DEF Kind
  <2> QED BY <2>1, <2>2, <2>3, <2>4 DEF AddScan
<1>5. IInv'
  BY <1>1, <1>2, <1>4, StillCarried
<1> QED BY <1>4, <1>5

(* Calls that read a record and keep a copy of it.                         *)
LEMMA GetStep ==
    ASSUME IInv, OneAdmin, NEW t \in Thread, NEW c \in Calls, NEW step, NEW copy,
           Begin(t), Starts(step, c), Get(t, c, step, copy),
           Found(c.id) => copy \in StudentRecord /\ copy.id = c.id,
           UNCHANGED <<table, file, mutex, user, told, blind>>
    PROVE  IInv' /\ Kind(t)
<1>1. /\ TypeOK /\ user \in [Session -> 0..MaxId] /\ calls \in [Thread -> Nat]
  BY DEF IInv, TypeOK
<1>2. LocalTypes' /\ Others(t) /\ ThreadInv(t)'
  BY <1>1, Got
<1>3. Keeps /\ UNCHANGED blind /\ calls' \in [Thread -> Nat]
  BY <1>1 DEF Keeps, Begin
<1> QED BY <1>1, <1>2, <1>3, StillCarried DEF Kind, Notes

LEMMA CopyFacts ==
    ASSUME IInv, NEW id, Found(id)
    PROVE  \A r \in {Record(id), Activated(Record(id)), Blocked(Record(id))} :
              r \in StudentRecord /\ r.id = id
<1>1. Record(id) \in StudentRecord /\ Record(id).id = id
  BY FirstFacts DEF IInv, TypeOK
<1> QED BY <1>1 DEF Activated, Blocked, StudentRecord

LEMMA AboutFacts ==
    ASSUME NEW id \in 1..MaxId, NEW f \in Fields \cup {"none"}
    PROVE  About(id, f) \in Calls /\ About(id, f).id = id /\ About(id, f).field = f
<1>1. id \in 0..MaxId
  BY AccountsAssumption
<1> QED BY <1>1 DEF About, NoCall, Calls


LEMMA BeginStatusStep ==
    ASSUME IInv, OneAdmin, NEW t \in Admin, NEW id \in 1..MaxId,
           BeginActivate(t, id) \/ BeginBlock(t, id)
    PROVE  IInv' /\ Kind(t)
<1> DEFINE c == About(id, "status")
<1>1. c \in Calls /\ c.id = id /\ Starts("write", c)
  BY AboutFacts DEF Fields, Starts
<1>2. t \in Thread
  BY DEF Thread
<1>3. CASE BeginActivate(t, id)
  <2>1. /\ Begin(t) /\ Get(t, c, "write", Activated(Record(id)))
        /\ UNCHANGED <<table, file, mutex, user, told, blind>>
    BY <1>3 DEF BeginActivate
  <2>2. Found(id) => Activated(Record(id)) \in StudentRecord /\ Activated(Record(id)).id = id
    BY CopyFacts
  <2> HIDE DEF c
  <2> QED BY <1>1, <1>2, <2>1, <2>2, GetStep
<1>4. CASE BeginBlock(t, id)
  <2>1. /\ Begin(t) /\ Get(t, c, "write", Blocked(Record(id)))
        /\ UNCHANGED <<table, file, mutex, user, told, blind>>
    BY <1>4 DEF BeginBlock
  <2>2. Found(id) => Blocked(Record(id)) \in StudentRecord /\ Blocked(Record(id)).id = id
    BY CopyFacts
  <2> HIDE DEF c
  <2> QED BY <1>1, <1>2, <2>1, <2>2, GetStep
<1> QED BY <1>3, <1>4

LEMMA FetchStep ==
    ASSUME IInv, OneAdmin, NEW t \in Admin, NEW id \in 1..MaxId, NEW keep \in BOOLEAN,
           FetchToModify(t, id, keep)
    PROVE  IInv' /\ Kind(t)
<1> DEFINE c == About(id, IF keep THEN "none" ELSE "password")
<1>1. c \in Calls /\ c.id = id /\ Starts("dialogue", c)
  <2>1. CASE keep
    BY <2>1, AboutFacts DEF Fields, Starts
  <2>2. CASE ~keep
    BY <2>2, AboutFacts DEF Fields, Starts
  <2> QED BY <2>1, <2>2
<1>2. t \in Thread
  BY DEF Thread
<1>3. /\ Begin(t) /\ Get(t, c, "dialogue", Record(id))
      /\ UNCHANGED <<table, file, mutex, user, told, blind>>
  BY DEF FetchToModify
<1>4. Found(id) => Record(id) \in StudentRecord /\ Record(id).id = id
  BY CopyFacts
<1> HIDE DEF c
<1> QED BY <1>1, <1>2, <1>3, <1>4, GetStep

LEMMA BeginPasswordStep ==
    ASSUME IInv, OneAdmin, NEW t \in Session, BeginPassword(t)
    PROVE  IInv' /\ Kind(t)
<1> DEFINE c == About(user[t], "password")
<1>1. user[t] \in 0..MaxId /\ t \in Thread
  BY DEF IInv, TypeOK, Thread
<1>2. c \in Calls /\ c.id = user[t] /\ Starts("password", c)
  BY <1>1 DEF About, NoCall, Calls, Fields, Starts
<1>3. /\ Begin(t) /\ Get(t, c, "password", Record(user[t]))
      /\ UNCHANGED <<table, file, mutex, user, told, blind>>
  BY DEF BeginPassword
<1>4. Found(user[t]) => Record(user[t]) \in StudentRecord /\ Record(user[t]).id = user[t]
  BY CopyFacts
<1> HIDE DEF c
<1> QED BY <1>1, <1>2, <1>3, <1>4, GetStep

LEMMA BeginListStep ==
    ASSUME IInv, OneAdmin, NEW t \in Session, NEW k \in Course,
           BeginEnroll(t, k) \/ BeginDrop(t, k)
    PROVE  IInv' /\ Kind(t)
<1> DEFINE c == [About(user[t], "list") EXCEPT !.put = {k}]
           d == [About(user[t], "list") EXCEPT !.take = {k}]
<1>1. /\ user[t] \in 0..MaxId /\ t \in Thread /\ TypeOK
      /\ pc \in [Thread -> Steps] /\ call \in [Thread -> Calls]
      /\ rec \in [Thread -> StudentRecord] /\ off \in [Thread -> Nat]
      /\ calls \in [Thread -> Nat]
  BY DEF IInv, TypeOK, Thread, Calls
<1>2. /\ c \in Calls /\ c.id = user[t] /\ Starts("waitStudent", c)
      /\ d \in Calls /\ d.id = user[t] /\ Starts("waitStudent", d)
  BY <1>1 DEF About, NoCall, Calls, Fields, Starts
<1>3. Found(user[t]) => Record(user[t]) \in StudentRecord /\ Record(user[t]).id = user[t]
  BY CopyFacts
<1>4. Begin(t) /\ UNCHANGED <<table, file, mutex, user, told, blind>>
  BY DEF BeginEnroll, BeginDrop
<1>5. CASE Get(t, c, "waitStudent", Record(user[t]))
  <2> HIDE DEF c, d
  <2> QED BY <1>1, <1>2, <1>3, <1>4, <1>5, GetStep
<1>6. CASE Get(t, d, "waitStudent", Record(user[t]))
  <2> HIDE DEF c, d
  <2> QED BY <1>1, <1>2, <1>3, <1>4, <1>6, GetStep
<1>7. CASE UNCHANGED <<pc, call, rec, off>>
  <2>1. LocalTypes' /\ Others(t)
    BY <1>1, <1>7 DEF LocalTypes, Others
  <2>2. pc'[t] = "idle"
    BY <1>4, <1>7 DEF Begin
  <2>3. Keeps /\ UNCHANGED blind /\ calls' \in [Thread -> Nat]
    BY <1>1, <1>4 DEF Keeps, Begin
  <2> QED BY <1>1, <1>4, <2>1, <2>2, <2>3, Idle, StillCarried DEF Kind, Notes
<1> QED BY <1>5, <1>6, <1>7 DEF BeginEnroll, BeginDrop

(* Calls that write a record back.                                         *)
LEMMA UpdateStep ==
    ASSUME IInv, OneAdmin, NEW t \in Thread, NEW r \in StudentRecord,
           pc[t] \in Writing, Meant(t, r), Update(t, r) \/ UpdateFaculty(t, r),
           MutexStep(t), UNCHANGED <<table, user, calls, blind>>
    PROVE  IInv' /\ Kind(t)
<1>1. Rewrites(t) /\ LocalTypes' /\ Others(t) /\ ThreadInv(t)'
  BY Rewritten
<1>2. user' \in [Session -> 0..MaxId] /\ calls' \in [Thread -> Nat]
  BY DEF IInv, TypeOK
<1>3. \A s \in Session : user'[s] \in {0, user[s]}
  OBVIOUS
<1> QED BY <1>1, <1>2, <1>3, Carried DEF Kind


LEMMA WriteStatusStep ==
    ASSUME IInv, OneAdmin, NEW t \in Admin, WriteStatus(t)
    PROVE  IInv' /\ Kind(t)
<1>1. t \in Thread /\ rec[t] \in StudentRecord /\ FieldInv(t)
  BY DEF IInv, TypeOK, Thread, ThreadInv
<1>2. pc[t] \in Writing /\ Meant(t, rec[t])
  BY <1>1 DEF WriteStatus, Writing, Meant, FieldInv
<1>3. Update(t, rec[t]) /\ MutexStep(t) /\ UNCHANGED <<table, user, calls, blind>>
  BY DEF WriteStatus, MutexStep
<1> QED BY <1>1, <1>2, <1>3, UpdateStep

LEMMA NewPassword ==
    ASSUME IInv, NEW t \in Thread, call[t].field = "password",
           NEW r \in {[rec[t] EXCEPT !.password = p] : p \in Password}
    PROVE  r \in StudentRecord /\ Meant(t, r)
<1>1. rec[t] \in StudentRecord
  BY DEF IInv, TypeOK
<1>2. r \in StudentRecord /\ r.id = rec[t].id
  BY <1>1 DEF StudentRecord
<1>3. r["status"] = rec[t]["status"] /\ r["list"] = rec[t]["list"]
  BY <1>1 DEF StudentRecord
<1> QED BY <1>2, <1>3 DEF Meant, Fields

LEMMA FinishModifyStep ==
    ASSUME IInv, OneAdmin, NEW t \in Admin, FinishModify(t) \/ FinishModifyFaculty(t)
    PROVE  IInv' /\ Kind(t)
<1>1. t \in Thread /\ rec[t] \in StudentRecord /\ FieldInv(t)
  BY DEF IInv, TypeOK, Thread, ThreadInv
<1>2. /\ pc[t] = "dialogue" /\ pc[t] \in Writing
      /\ MutexStep(t) /\ UNCHANGED <<table, user, calls, blind>>
  BY DEF FinishModify, FinishModifyFaculty, Writing, MutexStep
<1>3. PICK r \in Modified(t) : Update(t, r) \/ UpdateFaculty(t, r)
  BY DEF FinishModify, FinishModifyFaculty
<1>4. r \in StudentRecord /\ Meant(t, r)
  <2>1. CASE call[t].field = "none"
    <3>1. r = rec[t]
      BY <2>1 DEF Modified
    <3> QED BY <1>1, <2>1, <3>1 DEF Meant
  <2>2. CASE call[t].field = "password"
    BY <1>1, <2>2, NewPassword DEF Modified
  <2> QED BY <1>1, <1>2, <2>1, <2>2 DEF FieldInv
<1> QED BY <1>1, <1>2, <1>3, <1>4, UpdateStep

LEMMA FinishPasswordStep ==
    ASSUME IInv, OneAdmin, NEW t \in Session, FinishPassword(t) \/ FinishFacultyPassword(t)
    PROVE  IInv' /\ Kind(t)
<1>1. t \in Thread /\ FieldInv(t) /\ TypeOK /\ calls \in [Thread -> Nat]
  BY DEF IInv, TypeOK, Thread, ThreadInv
<1>2. /\ pc[t] = "password" /\ pc[t] \in Writing
      /\ MutexStep(t) /\ UNCHANGED <<table, mutex, user, calls, blind>>
  BY DEF FinishPassword, FinishFacultyPassword, Writing, MutexStep
<1>3. CASE Return(t) /\ UNCHANGED <<file, told>>
  <2>1. LocalTypes' /\ Others(t) /\ ThreadInv(t)'
    BY <1>1, <1>3, Returned
  <2> QED BY <1>1, <1>2, <1>3, <2>1, StillCarried DEF Kind, Keeps, Notes
<1>4. ASSUME NEW r \in Changed(t), Update(t, r) \/ UpdateFaculty(t, r)
      PROVE  IInv' /\ Kind(t)
  <2>1. r \in StudentRecord /\ Meant(t, r)
    BY <1>1, <1>2, NewPassword DEF FieldInv, Changed
  <2> QED BY <1>1, <1>2, <1>4, <2>1, UpdateStep
<1> QED BY <1>3, <1>4 DEF FinishPassword, FinishFacultyPassword

LEMMA WriteListStep ==
    ASSUME IInv, OneAdmin, NEW t \in Session, WriteList(t)
    PROVE  IInv' /\ Kind(t)
<1>1. /\ t \in Thread /\ rec[t] \in StudentRecord /\ FieldInv(t) /\ LockInv(t) /\ TypeOK
  BY DEF IInv, TypeOK, Thread, ThreadInv
<1> DEFINE r == [rec[t] EXCEPT !.list = Listing(rec[t], call[t])]
<1>2. pc[t] \in Writing /\ call[t].field = "list" /\ mutex = t
  BY <1>1 DEF WriteList, Writing, FieldInv, LockInv, ListSteps, Locked
<1>3. Listing(rec[t], call[t]) \subseteq Course
  BY <1>1, RecordTypes, CallTypes DEF Listing
<1>4. r \in StudentRecord
  BY <1>1, <1>3 DEF StudentRecord
<1>5. Meant(t, r)
  <2>1. /\ r.id = rec[t].id /\ r["password"] = rec[t]["password"]
        /\ r["status"] = rec[t]["status"] /\ r["list"] = Listing(rec[t], call[t])
    BY <1>1 DEF StudentRecord
  <2> HIDE DEF r
  <2> QED BY <1>2, <1>4, <2>1 DEF Meant, Fields
<1>6. Update(t, r) /\ MutexStep(t) /\ UNCHANGED <<table, user, calls, blind>>
  BY <1>2 DEF WriteList, MutexStep, Update
<1> HIDE DEF r
<1> QED BY <1>1, <1>2, <1>4, <1>5, <1>6, UpdateStep

(* The rest: the file is only read.                                        *)
LEMMA LoginStep ==
    ASSUME IInv, OneAdmin, NEW t \in Session, NEW id \in 1..MaxId, NEW p \in Password,
           Authenticate(t, id, p)
    PROVE  IInv' /\ Kind(t)
<1>1. /\ t \in Thread /\ user \in [Session -> 0..MaxId] /\ calls \in [Thread -> Nat]
      /\ pc \in [Thread -> Steps] /\ call \in [Thread -> Calls]
      /\ rec \in [Thread -> StudentRecord] /\ off \in [Thread -> Nat]
      /\ id \in 0..MaxId
  BY AccountsAssumption DEF IInv, TypeOK, Thread, Calls
<1>2. /\ Keeps /\ UNCHANGED blind /\ calls' \in [Thread -> Nat] /\ MutexStep(t) /\ UNCHANGED table
      /\ LocalTypes' /\ Others(t) /\ pc'[t] = "idle"
  BY <1>1 DEF Authenticate, Begin, Keeps, MutexStep, LocalTypes, Others
<1>3. user' \in [Session -> 0..MaxId]
  BY <1>1 DEF Authenticate
<1>4. \A s \in Session : user'[s] \in {0, user[s]} \/ (user'[s] = id /\ Found(id))
  BY <1>1 DEF Authenticate, Admits
<1>5. Found(id)' = Found(id)
  BY <1>2 DEF Keeps, Found, Named
<1>6. \A s \in Session : user'[s] \in {0, user[s]} \/ Found(user'[s])
  BY <1>4
<1> QED BY <1>1, <1>2, <1>3, <1>6, Idle, Carried DEF Kind, Notes

LEMMA QuietStep ==
    ASSUME IInv, OneAdmin, NEW t \in Session, Logout(t) \/ LockStudent(t) \/ Reread(t)
    PROVE  IInv' /\ Kind(t)
<1>1. /\ t \in Thread /\ user \in [Session -> 0..MaxId] /\ calls \in [Thread -> Nat]
      /\ pc \in [Thread -> Steps] /\ call \in [Thread -> Calls]
      /\ rec \in [Thread -> StudentRecord] /\ off \in [Thread -> Nat]
      /\ CopyInv(t) /\ LockInv(t) /\ FieldInv(t) /\ 0 \in 0..MaxId
  BY AccountsAssumption DEF IInv, TypeOK, Thread, ThreadInv, Calls
<1>2. Keeps /\ UNCHANGED <<table, calls, blind>>
  BY DEF Logout, LockStudent, Reread, Keeps
<1>3. \A id : Found(id)' = Found(id)
  BY <1>2 DEF Keeps, Found, Named
<1>4. CASE Logout(t)
  <2>1. LocalTypes' /\ Others(t) /\ pc'[t] = "idle" /\ MutexStep(t)
    BY <1>1, <1>4 DEF Logout, LocalTypes, Others, MutexStep
  <2>2. user' \in [Session -> 0..MaxId] /\ \A s \in Session : user'[s] \in {0, user[s]}
    BY <1>1, <1>4 DEF Logout
  <2> QED BY <1>1, <1>2, <2>1, <2>2, Idle, Carried DEF Kind, Notes
<1>5. ASSUME UNCHANGED <<user, call, off>>, MutexStep(t), Others(t), LocalTypes', mutex' = t,
             rec'[t].id = call[t].id, Found(call[t].id), call[t].field = "list",
             pc'[t] \in {"reread", "writeList", "writeOldList"}
      PROVE  IInv' /\ Kind(t)
  <2>1. PICK k : k = call[t].id
    OBVIOUS
  <2>2. Found(k)'
    BY <1>3, <1>5, <2>1
  <2>3. ThreadInv(t)'
    BY <1>5, <2>1, <2>2 DEF ThreadInv, CopyInv, AddInv, LockInv, FieldInv, AddSteps,
                            Locked, ListSteps
  <2>4. user' \in [Session -> 0..MaxId] /\ \A s \in Session : user'[s] \in {0, user[s]}
    BY <1>1, <1>5
  <2> QED BY <1>1, <1>2, <1>5, <2>3, <2>4, Carried DEF Kind, Notes
<1>6. "reread" \in Steps /\ "writeList" \in Steps /\ "writeOldList" \in Steps
  BY DEF Steps, Writing
<1>7. CASE LockStudent(t)
  <2>1. /\ LocalTypes' /\ Others(t) /\ MutexStep(t) /\ UNCHANGED <<user, call, off, rec>>
        /\ mutex' = t /\ pc'[t] = "reread"
    BY <1>1, <1>6, <1>7 DEF LockStudent, Acquire, Goto, LocalTypes, Others, MutexStep
  <2>2. rec[t].id = call[t].id /\ Found(call[t].id) /\ call[t].field = "list"
    BY <1>1, <1>7 DEF LockStudent, CopyInv, FieldInv, ListSteps
  <2> QED BY <1>5, <2>1, <2>2
<1>8. CASE Reread(t)
  <2>1. /\ rec[t].id = call[t].id /\ Found(call[t].id) /\ call[t].field = "list"
        /\ mutex = t
    BY <1>1, <1>8 DEF Reread, CopyInv, FieldInv, LockInv, ListSteps, Locked
  <2>2. Record(call[t].id) \in StudentRecord /\ Record(call[t].id).id = call[t].id
    BY <2>1, CopyFacts
  <2>3. UNCHANGED <<user, call, off, mutex>> /\ MutexStep(t)
    BY <1>8 DEF Reread, MutexStep
  <2>4. /\ LocalTypes' /\ Others(t) /\ rec'[t].id = call[t].id
        /\ pc'[t] \in {"writeList", "writeOldList"}
    BY <1>1, <1>6, <1>8, <2>1, <2>2 DEF Reread, Goto, LocalTypes, Others
  <2> QED BY <1>5, <2>1, <2>3, <2>4
<1> QED BY <1>4, <1>7, <1>8


-----------------------------------------------------------------------------
(* The invariant.                                                          *)

LEMMA InitIInv == ASSUME Init PROVE IInv
<1>1. WithoutLists \in Seq(StudentRecord) /\ DOMAIN WithoutLists = DOMAIN FirstStudents
      /\ \A i \in DOMAIN FirstStudents : WithoutLists[i].id = FirstStudents[i].id
  <2>1. FirstStudents \in Seq(StudentRecord)
    BY AccountsAssumption
  <2>2. ASSUME NEW r \in StudentRecord
        PROVE  [r EXCEPT !.list = {}] \in StudentRecord /\ [r EXCEPT !.list = {}].id = r.id
    BY DEF StudentRecord
  <2>3. PICK n \in Nat : DOMAIN FirstStudents = 1..n /\ FirstStudents \in [1..n -> StudentRecord]
    BY <2>1
  <2>4. \A i \in 1..n : /\ [FirstStudents[i] EXCEPT !.list = {}] \in StudentRecord
                       /\ [FirstStudents[i] EXCEPT !.list = {}].id = FirstStudents[i].id
    BY <2>2, <2>3
  <2>5. /\ WithoutLists \in [1..n -> StudentRecord]
        /\ \A i \in 1..n : WithoutLists[i].id = FirstStudents[i].id
    BY <2>3, <2>4 DEF WithoutLists
  <2>6. WithoutLists \in Seq(StudentRecord) /\ DOMAIN WithoutLists = 1..n
    BY <2>5
  <2> QED BY <2>3, <2>5, <2>6
<1>2. file \in Seq(StudentRecord) /\ IdsDistinct
  <2>1. file \in Seq(StudentRecord) /\ DOMAIN file = DOMAIN FirstStudents
    BY <1>1, AccountsAssumption DEF Init
  <2>2. \A i \in DOMAIN file : file[i].id = FirstStudents[i].id
    BY <1>1, <2>1 DEF Init
  <2>3. \A i, j \in DOMAIN file : file[i].id = file[j].id => ~(i < j)
    BY <2>1, <2>2, AccountsAssumption
  <2> QED BY <2>1, <2>3 DEF IdsDistinct
<1>3. told \in [1..MaxId -> StudentRecord]
  <2>1. \A id \in 1..MaxId : Found(id) => Record(id) \in StudentRecord
    BY <1>2, FirstFacts
  <2>2. \A id \in 1..MaxId : [Blank EXCEPT !.id = id] \in StudentRecord
    BY BlankType DEF StudentRecord
  <2> QED BY <2>1, <2>2 DEF Init
<1>4. 0 \in 0..MaxId /\ NoCall \in Calls /\ "idle" \in Steps
  BY AccountsAssumption DEF NoCall, Calls, Steps
<1>5. TypeOK
  BY <1>2, <1>3, <1>4, BlankType DEF Init, TypeOK, Calls
<1>6. UsersFound
  BY DEF Init, UsersFound
<1>7. \A t \in Thread : ThreadInv(t)
  BY DEF Init, ThreadInv, CopyInv, AddInv, LockInv, FieldInv, Writing, ListSteps,
         Locked, AddSteps
<1> QED BY <1>2, <1>5, <1>6, <1>7 DEF IInv

LEMMA Step ==
    ASSUME IInv, OneAdmin, [Next]_vars
    PROVE  IInv' /\ (Keeps \/ \E t \in Thread : Rewrites(t) \/ Adds(t))
<1>1. CASE UNCHANGED vars
  <2>1. Keeps
    BY <1>1 DEF vars, Keeps
  <2>2. TypeOK' /\ IdsDistinct' /\ UsersFound'
    BY <1>1 DEF vars, IInv, TypeOK, IdsDistinct, UsersFound, Found, Named
  <2>3. ASSUME NEW t \in Thread PROVE ThreadInv(t)'
    <3>1. ThreadInv(t)
      BY DEF IInv
    <3> QED BY <1>1, <3>1 DEF vars, ThreadInv, CopyInv, AddInv, LockInv, FieldInv, Found, Named
  <2> QED BY <2>1, <2>2, <2>3 DEF IInv
<1>2. ASSUME NEW t \in Thread, IInv' /\ Kind(t)
      PROVE  IInv' /\ (Keeps \/ \E s \in Thread : Rewrites(s) \/ Adds(s))
  BY <1>2 DEF Kind
<1>3. ASSUME NEW t \in Admin, NEW p \in Password, BeginAdd(t, p) \/ BeginAddFaculty(t, p)
      PROVE  IInv' /\ Kind(t)
  BY <1>3, NewRecordStep DEF BeginAdd, BeginAddFaculty
<1>4. ASSUME NEW t \in Admin, NEW id \in 1..MaxId, NEW keep \in BOOLEAN,
             BeginModify(t, id, keep) \/ BeginModifyFaculty(t, id, keep)
      PROVE  IInv' /\ Kind(t)
  BY <1>4, FetchStep DEF BeginModify, BeginModifyFaculty
<1>5. ASSUME NEW t \in Admin, AddStudent(t) \/ AddFaculty(t)
      PROVE  IInv' /\ Kind(t)
  BY <1>5, AddStep DEF AddStudent, AddFaculty
<1>6. ASSUME NEW t \in Session, NEW id \in 1..MaxId, NEW p \in Password,
             Login(t, id, p) \/ LoginFaculty(t, id, p)
      PROVE  IInv' /\ Kind(t)
  BY <1>6, LoginStep DEF Login, LoginFaculty
<1>7. Admin \subseteq Thread /\ Session \subseteq Thread
  BY DEF Thread
<1>8. ASSUME NEW t \in Admin,
             \/ \E p \in Password : BeginAdd(t, p) \/ BeginAddFaculty(t, p)
             \/ \E id \in 1..MaxId :
                   \/ BeginActivate(t, id) \/ BeginBlock(t, id)
                   \/ \E keep \in BOOLEAN :
                         BeginModify(t, id, keep) \/ BeginModifyFaculty(t, id, keep)
             \/ AddStudent(t) \/ AddFaculty(t)
             \/ WriteStatus(t) \/ FinishModify(t) \/ FinishModifyFaculty(t)
      PROVE  IInv' /\ Kind(t)
  BY <1>3, <1>4, <1>5, <1>8, BeginStatusStep, WriteStatusStep, FinishModifyStep
<1>9. ASSUME NEW t \in Session,
             \/ \E id \in 1..MaxId, p \in Password : Login(t, id, p) \/ LoginFaculty(t, id, p)
             \/ Logout(t)
             \/ BeginPassword(t) \/ FinishPassword(t) \/ FinishFacultyPassword(t)
             \/ \E c \in Course : BeginEnroll(t, c) \/ BeginDrop(t, c)
             \/ LockStudent(t) \/ Reread(t) \/ WriteList(t)
      PROVE  IInv' /\ Kind(t)
  BY <1>6, <1>9, BeginPasswordStep, FinishPasswordStep, BeginListStep, QuietStep,
     WriteListStep
<1>10. CASE Next
  BY <1>1, <1>2, <1>7, <1>8, <1>9, <1>10 DEF Next, Waiting
<1> QED BY <1>1, <1>10

LEMMA Invariant == ASSUME OneAdmin PROVE Spec => []IInv
<1>1. Init => IInv
  BY InitIInv
<1>2. IInv /\ [Next]_vars => IInv'
  BY Step
<1> QED BY <1>1, <1>2, PTL DEF Spec


-----------------------------------------------------------------------------
(* What the steps never do.                                                *)

LEMMA OthersKeptStep == ASSUME IInv, OneAdmin, [Next]_vars PROVE OthersKept
<1>1. file \in Seq(StudentRecord) /\ IdsDistinct /\ \A t \in Thread : rec[t] \in StudentRecord
  BY DEF IInv, TypeOK
<1>2. CASE UNCHANGED file
  BY <1>1, <1>2 DEF OthersKept
<1>3. ASSUME NEW t \in Thread, Rewrites(t)
      PROVE  OthersKept
  <2>1. PICK r \in StudentRecord : WritesBack(t, r)
    BY <1>3 DEF Rewrites
  <2>2. /\ r.id = call[t].id /\ Found(r.id) /\ pc'[t] # pc[t]
    BY <1>3, <2>1 DEF WritesBack, Meant, Rewrites, IInv, ThreadInv, CopyInv, Writing
  <2>3. CASE file' = Put(r)
    <3>1. /\ Len(file') = Len(file)
          /\ \A i \in DOMAIN file : file'[i] # file[i] => file[i].id = r.id
          /\ \A i \in DOMAIN file : file'[i].id = file[i].id
      BY <1>1, <1>3, <2>2, <2>3, PutFacts DEF Rewrites
    <3>2. \A i \in DOMAIN file : file'[i] # file[i] => call[t].id = file[i].id
      BY <3>1, <2>2
    <3> QED BY <1>1, <2>2, <3>1, <3>2 DEF OthersKept
  <2> QED BY <1>2, <2>1, <2>3 DEF WritesBack, Keeps
<1>4. ASSUME NEW t \in Thread, Adds(t)
      PROVE  OthersKept
  <2>1. CASE file' = Append(file, rec[t])
    BY <1>1, <2>1 DEF OthersKept
  <2> QED BY <1>2, <1>4, <2>1 DEF Adds
<1> QED BY <1>2, <1>3, <1>4, Step DEF Keeps

LEMMA RereadStaysFreshStep == ASSUME IInv, OneAdmin, [Next]_vars PROVE RereadStaysFresh
<1> SUFFICES ASSUME NEW t \in Thread, NEW id \in 1..MaxId, pc[t] = "writeList",
                    pc'[t] = "writeList", call[t].id = id, Record(id)' # Record(id)
             PROVE  \E s \in Thread :
                       pc[s] \in {"write", "dialogue", "password"} /\ pc'[s] # pc[s]
  BY DEF RereadStaysFresh
<1>1. /\ IdsDistinct /\ file \in Seq(StudentRecord)
      /\ \A s \in Thread : rec[s] \in StudentRecord /\ CopyInv(s) /\ LockInv(s) /\ AddInv(s)
  BY DEF IInv, TypeOK, ThreadInv
<1>2. Found(id) /\ mutex = t
  BY <1>1 DEF CopyInv, LockInv, ListSteps, Locked
<1>3. ASSUME UNCHANGED file
      PROVE  FALSE
  BY <1>3 DEF Record, First, Named
<1>4. ASSUME NEW s \in Thread, Rewrites(s)
      PROVE  pc[s] \in {"write", "dialogue", "password"} /\ pc'[s] # pc[s]
  <2>1. pc[s] \in Writing /\ pc'[s] = "idle" /\ s # t
    BY <1>4 DEF Rewrites
  <2>2. pc[s] \notin {"writeList", "writeOldList"}
    BY <1>1, <1>2, <2>1 DEF LockInv, Locked
  <2> QED BY <2>1, <2>2 DEF Writing
<1>5. ASSUME NEW s \in Thread, Adds(s)
      PROVE  FALSE
  <2>1. PICK r \in StudentRecord : r = rec[s]
    BY <1>1
  <2>2. (Found(r.id) => Len(file) + 1 \in blind) /\ UNCHANGED blind
    BY <1>1, <1>5, <2>1 DEF Adds, AddInv
  <2>3. CASE file' = Append(file, r)
    <3>1. \A k : Found(k) => Record(k)' = Record(k)
      BY <1>1, <2>2, <2>3, AppendFacts
    <3> QED BY <1>2, <3>1
  <2> QED BY <1>3, <1>5, <2>1, <2>3 DEF Adds
<1>6. ~Keeps
  BY <1>3 DEF Keeps
<1> QED BY <1>4, <1>5, <1>6, Step

LEMMA LossExplainedStep == ASSUME IInv, OneAdmin, [Next]_vars PROVE LossExplained
<1> SUFFICES ASSUME NEW id \in 1..MaxId, NEW f \in Fields, f \in Lost(id)', f \notin Lost(id)
             PROVE  \E t \in Thread :
                       /\ pc'[t] # pc[t]
                       /\ \/ StaleField(t, id, f)
                          \/ /\ table = "student" /\ FilesCanFail /\ UNCHANGED file
                             /\ pc[t] \in Writing /\ call[t].id = id
                          \/ pc[t] = "addWrite" /\ rec[t].id = id /\ off[t] \in blind
  <2>1. \A id : Lost(id)' \subseteq Fields
    BY DEF Lost
  <2> QED BY <2>1 DEF LossExplained
<1>1. /\ TypeOK /\ IdsDistinct /\ file \in Seq(StudentRecord)
      /\ told \in [1..MaxId -> StudentRecord]
      /\ \A s \in Thread : rec[s] \in StudentRecord /\ CopyInv(s) /\ AddInv(s)
  BY DEF IInv, TypeOK, ThreadInv
<1>2. /\ Found(id)' /\ Record(id)'[f] # told'[id][f]
      /\ Found(id) => Record(id)[f] = told[id][f]
  BY DEF Lost
<1>3. ASSUME UNCHANGED file
      PROVE  Found(id)' = Found(id) /\ Record(id)' = Record(id)
  BY <1>3 DEF Found, Record, First, Named
<1>4. ~Keeps
  BY <1>2, <1>3 DEF Keeps
<1>5. ASSUME NEW t \in Thread, Rewrites(t)
      PROVE  /\ pc'[t] # pc[t]
             /\ \/ StaleField(t, id, f)
                \/ /\ table = "student" /\ FilesCanFail /\ UNCHANGED file
                   /\ pc[t] \in Writing /\ call[t].id = id
  <2>1. pc[t] \in Writing /\ pc'[t] # pc[t]
    BY <1>5 DEF Rewrites, Writing
  <2>2. PICK r \in StudentRecord : WritesBack(t, r)
    BY <1>5 DEF Rewrites
  <2>3. /\ r.id = call[t].id /\ r.id = rec[t].id /\ Found(r.id) /\ Meant(t, r)
    BY <1>1, <2>1, <2>2 DEF WritesBack, Meant, CopyInv
  <2>4. ASSUME Tell(t, r)
        PROVE  id = r.id
    <3>1. \A k \in 1..MaxId : k # r.id => told'[k] = told[k]
      BY <1>1, <2>4, TellFacts
    <3>2. ASSUME file' = Put(r) \/ UNCHANGED file, id # r.id
          PROVE  FALSE
      <4>1. CASE UNCHANGED file
        BY <1>2, <1>3, <3>1, <3>2, <4>1
      <4>2. CASE file' = Put(r)
        <5>1. Found(id)' = Found(id) /\ (Found(id) => Record(id)' = Record(id))
          BY <1>1, <1>5, <2>3, <3>2, <4>2, PutFacts DEF Rewrites
        <5> QED BY <1>2, <3>1, <3>2, <5>1
      <4> QED BY <3>2, <4>1, <4>2
    <3> QED BY <2>2, <3>2, <1>4 DEF WritesBack
  <2>5. CASE file' = Put(r) /\ Tell(t, r)
    <3>1. id = r.id /\ Record(id)' = r
      BY <1>1, <1>5, <2>3, <2>4, <2>5, PutFacts DEF Rewrites
    <3>2. /\ \A g \in Fields : g # call[t].field => told'[id][g] = told[id][g]
          /\ call[t].field = "list" => told'[id]["list"] = Listing(told[id], call[t])
          /\ call[t].field \in {"password", "status"} =>
                told'[id][call[t].field] = r[call[t].field]
      BY <1>1, <2>5, <3>1, TellFacts
    <3>3. r[f] # told'[id][f] /\ Record(id)[f] = told[id][f]
      BY <1>2, <2>3, <3>1
    <3>4. CASE f # call[t].field
      <4>1. r[f] = rec[t][f] /\ told'[id][f] = told[id][f]
        BY <2>3, <3>2, <3>4 DEF Meant
      <4>2. rec[t][f] # Record(id)[f]
        BY <3>3, <4>1
      <4> QED BY <2>1, <2>3, <3>1, <3>4, <4>2 DEF StaleField
    <3>5. CASE f = call[t].field /\ f = "list"
      <4>1. r["list"] = Listing(rec[t], call[t]) /\ told'[id]["list"] = Listing(told[id], call[t])
        BY <2>3, <3>2, <3>5 DEF Meant
      <4>2. rec[t]["list"] # told[id]["list"]
        BY <3>3, <3>5, <4>1 DEF Listing
      <4>3. rec[t][f] # Record(id)[f]
        BY <3>3, <3>5, <4>2
      <4> QED BY <2>1, <2>3, <3>1, <3>5, <4>3 DEF StaleField
    <3>6. CASE f = call[t].field /\ f # "list"
      BY <3>2, <3>3, <3>6 DEF Fields
    <3> QED BY <3>4, <3>5, <3>6
  <2>6. CASE table = "student" /\ FilesCanFail /\ Tell(t, r) /\ UNCHANGED file
    BY <2>1, <2>3, <2>4, <2>6
  <2> QED BY <1>4, <2>1, <2>2, <2>5, <2>6 DEF WritesBack
<1>6. ASSUME NEW t \in Thread, Adds(t)
      PROVE  pc'[t] # pc[t] /\ pc[t] = "addWrite" /\ rec[t].id = id /\ off[t] \in blind
  <2>1. PICK r \in StudentRecord : r = rec[t]
    BY <1>1
  <2>2. /\ r.id \in 1..MaxId /\ UNCHANGED blind
        /\ Found(r.id) => Len(file) + 1 \in blind /\ off[t] \in blind
    BY <1>1, <1>6, <2>1, RecordTypes DEF Adds, AddInv
  <2>3. told'[r.id] = r /\ \A k \in 1..MaxId : k # r.id => told'[k] = told[k]
    BY <1>1, <1>6, <2>1, <2>2 DEF Adds
  <2>4. id = r.id /\ Found(r.id)
    <3>1. CASE file' = Append(file, r)
      <4>1. ~Found(r.id) => Record(r.id)' = r
        BY <1>1, <2>2, <3>1, AppendFacts
      <4>2. id # r.id => Found(id)' = Found(id) /\ (Found(id) => Record(id)' = Record(id))
        BY <1>1, <2>2, <3>1, AppendFacts
      <4> QED BY <1>2, <2>3, <4>1, <4>2
    <3>2. CASE UNCHANGED file
      BY <1>2, <1>3, <2>2, <2>3, <3>2
    <3> QED BY <1>6, <2>1, <3>1, <3>2 DEF Adds
  <2> QED BY <1>6, <2>1, <2>2, <2>4 DEF Adds
<1> QED BY <1>4, <1>5, <1>6, Step

-----------------------------------------------------------------------------
(* Theorems                                                                *)

(* Every variable keeps its type: no file, copy or answer ever holds what  *)
(* is not a record.                                                        *)
THEOREM TypeCorrect == ASSUME OneAdmin PROVE Spec => []TypeOK
<1>1. IInv => TypeOK
  BY DEF IInv
<1> QED BY <1>1, Invariant, PTL

(* While one administrator is at work, add_student and add_faculty give an *)
(* id twice only after a search that a failing read cut short, though      *)
(* get_all_... stops at its limit.                                         *)
THEOREM NoIdTwice == ASSUME OneAdmin PROVE Spec => []IdsDistinct
<1>1. IInv => IdsDistinct
  BY DEF IInv
<1> QED BY <1>1, Invariant, PTL

(* A call changes the record of the student it is about, and no other.     *)
THEOREM NobodyElseTouched == ASSUME OneAdmin PROVE Spec => OthersUntouched
<1>1. IInv /\ [Next]_vars => OthersKept
  BY OthersKeptStep
<1> QED BY <1>1, Invariant, PTL DEF Spec, OthersUntouched

(* An answered change is lost only to a stale copy or an unseen error.     *)
THEOREM NoOtherLoss == ASSUME OneAdmin PROVE Spec => ChangesLostOnlyBy
<1>1. IInv /\ [Next]_vars => LossExplained
  BY LossExplainedStep
<1> QED BY <1>1, Invariant, PTL DEF Spec, ChangesLostOnlyBy

(* g_student_mutex keeps the list calls apart, and nothing else.           *)
THEOREM MutexKeepsListsApart == ASSUME OneAdmin PROVE Spec => ListsApart
<1>1. IInv /\ [Next]_vars => RereadStaysFresh
  BY RereadStaysFreshStep
<1> QED BY <1>1, Invariant, PTL DEF Spec, ListsApart

=============================================================================
