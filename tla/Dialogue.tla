-------------------------------- MODULE Dialogue --------------------------------
(***************************************************************************)
(* client.c talking to one session of the server: two byte streams, menus  *)
(* and questions on one side, a loop that shows what it received and asks  *)
(* its user on the other.  Nothing in the protocol says where an answer    *)
(* ends: the client looks for the words "Enter " and "Confirm " in what it *)
(* has received (read_complete_response), the server takes what one read   *)
(* returns for one answer (receive_input).                                 *)
(*                                                                         *)
(* What one side has sent is in the stream at once, and a recv or a read   *)
(* returns any part of it that is at the front, so that neither messages   *)
(* nor lines keep their boundaries; a token is what TLC may cut after.     *)
(* What the handlers do with an answer is in the other modules; here each  *)
(* goes on in every way it can.  A client that is killed is in Server.     *)
(***************************************************************************)
EXTENDS Integers, Sequences, SequencesExt

CONSTANTS
    BufferSize,   \* tokens that fit the client's buffer (4095 bytes)
    Listing,      \* what a listing may be: a sequence of "text" and "name"
    MaxTurns,     \* bound: choices made at the menu before logging out
    MaxSlips      \* bound: after that many slips network and user make no more

ASSUME DialogueAssumption ==
    /\ BufferSize \in Nat /\ BufferSize >= 2
    /\ Listing \subseteq Seq({"text", "name"})
    /\ MaxTurns \in Nat /\ MaxSlips \in Nat

VARIABLES
    place,      \* the question the session asked last; "exit": it is over
    asked,      \* the number of that question
    turns,      \* choices made at the menu
    toClient,   \* the streams
    toServer,
    client,     \* what the client does: receives, lets its user type, or is over
    buffer,     \* what read_complete_response has received
    shown,      \* the number of the last question on the screen
    input,      \* the question the text in the array input was typed for
    answer,     \* what the server read last: for which question, typed for which
    lost,       \* what had been sent to the client and was not shown when it ended
    slips       \* times a side took a part for the whole, or more was sent
                \* than was typed

vars == <<place, asked, turns, toClient, toServer, client, buffer, shown, input,
          answer, lost, slips>>

-----------------------------------------------------------------------------
(* The questions, and what may follow the answer to each.                  *)

Logins ==
    [userType |-> {"adminName", "facultyId", "studentId", "exit"}]

AdminLogin   == [adminName |-> {"adminPassword"}, adminPassword |-> {"adminMenu", "exit"}]
FacultyLogin == [facultyId |-> {"facultyPassword"},
                 facultyPassword |-> {"facultyMenu", "exit"}]
StudentLogin == [studentId |-> {"studentPassword"},
                 studentPassword |-> {"studentMenu", "exit"}]

AdminMenu   == [adminMenu |-> {"adminMenu", "addStudentName", "addFacultyName",
                               "activateId", "blockId", "modifyId",
                               "modifyFacultyId", "exit"}]
FacultyMenu == [facultyMenu |-> {"facultyMenu", "addCourseName", "removeId",
                                 "updateId", "facultyOld", "exit"}]
StudentMenu == [studentMenu |-> {"studentMenu", "enrollId", "dropId", "studentOld",
                                 "exit"}]

AddStudent  == [addStudentName |-> {"addStudentPassword"},
                addStudentPassword |-> {"adminMenu"}]
AddFaculty  == [addFacultyName |-> {"addDepartment"},
                addDepartment |-> {"addFacultyPassword"},
                addFacultyPassword |-> {"adminMenu"}]
Activate    == [activateId |-> {"adminMenu"}]
Block       == [blockId |-> {"adminMenu"}]
ModifyStudent == [modifyId |-> {"adminMenu", "newName"}, newName |-> {"newPassword"},
                  newPassword |-> {"adminMenu"}]
ModifyFaculty == [modifyFacultyId |-> {"adminMenu", "newFacultyName"},
                  newFacultyName |-> {"newDepartment"},
                  newDepartment |-> {"newFacultyPassword"},
                  newFacultyPassword |-> {"adminMenu"}]
AddCourse    == [addCourseName |-> {"addCourseCode"}, addCourseCode |-> {"addMaxSeats"},
                 addMaxSeats |-> {"facultyMenu"}]
RemoveCourse == [removeId |-> {"facultyMenu"}]
UpdateCourse == [updateId |-> {"facultyMenu", "newCourseName"},
                 newCourseName |-> {"newMaxSeats"}, newMaxSeats |-> {"facultyMenu"}]
FacultyPassword == [facultyOld |-> {"facultyMenu", "facultyNew"},
                    facultyNew |-> {"facultyMenu", "facultyConfirm"},
                    facultyConfirm |-> {"facultyMenu"}]
Enroll       == [enrollId |-> {"studentMenu"}]
Drop         == [dropId |-> {"studentMenu"}]
StudentPassword == [studentOld |-> {"studentMenu", "studentNew"},
                    studentNew |-> {"studentMenu", "studentConfirm"},
                    studentConfirm |-> {"studentMenu"}]

Parts == {Logins, AdminLogin, FacultyLogin, StudentLogin,
          AdminMenu, AddStudent, AddFaculty, Activate, Block,
          ModifyStudent, ModifyFaculty,
          FacultyMenu, AddCourse, RemoveCourse, UpdateCourse, FacultyPassword,
          StudentMenu, Enroll, Drop, StudentPassword}

(* Each question is in one part.                                           *)
Script == [at \in UNION {DOMAIN part : part \in Parts} |->
              UNION {part[at] : part \in {p \in Parts : at \in DOMAIN p}}]

Places == DOMAIN Script
Menus  == {"adminMenu", "facultyMenu", "studentMenu"}

(* "Enter New Name (or press Enter to keep current): " has the word twice. *)
KeepCurrent == {"newName", "newPassword", "newFacultyName", "newDepartment",
                "newFacultyPassword", "newCourseName", "newMaxSeats"}
Confirming  == {"facultyConfirm", "studentConfirm"}

(* After the last choice the user logs out.  Mutant: to a place that none  *)
(* of the menus goes to.                                                   *)
BackToLogin(at) == IF at \in Menus /\ turns = MaxTurns THEN {"login"} ELSE Script[at]
Following(at)   == IF at \in Menus /\ turns = MaxTurns THEN {"exit"} ELSE Script[at]

-----------------------------------------------------------------------------
(* What the session sends for an answer.  A name may hold the word "Enter ".*)

Question(at) == CASE at \in KeepCurrent -> <<"half", "enter">>
                  [] at \in Confirming  -> <<"confirm">>
                  [] at = "exit"        -> <<"text", "exit">>
                  [] at \in Menus \cup {"userType"} -> <<"text", "enter">>
                  [] OTHER              -> <<"enter">>

(* view_student_details, view_faculty_details, view_offering_courses,      *)
(* view_all_courses and view_enrolled_courses are a choice of a menu each, *)
(* and come before the questions for an id.                                *)
IdQuestions == {"activateId", "blockId", "modifyId", "modifyFacultyId",
                "removeId", "updateId", "enrollId", "dropId"}
Lists(from, to) == from \in Menus /\ to \in IdQuestions \cup {from}

(* A name is shown after a login and before details are changed.           *)
Names(from, to) == \/ to \in Menus /\ from \in {"adminPassword", "facultyPassword",
                                               "studentPassword"}
                   \/ to \in {"newName", "newFacultyName", "newCourseName"}

Listings(from, to) == {<<>>} \cup (IF Lists(from, to) THEN Listing ELSE {})
                             \cup (IF Names(from, to) THEN {<<"name">>} ELSE {})

Numbered(kinds, n) == [i \in DOMAIN kinds |-> [kind |-> kinds[i], nr |-> n]]

Kinds == {"text", "name", "half", "enter", "confirm", "exit"}
Token == [kind : Kinds, nr : Nat]

-----------------------------------------------------------------------------
Init ==
    /\ place = "userType"
    /\ asked = 1
    /\ turns = 0
    /\ toClient = Numbered(Question("userType"), 1)
    /\ toServer = <<>>
    /\ client = "receive"
    /\ buffer = <<>>
    /\ shown = 0
    /\ input = 0
    /\ answer = [asked |-> 0, typed |-> 0]
    /\ lost = <<>>
    /\ slips = 0

(* receive_input: what is there is the answer; of several lines the first  *)
(* counts, and the end of a line longer than the array (50 characters of a *)
(* name, 20 of an id) stays for the next question.                         *)
Hear ==
    /\ place # "exit"
    /\ \E n \in 1..Len(toServer) :
          /\ answer' = [asked |-> asked, typed |-> Head(toServer).nr]
          /\ toServer' = SubSeq(toServer, n + 1, Len(toServer))
          /\ slips' = IF toServer[n].whole THEN slips ELSE slips + 1
    /\ \E to \in Following(place) : \E rows \in Listings(place, to) :
          /\ place' = to
          /\ toClient' = toClient \o Numbered(rows \o Question(to), asked + 1)
          /\ turns' = IF place \in Menus THEN turns + 1 ELSE turns
    /\ asked' = asked + 1
    /\ UNCHANGED <<client, buffer, shown, input, lost>>

-----------------------------------------------------------------------------
Asking == {"half", "enter", "confirm", "name"}

(* Mutants: the request for a confirmation is not recognized; the first    *)
(* thing received is taken for the answer.                                 *)
AsksAtOnce(buf)  == buf # <<>>
AsksToEnter(buf) == \E i \in DOMAIN buf : buf[i].kind \in Asking \ {"confirm"}
Asks(buf)        == \E i \in DOMAIN buf : buf[i].kind \in Asking

Full(buf) == Len(buf) = BufferSize

Final == {"enter", "confirm"}

(* The last question on the screen once buf is shown: that of the reply    *)
(* its end belongs to, or the one before.                                  *)
LastShown(buf) == IF Last(buf).kind \in Final \cup {"half"} THEN Last(buf).nr
                                                           ELSE Last(buf).nr - 1

(* The client takes a part for the whole: its buffer is full, a name looks *)
(* like a question, or a question has arrived but for its end.             *)
Early(buf) == /\ Last(buf).kind \notin Final
              /\ \/ Full(buf)
                 \/ \E i \in DOMAIN buf : buf[i].kind = "name"
                 \/ Last(buf).kind = "half"
Cut(buf)   == Last(buf).kind = "half" /\ ~Full(buf)

(* read_complete_response goes on until it has what looks like a question  *)
(* or no room; handle_connection compares what it got with "EXIT".         *)
Receive ==
    /\ client = "receive"
    /\ \E n \in 1..Len(toClient) :
          LET buf == buffer \o SubSeq(toClient, 1, n) IN
          /\ Len(buf) <= BufferSize
          /\ Cut(buf) => slips < MaxSlips
          /\ toClient' = SubSeq(toClient, n + 1, Len(toClient))
          /\ IF ~Asks(buf) /\ ~Full(buf)
                THEN buffer' = buf /\ UNCHANGED <<client, shown, slips>>
                ELSE /\ buffer' = <<>>
                     /\ client' = IF Len(buf) = 1 /\ buf[1].kind = "exit"
                                     THEN "goodbye" ELSE "type"
                     /\ shown' = LastShown(buf)
                     /\ slips' = IF Early(buf) THEN slips + 1 ELSE slips
    /\ UNCHANGED <<place, asked, turns, toServer, input, answer, lost>>

(* Mutant: the end of the session discards what is under way.              *)
ClosedHard == place = "exit"
Closed     == place = "exit" /\ toClient = <<>>

(* Mutant: only a negative result of recv counts, 0 is tried again.        *)
RetriesForEver == client = "receive" /\ Closed /\ UNCHANGED vars

(* recv returns 0, and what came before it is not shown.                   *)
Disconnected ==
    /\ client = "receive"
    /\ Closed
    /\ client' = "disconnected"
    /\ lost' = buffer \o toClient
    /\ UNCHANGED <<place, asked, turns, toClient, toServer, buffer, shown, input,
                   answer, slips>>

-----------------------------------------------------------------------------
(* What the user types is for the question on the screen.  A line longer   *)
(* than what the session reads at once may arrive in two parts.            *)
Line(n, long) == IF long THEN <<[nr |-> n, whole |-> FALSE], [nr |-> n, whole |-> TRUE]>>
                         ELSE <<[nr |-> n, whole |-> TRUE]>>

Type(long) ==
    /\ client = "type" /\ place # "exit"
    /\ long => slips < MaxSlips
    /\ toServer' = toServer \o Line(shown, long)
    /\ input' = shown
    /\ client' = "receive"
    /\ UNCHANGED <<place, asked, turns, toClient, buffer, shown, answer, lost, slips>>

(* The result of fgets is not looked at: at the end of the input the line  *)
(* typed before is sent again.                                             *)
Resend ==
    /\ client = "type" /\ place # "exit" /\ input # 0
    /\ slips < MaxSlips
    /\ toServer' = toServer \o Line(input, FALSE)
    /\ slips' = slips + 1
    /\ client' = "receive"
    /\ UNCHANGED <<place, asked, turns, toClient, buffer, shown, input, answer, lost>>

(* The session is over: send is still accepted, or it fails, and then the  *)
(* client does not receive what is left in the stream.                     *)
TypeInVain ==
    /\ client = "type" /\ place = "exit"
    /\ \/ client' = "receive" /\ UNCHANGED lost
       \/ client' = "refused" /\ lost' = toClient
    /\ UNCHANGED <<place, asked, turns, toClient, toServer, buffer, shown, input,
                   answer, slips>>

Ended   == client \in {"disconnected", "refused", "goodbye"}
Stopped == Ended /\ UNCHANGED vars

Next ==
    \/ Hear
    \/ Receive \/ Disconnected
    \/ \E long \in BOOLEAN : Type(long)
    \/ Resend \/ TypeInVain
    \/ Stopped

Spec == Init /\ [][Next]_vars

(* The server's thread and the client run; the user owes nothing.          *)
FairSpec == Spec /\ WF_vars(Hear) /\ WF_vars(Receive) /\ WF_vars(Disconnected)

-----------------------------------------------------------------------------
(* Properties *)

(* Every variable has its type.                                            *)
TypeOK ==
    /\ place \in Places \cup {"exit"}
    /\ asked \in Nat /\ turns \in Nat /\ shown \in Nat /\ input \in Nat
    /\ toClient \in Seq(Token) /\ buffer \in Seq(Token) /\ lost \in Seq(Token)
    /\ toServer \in Seq([nr : Nat, whole : BOOLEAN])
    /\ client \in {"receive", "type", "disconnected", "refused", "goodbye"}
    /\ answer \in [asked : Nat, typed : Nat]
    /\ slips \in Nat

(* An answer is used for the question it was typed for, unless a side took *)
(* a part for the whole before: a listing longer than the client's buffer, *)
(* a name with "Enter " in it, a question or a line that arrived in two    *)
(* parts, the end of the user's input.  Each of these costs one question   *)
(* at most: the user's answers are never further behind than that.         *)
AnswersLag ==
    /\ answer.typed <= answer.asked
    /\ answer.asked <= answer.typed + slips

(* Client and session never wait for one another: every read of the server *)
(* follows a message the client takes for a question.                      *)
NobodyWaits ==
    client = "receive" /\ toClient = <<>> /\ toServer = <<>> => place = "exit"

(* When recv finds the stream closed, all that the session said has been   *)
(* shown but for a part of its last reply, the end.  When a send fails,    *)
(* whole replies may never be received, the end among them: one for each   *)
(* slip at most, and none if there was no slip.                            *)
UnseenWithinSlips ==
    \A i \in DOMAIN lost : IF client = "disconnected" THEN lost[i].nr = asked
                                                     ELSE asked < lost[i].nr + slips

(* A client that receives is asking its user again, or over, some day.     *)
ResponseArrives == client = "receive" ~> client # "receive"

=============================================================================
