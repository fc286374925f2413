# Verification of the course registration system

TLA+ specifications of the server in `src/`: what its threads do to the shared
`.dat` files, which promises survive every interleaving, failed write and crash,
and which do not, and what they do to each other as threads of one process. TLC
checks the specifications on small instances; TLAPS proves, for every instance,
all the invariants and action properties that the passing runs check.

## 1. The system

`server.c` accepts TCP connections and gives each client one detached thread.
The thread asks for a login, then runs the menu of an administrator, a faculty
member or a student, one call at a time. The calls work on five binary files of
fixed-size records: no record is cached, every call opens, scans and rewrites.

| Component | Source | State | Operations |
|---|---|---|---|
| enrollment | `utils/file_ops_enrollment.c`, handlers in `controllers/student_controller_*.c` | `enrollments.dat`, the seat counts in `courses.dat`, the course list in `student.dat` | `enroll_student`, `unenroll_student` |
| seat limit edit | `controllers/faculty_controller_ops.c` | `max_seats`, `available_seats` | `update_course_details` |
| course catalogue | `utils/file_ops_course.c`, `controllers/faculty_controller_*.c` | `courses.dat`, `courses.dat.tmp` | add, update, remove, purge, look up, list |
| student accounts | `utils/file_ops_student.c`, `controllers/admin_controller_*.c` | `student.dat` | add, activate, block, modify, change password, log in |
| faculty and admin accounts | `utils/file_ops_core.c` | `faculty.dat`, `admin.dat` | the same without blocking; admins only log in |
| mutexes | `metrics/lock_stats.c` | `g_course_mutex`, `g_enroll_mutex`, `g_student_mutex` | lock, unlock |
| file locks | `metrics/lock_stats.c` | fcntl locks of the process | `lock_file`, `unlock_file` |
| server | `server.c`, `common_utils.c` | threads, sockets | accept, session, SIGINT |
| metrics, lock statistics | `metrics/` | counters, latency ring | record, print |
| logger | `logging/logger.c` | one log file | log, rotate |
| menus and views | `controllers/*.c` | where a session is in its dialogue | ask, list |
| client | `client.c` | what it has received, the line typed last | receive, show, type |
| benchmarks, seeder | `benchmarks/` | none of their own | |

How they interact: all sessions share the files and the three mutexes.
`enroll_student` takes `g_course_mutex` and inside it `g_enroll_mutex`, later
`g_student_mutex` alone; `unenroll_student` takes the three one after the other.
**Everything else takes no mutex**: editing, adding and removing courses,
purging, and every account operation except the list part of enrolling and
dropping. `fcntl` locks belong to the process, so inside the one server they make
no thread wait (the header comment of `enroll_student` says so too); they are
left out of all modules. Client and session exchange plain text on a TCP stream:
nothing marks where a reply or an answer ends.

What is hard here: calls read a whole record, wait (for a mutex or for the
user's typing) and write the whole record back; one operation is several writes
in several files, with a crash possible between any two; results of most writes
are not looked at; a purge replaces `courses.dat` under descriptors that are open.
`PROJECT.json` lists these hazards line by line.

What makes the components correct:

* enrollment: seats and records add up (`SeatsAccounted`), no overbooking, no
  student enrolled twice as long as the records can be read, no mutex left behind,
  answers that are true, a list that agrees with the records, every call returns;
* catalogue: a course on offer is never lost, a removed one is not on offer,
  ids and codes are distinct, look-ups find the course on offer;
* server: the client count, the latency ring, the lock statistics and the log agree
  with what the sessions did; SIGINT ends the process; a session whose client is
  gone does not go on for ever;
* accounts: ids are distinct as long as the records can be read, calls touch only
  their own student, an answered change stays until the next one;
* dialogue: an answer goes to the question it was typed for, what the session says is
  shown up to its farewell, unless the client goes first, and client and session never
  wait for one another.

## 2. The modules

| Module | Models | Lines in `map` |
|---|---|---|
| `Enrollment` | enroll, drop and seat-limit edit at the granularity of lock calls and file accesses, with file errors and crashes | all of `enroll_student`, `unenroll_student`, `update_course_details` |
| `SeatLedger` | what enrolling promises: seats and roster change together in one step | abstract specification |
| `EnrollmentProofs` | theorems about `Enrollment`: types, mutexes, records | |
| `SeatProofs` | theorems about its seats: the sum, the limit, the refinement | |
| `StudentProofs` | theorems about what its students see: answers and lists | |
| `Catalog` | adding, removing, purging on inodes, enrolling and dropping through open descriptors | all of `file_ops_course.c`, `add_new_course`, `remove_course_handler` |
| `CatalogProofs` | theorems about `Catalog` | |
| `Extremes` | lemmas about `Min` and `Max`, for the other proofs | |
| `Accounts` | rewrites of student and faculty records, login | all of `file_ops_student.c`, the faculty part of `file_ops_core.c`, the admin controllers, the logins, the two password dialogues |
| `AccountsProofs` | theorems about `Accounts` | |
| `Server` | the accepting thread, the reporter, sessions, SIGINT and SIGPIPE, and the three mutexes of metrics, lock statistics and a rotating log | `server.c`, `common_utils.c`, most of `metrics/`, `logging/logger.c`, the logins and the student menu |
| `ServerProofs` | theorems about `Server` | |
| `Dialogue` | the questions of all menus on one side, the reading loop of the client on the other | `client.c`, `common_utils.c`, `handle_client`, all of `controllers/` |
| `DialogueProofs` | theorems about `Dialogue` | |
| `MCEnrollment`, `MCCatalog`, `MCAccounts`, `MCServer`, `MCDialogue` | the instances for TLC | |

`Enrollment` implements `SeatLedger` (`ImplementsLedger`). The modules meet at the files:
`Catalog` has the writes of `Enrollment` to `courses.dat` and `Accounts` those to
`student.dat`, each with the mutexes they take; `Server` has every call as the locks,
counters and lines it costs, and `Dialogue` as the questions it asks.

**Steps.** Another thread can get in wherever a call locks a mutex or touches a
file, and the models cut there: one action per lock call, per scan and per
write. Reading or writing one record is atomic (`read` and `write` of less than
a page on a local file). `pc[t]` names the place in the code; the locals that
survive a cut are variables (`snap` is `Course course`, `list` the array of
`Student student`, `slot` is `next_id` or the offset found by a drop).

**Enrollment.** `BeginEnroll` ... `AddToList` follow `enroll_student` line by
line, `BeginDrop` ... `RemoveFromList` follow `unenroll_student`. The important
facts of the code are where its copies are made: an enroll re-reads the course
under the mutex (`ReadCourse`), a drop reads it before any mutex (`GetCourse`)
and writes that copy back, an edit reads it before a dialogue
(`GetCourseToEdit`, `FinishEdit`). `Crash` is the end of the process by SIGINT
(`handle_signal` exits with the other threads where they are) or by SIGPIPE,
followed by a restart: the files stay. With `FilesCanFail` every open, fcntl,
read or write whose failure the code can meet may fail, and the action does what
the code does: return early, or go on as if nothing had happened. A failed `open` or
`lock_file` is an early return. **A failed `read` is not**: every search is a
`while (read(...) > 0)`, which takes it for the end of the file. A search for one record then
answers that it is not there (`GiveUp`); the scan of `enroll_student` goes on with what it has
read until then, `ReadBefore`, and may append a second record of a pair or an id that is in use. The
history variable `blind` has the places in the file that were filled, or are about to be, after
a scan cut short in this way; properties that depend on the scan name it. A limit is whatever
`atoi` makes of what a teacher typed, so `InitialSeats` may be negative: `add_new_course`
(`faculty_controller_core.c` lines 154-155) checks nothing.
The catalogue is fixed in this module and every course is ACTIVE. The array of
ten courses is `MaxCourses`.

**Catalog.** `data[f]` is the content of inode `f`; `cat` and `tmp` are what the
names `courses.dat` and `courses.dat.tmp` stand for. A thread that opened a file
keeps writing to that inode after a rename. `OpenTmp` is the
`O_CREAT|O_TRUNC` open: a temporary file that exists is emptied and shared.
Searches end at a failing read as in `Enrollment`; the copying loop of the purge
ends there too and the rename then throws away what was not copied. `ListCap` is the 100 of
`get_all_courses`: `add_new_course` takes one more than the highest id of the ACTIVE courses
that it listed (`AllCourses`), however few they were.
Enrollment records are a set of pairs here. `overwritten` is a history variable: a drop
has written its copy over a record that is not the one it copied (`Overwrites`). It can,
because a drop copies the course before it has any mutex, whatever status the record has,
and finds the place to write to by id alone, after an id may have been given out again. A removal is
`BeginRemove, RemoveRead, UpdateFind, UpdateWrite`, then the purge
`OpenOld, OpenTmp, CopyRecord*, Rename`. Each copied record is a step; that is
the window in which a student's write to the old file is lost.

**Accounts.** All writers of `student.dat` fetch the record (`Get`), change one
field and write all of it (`Update`). The variable `told` collects what the
answers said; it takes part in no guard. `ListCap` is the 100 of
`get_all_students` and `get_all_faculty`. When these fail, the handler that adds
searches an array and a count it never set, so `IdsChosen` is any id.
The search of `add_student` and `add_faculty` for the id may be cut short by a failing read
(`AddScan`, `ReadBefore`); until the seek `off` has the number of records that were read, and
`blind` is as in `Enrollment`.

`faculty.dat` has code of its own in `file_ops_core.c`, with the same steps: the variable
`table`, chosen in `Init` and never changed, says which of the two files a behaviour
is about. The differences are actions of their own: `update_faculty` looks at the
result of its write (`UpdateFaculty`; `Update` does not), faculty are not blocked
and have no list. `admin.dat` is only searched while the server runs:
`add_admin`, `get_admin_by_id` and `get_all_admins` are called by nothing.

The process may die in `Enrollment` and `Catalog`; in `Accounts` each call makes one
write, so that a death between two steps leaves the file as if the call had not
begun, and there is no crash step.

**Server.** `todo[x]` is the straight-line code thread `x` runs before it next
reads from its client: messages and calls on the shared structures, in the
order of the source. Each call is two steps, `Enter` (lock and read) and `Leave`
(write and unlock), so that a signal can strike between them; `seen[x]` is what
was read, and is what the update starts from. `pc[c]` says where the session is
when `todo[c]` is empty. Three things the source does not show at first sight are
modelled as they are:

* `handle_client` returns at line 80 without `metrics_client_disconnect` when the
  client goes away before it chooses a login type (`HangUp`), so `current_clients`
  counts such a client for ever; `ClientsCounted` states exactly that;
* menus do not look at the result of `receive_input`, so the menu of a client that
  is gone comes again and again (`ChooseBadly`), until writing it raises SIGPIPE,
  which nothing catches: the whole server ends (`BrokenPipe`). `LostMenuEnds`
  states that the loop ends, and this is the only way it can;
* `handle_signal` takes the three mutexes inside the thread the signal was
  delivered to. That thread stays where it is; if it has a mutex, the handler waits
  for its own thread (`Hung`) and the server neither ends nor prints its summary
  (the README of the repository, line 66, announces one on Ctrl+C).
  `InterruptEndsServer` states the promise for all other threads.

The log is rotated inside the same mutex: `Rotated` renames the file to `.1`, over the
one before, and opens a new one, which may fail; from then on the file is not
looked at again and lines go to stderr. The rename may fail too (`RenameCanFail`): its
result is not looked at, and the old file is opened again and goes on growing. `LogSize` stands for `LOG_ROTATE_BYTES`.

What the client's TCP does is external: it takes one write after the client has
gone (`written`) and refuses it some time later (`Reset`); the write after that
raises SIGPIPE. Internal locks of the C library (`malloc`, `stdio`) that the handler
might also meet are left out, as are sums, minima and maxima of times. The latency
of a session is told apart by the client's name. `finished` is a history variable.

**Dialogue.** `Script` gives for each question the questions that may follow its answer;
it is the union of one record per handler, and what the handler does with the answer
is in the other modules. A reply is a sequence of tokens, each with the number of the
question it belongs to: `text`, `name` (a row or greeting in which the word "Enter "
occurs), `enter` and `confirm` (the end of a question, with the word the client looks
for), `half` (the part before the second "Enter" in "... (or press Enter to keep
current): "). `Receive` appends what one `recv` returns, any part of the stream that is
there, until `read_complete_response` sees one of the words or its buffer is full;
`Hear` is one `read` of `receive_input`, which takes everything that is there for one answer.
The numbers are never looked at by either side: they are there to say which answer
was typed for which question. A *slip* is counted when a side takes a part for the
whole, and when more is sent than was typed.

The farewell is a case of its own: the last reply of a session (such as "Wrong
password! Login failed." and "EXIT") has no word of a question in it, so `recv` is
called again, returns 0, and what was received is dropped (`Disconnected`). A client that
is behind may still be typing when the session is over. Its `send` is accepted, or fails
(`TypeInVain`, client "refused"): then it stops without receiving what is left in the
stream, and that is `lost`, whole replies of the session included. The
comparison with "EXIT" in `client.c` line 99 is never reached with that text alone in
the buffer, so its client never says good-bye: the value "goodbye" of `client` does not occur.

`told` in Accounts, `promise` and `overwritten` in Catalog, and `blind` in Enrollment and
Accounts are history variables for stating properties only; `calls` and `crashes` carry the bounds.

`StructuresAgree` in Server compares three structures with three mutexes. What a
thread has recorded (`Done`) and what is on its list still (`Owed`, counted over all
lists) make what it will have told (`Told`), and that is what adds up at every instant:
locks with latencies, logins with requests, operations and sessions with lines.

## 3. The runs

Passing runs:

| Run | Instance | What it shows |
|---|---|---|
| `enroll_race` | three sessions of two students (one logged in twice), two courses with 1 and 2 seats, two enrolls each | enrolling alone loses and invents no seat at any instant, overbooks nothing, and implements `SeatLedger`: a seat goes when the record is appended |
| `all_operations` | one student logged in twice, a teacher, a course of two seats and one that was added with the limit -1; new limits -1, 0, 3; array of one place; failing files and reads; one crash | what holds whatever happens: mutexes are released on all return paths, no count goes below zero or below the negative limit the course was added with, a second record of a pair and an id that is not above all before it come only of a scan that a failing read cut short, a history only appended to and cancelled by its own session; and `SeatsLostOnlyBy`: stale copies, ignored errors and crashes are the only ways to lose a seat |
| `own_sessions` | two students with one session each, two courses, enroll and drop, one crash | answers are true, the list agrees with the records between calls, every call returns |
| `one_teacher` | one teacher (two calls), two students (one call each, one of them enrolled already), one crash | while one teacher at a time changes the catalogue and no drop writes over another record, courses on offer stay listed, distinct and found; calls return, and the seats of a course are lost only for the four reasons of `SeatsLostOnlyBy` |
| `student_records` | students, or faculty, one record at the start; one administrator, two sessions, two calls each, failing files and reads | the id chosen is often taken, and given twice only after a search that a failing read cut short; only a call about a user changes that user; answered changes are lost only through stale copies, ignored errors and such searches; a list is never changed by another list call between being re-read and written |
| `two_clients` | two sessions, the reporter, a SIGINT; client `c` may ask for any menu, make one choice and go away anywhere, client `d` asks for no valid menu and stays; a ring of one sample | no update under the three mutexes is lost, `current_clients` and the peak are right up to early leavers, the ring holds the last sessions, the three structures agree up to calls under way, the log keeps its latest lines without a gap, SIGINT ends the server unless it strikes inside a mutex, lost menus end |
| `one_dialogue` | every dialogue of the three menus, two choices at the menu; a buffer of three tokens, a listing of three, names that look like questions, streams cut anywhere, up to two cut questions, long lines or resent lines | an answer is used for the question it was typed for, up to one question later for each slip; client and session never wait for one another; when the client finds the stream closed only a part of the last reply was not shown, when its `send` fails at most one reply for each slip was not; the client comes back to its user |

Runs that show a disagreement between the code and what the repository says
about it (each is a finding in `PROJECT.json`):

| Run | Violates | What happens |
|---|---|---|
| `drop_overbooks` | `NoOverbooking` | a drop copies the course, two others enroll and drop meanwhile, the drop writes its copy plus one: a seat too many, and one more student gets in than there are seats |
| `crash_tears` | `SeatsMatchRecords` | record appended, process gone, seat never taken |
| `purge_loses_course` | `OfferedListed` | a purge copies the file, another teacher adds a course, the rename throws it away |
| `removed_comes_back` | `RemovedStaysOut` | an enroll holds an ACTIVE copy while the course is marked INACTIVE, writes it back, and the purge keeps the course |
| `hundred_students` | `NextIdIsHighest` | the next student id is the highest of the first `ListCap` records only |

Two further disagreements have no run of their own. A drop can destroy a course that was
added while it waited: one teacher, one student in a course that is being removed, who
begins to drop it and copies the INACTIVE record; the purge ends, the teacher
adds a course, which gets the same id, and the drop writes its copy over it, although
`g_course_mutex` "protects COURSE_FILE" (`metrics/lock_stats.h` line 28). TLC finds this
when `one_teacher.cfg` names `OfferedOnFile` in place of `OfferedListed`, which is the same
without the condition `~overwritten`. And `update_course_details` compares the new
limit with a copy of the course as old as the dialogue, so the limit can be set below
the number enrolled by then, although the comment at line 102 says it cannot.
`SeatsLostOnlyBy` names it as one of its reasons (a stale copy that is written back).

**Bounds and why they are enough.** Each hazard involves at most two calls
besides the one that suffers: two writers of one record, a writer and a purge, a
call and a crash. Two calls per session let a call follow another in the same
session (enroll then drop, add then remove). Two students and two seats let a
course fill and empty; three students are needed to overbook two seats. `MaxId`
leaves one id free to be given out; `MaxCourses` is 1 in `all_operations`, so that
the full array is reached, and 10 where it must not matter; `ListCap` is 1 in
`student_records` and 2 in `hundred_students`, so that it is passed, and the real 100 in
`Catalog`, where it is not. One
crash suffices to tear one call; after it, the sessions go on. `Catalog` is run
with files that do not fail (with failing ones `add_course` answers SUCCESS for a
course that is not there, a hazard of its own), so its error branches are read,
and proved to keep the types, but not run. `student_records` uses the symmetry of its two
sessions and checks no liveness. `all_operations` has a `VIEW`, `Underway`: two states are
the same if they differ only in what calls that are over were about and have answered. No
action reads either, and no property of the run but the types.

In `two_clients` the bounds are per client: `d` finishes a session of its own, which is
what the count, the peak and the full ring need, and `c` does everything else;
SIGINT strikes `c`, inside each mutex and outside. Menu operations lock one file. `LogSize` is 2,
so that the log rotates several times. `RenameCanFail` is FALSE, for want of time: the
run would take more than twice as long. `LogIsLatest` is proved for both values.

In `one_dialogue` the buffer holds three tokens, so that a listing fills it exactly and a
question still fits behind a name; two choices put every dialogue before and after
another. `MaxSlips` bounds the slips of network and user only: with two of them the
lag of one adds to the lag of the other, and those of the buffer come on top. Widths of arrays
are not counted: any line may arrive in two parts.

**Deadlock** is checked in every run: a server whose sessions all sit at the menu
takes the step `Waiting`, a dead or hung one in `Server` the step `Stopped`, so any
other halt is reported. `Dialogue` may stop only when the client has ended (`Stopped`);
a client at its keyboard can always type.

**Fairness.** `EveryCallReturns` assumes weak fairness of each thread's steps
after its call has begun: a thread that can run is run some day by the scheduler.
Nothing is assumed about when users begin calls, how long they type, or
crashes. Weak fairness is enough because in the instances each session makes
finitely many calls, so a mutex cannot be taken by others for ever; a pthread
mutex, which promises no order, gives no more. In `Server` the reporter takes the metrics mutex
for ever, but leaves it free for ten seconds each time: strong fairness of the lock
calls of sessions and handler. The other steps of a thread, and the refusal of a
write by a client that is gone, are weakly fair. Clients and SIGINT owe nothing. In `Dialogue` the session's thread and the client's
receiving are weakly fair, as both run whenever there is something to read; the user
owes nothing.

## 4. The proofs

`EnrollmentProofs` proves, for any sets of courses, students and sessions, any
account and limit assignment, any array length and any number of calls and
crashes (assumptions `SessionsAssumption`, `DataAssumption`, `BoundsAssumption`,
which TLC evaluates in every run of `Enrollment`):

| Theorem | States |
|---|---|
| `TypeCorrect` | `[]TypeOK` |
| `LocksReleased` | `[]LockDiscipline`: a mutex is held exactly between its lock and unlock calls |
| `SeatsNeverNegative` | `[]SeatsNonNegative`, for limits of any sign |
| `NobodyEnrolledTwice` | `[]NoDuplicateEnrollment`, failing reads excepted (`blind`); where files do not fail there is no exception |
| `IdsAreDense` | `[]EnrollmentIdsDense`, with the same exception |
| `ListsFit` | `[]StudentListBounded` |
| `DropsItsOwn` | `[]CancelsOwnRecord` |
| `HistoryIsKept` | `HistoryKept` |

They rest on one inductive invariant `IInv`. None of the properties is inductive
by itself:

* `LockDiscipline` with `TypeOK` gives mutual exclusion of the two critical
  sections on `enrollments.dat`;
* "no double enrollment" needs that an enroll that has scanned the whole file
  still finds no record of its pair when it appends, and "ids above all before" that its
  `next_id` is still above all (`AppendIsFresh`): no other thread can be there at the
  time, because of `g_enroll_mutex`. No id is above its place in the file (`IdsInPlace`),
  whatever was cut short, which makes the ids dense while nothing was;
  `ScansWhole` says that `blind` is empty where no read fails;
* `CancelsOwnRecord` is kept for the same reason, which the history property uses;
* "seats not negative" needs `CopiesHaveSeats`, about copies rather than the file:
  the copy of an enroll past its check has a seat, the copy of a drop or an edit is
  not below `Floor`, which is 0 or the negative limit of the course. It needs no mutex, which
  is why it survives stale writes;
* `StudentListBounded` needs `CopiesBounded`, the same for the copies of lists.

Each action of `Next` has a lemma, with one step per conjunct that the action can
disturb.

`SeatProofs` is about the sum of seats, under the same assumptions:

| Theorem | Assumes | States |
|---|---|---|
| `SeatsNeverJustVanish` | nothing more: every operation, failing files, crashes | `SeatsLostOnlyBy` |
| `SeatsAddUp` | `OnlyEnrolling` | `[]SeatsAccounted` |
| `LimitIsKept` | `OnlyEnrolling` | `[]NoOverbooking` |
| `EnrollingIsAtomic` | `OnlyEnrolling` | `ImplementsLedger`, the refinement of `SeatLedger` |

`OnlyEnrolling` is the race the benchmark of the repository runs: no drops, no edits, no
failing file, no crash, but any number of sessions. The run `drop_overbooks` shows that the
sum and the limit do not survive a drop. `Gap` counts three sets; each step moves one record or one seat
from one to another (`AppendGap` and the lemmas after it). The sets have to be
finite for their sizes to mean anything: those that owe a seat have the course mutex
(`OwingOne`), those that return one are finitely many as calls begin one by one
(`ReturningFinite`). For the race, the invariant `EnrollingInv` adds that the copy made
under the course mutex is the record until the seat is taken (`FreshCopies`); with it
each step is a step of the ledger or leaves it as it is. A course with a negative limit
stays empty: `LimitIsKept` is about the courses somebody is enrolled in.

`StudentProofs` is about one session per student and files that do not fail
(`OneSessionEach`), with drops, edits and crashes of everybody else going on:

| Theorem | Assumes | States |
|---|---|---|
| `AnswersAreTrue` | `OneSessionEach` | `[]AnswersTrue` |
| `ListsAgree` | `OneSessionEach`, `ListsLongEnough` | `[]ListMatchesRecords` |

`ListsLongEnough` says that the array of the student record has a place for every course:
the code enrolls a student all the same when it is full, and the list then misses a
course. Two sessions of one student can make an answer untrue at once, as the other session
drops. The invariants say what each call has done at each of its steps: the record is
there after the append and gone after the mark (`CallKept`); the list, which is changed
later and under another mutex, is one course behind or one too many in exactly these steps
(`ListKept`), and the copy it is changed from is the list. `ListKept` counts on the list having no course twice, so that
removing the first occurrence removes the course.

`CatalogProofs` proves, under `CatalogAssumption`:

| Theorem | Assumes | States |
|---|---|---|
| `CatalogTypes` | nothing more: any teachers, failing files | `[]TypeOK` |
| `OfferedStaysListed` | `OneTeacher` | `[]OfferedListed` |
| `CoursesStayDistinct` | `OneTeacher` | `[]CoursesDistinct` |
| `OfferedIsFound` | `OneTeacher` | `[]OfferedFound` |
| `SeatsStayOrAreExplained` | `OneTeacher`, finitely many students | `SeatsLostOnlyBy` |

`OneTeacher` is one teacher, files that do not fail and a `courses.dat` of ACTIVE records
with distinct ids and codes; two teachers break the properties (`purge_loses_course`).
Students, calls and crashes are any number. The invariant has two parts. `Structure` holds always: which inode
each descriptor is of and which index it will write to (`FilesApart`: nobody but the teacher
writes to the half written copy), and that students' calls are alone between their
lock and unlock (`OneInside`). `Content` holds until a drop has written over another record:
the record an enroll is about to write is the one it copied, except that it may have been
marked INACTIVE meanwhile (`EnrollCopies`, which makes reviving it the worst that can happen); a removal marks
the record it looked up; what the scan of `add_course` found stays true; and the copy a purge is
making has every listed course passed so far once and nothing else (`CopyFaithful`), so that
the rename changes no answer. Without `overwritten` none of this is inductive, which is how that disagreement
was met (section 3).

`SeatsLostOnlyBy` has no such condition, so `Content` is of no use for it: after a drop has written
over another record, its seats must still add up. `SeatInv` therefore adds to
`Structure` only what survives that. A call writes to the first record of its course
(`AtFirst`): in the file that has the name no record moves and none changes its id, as a write, stale
or not, is of a record with the id found there; a purge, which moves them, gives the name to another file. The seats that an enroll has copied are those of
the record (`SeatsFresh`), unless the course is being removed; and a course that is being removed
is no longer promised to anybody (`NotOffered`). Each step of a student then moves a seat of one course between the file,
a call and an enrollment, in equal parts (`GapMoves`, from the lemmas about sizes of finite sets); each step of a teacher
leaves the seats of a course on offer where they are. The rename is the
exception: it may bring back an old count, and that is `OldCopy`.

`ServerProofs` proves, for any clients, menu operations and ring
(`ServerAssumption`):

| Theorem | States |
|---|---|
| `NothingGoesStale` | `[]NothingStale`: what a thread reads inside a mutex is there when it writes |
| `MutualExclusion` | one thread at most between the lock and unlock calls of each mutex |

The invariant says that a thread inside has the mutex of the first item of its
`todo` (`HasItsMutex`); to keep it, the two places where a `todo` is filled from
outside need that it was empty: the handler's before the signal (`HandlerSleeps`) and
a client's before it is accepted (`NewIsIdle`).

For finitely many clients (`IsFiniteSet(Client)`: a process accepts one after the other, and a
count of infinitely many would mean nothing):

| Theorem | States |
|---|---|
| `EveryClientIsCounted` | `[]ClientsCounted` |
| `OneStory` | `[]StructuresAgree` |
| `ServerTypes` | `[]TypeOK` |
| `RingIsLatest` | `[]RingHoldsLatest` |
| `LogIsLatest` | `[]LogKeepsLatest` |

All five are parts or consequences of one more invariant, `CountInv`, on top of the one for the mutexes: an
item is done to the value it has read, which is the one that is there (`NothingStale`).
It adds the types of everything a thread may have to do (`Todos`); that a session counts
itself in once and out once, at its start and its end (`Counting`); where in the
ring the last sessions are, by the remainder of the index (`RingInv`); and that the two log files are two
adjacent intervals of line numbers that end at the last line, also after a rename that
failed (`LogInv`). A step of the server either
moves an item from a list to a structure, which leaves `Told` as it is, or fills a list
from outside, and then all that is on the list has to be balanced (`Balanced`).

`AccountsProofs` proves, for any sessions, passwords, courses, limits, initial records
and numbers of calls (`AccountsAssumption`), and for **one administrator at most**
(`OneAdmin`, an assumption of each theorem: two that add at once choose the same id,
find it free and write to the same place):

| Theorem | States |
|---|---|
| `TypeCorrect` | `[]TypeOK` |
| `NoIdTwice` | `[]IdsDistinct`, failing reads excepted |
| `NobodyElseTouched` | `OthersUntouched` |
| `NoOtherLoss` | `ChangesLostOnlyBy` |
| `MutexKeepsListsApart` | `ListsApart` |

The invariant is about what a thread in the middle of a call goes by (`ThreadInv`): the
record it copied is that of its call and is in the file (`CopyInv`, which needs that a
session's user is in the file, `UsersFound`); the id it adds is in the file only if its search
was cut short, and the record will go right behind the last (`AddInv`, the place where one administrator is
needed); it has `g_student_mutex` where it should (`LockInv`). `Step` shows that every
step keeps it and is of one of three kinds: it leaves file and answers alone, it
writes back a record changed in the field the call is about (`Rewrites`), or it adds
one (`Adds`). The action properties follow from the kinds.

`DialogueProofs` proves, for any buffer of two tokens or more, any listings and any
number of choices and slips (`DialogueAssumption`):

| Theorem | States |
|---|---|
| `AnswersStayClose` | `[]AnswersLag` |
| `NeverStuck` | `[]NobodyWaits` |
| `UnseenAreFew` | `[]UnseenWithinSlips` |
| `DialogueTypes` | `[]TypeOK` |

Here the invariant describes the streams: what is between the sides is a suffix of replies
in order, each of which ends with a word the client knows, as long as the session goes on
(`StreamInv`, `BufferInv`, `WaitInv`); and for the lag it counts, for what is on
the screen, in the buffer and on its way, how many slips each question behind has
cost (`LagInv`). `BehindInv` counts the same from the client's side and after the session is
over: the questions that it has not received to their end are at most one for each slip, and one
more while it receives. What a client leaves behind when its `send` fails is
among them.

`DialogueTypes` rests on an invariant of its own (`Typed`): what follows a question in `Script` is
a question of some handler or the end (`Leads`, for which the records of all the handlers are gone
through), and all that is on the screen or on its way there bears the number of a
question that was asked.

Only model-checked: the liveness properties `EveryCallReturns`, `InterruptEndsServer`,
`LostMenuEnds` and `ResponseArrives`, as TLAPS here has no rule for `ENABLED` and
fairness. The five
violations are what TLC finds: the properties are false and there is nothing to prove.

## 5. Not modelled

Times, their sums, minima and maxima, and with them the part of `metrics/` that the
status says is missing; an index of the latency ring beyond 2^31; fcntl locks
between processes (there is one server process, in which they make nobody wait);
benchmarks and seeder. A `read` or `write` moves a whole record or fails: none ends
in the middle of one. A failing `fprintf` of the logger is left out, as is a line typed
at the client that is longer than the 1023 bytes its `fgets` takes at once. What is printed in listings
is a row or not a row: no property is about their layout. Names of users and courses take
part only as the codes of `Catalog` and the names of `Dialogue` that look like questions.

## 6. Plan

1. *Done:* `Enrollment` with `SeatLedger`, `Catalog`, `Accounts` for students and
   faculty, `Server` with its rotating log, `Dialogue`; proofs of every invariant the runs
   check, of the refinement to `SeatLedger` and of the action properties.
2. `FileLocks`: fcntl locks of two processes, each with threads closing
   descriptors; what mutual exclusion they give together with the mutexes.
