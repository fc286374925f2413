--------------------------------- MODULE Server ---------------------------------
(***************************************************************************)
(* The threads of server.c and what they share besides the data files: the *)
(* metrics, the lock statistics and the log, each under a mutex of its own *)
(* (metrics/metrics.c, metrics/lock_stats.c, logging/logger.c).  One       *)
(* thread accepts, one reports every ten seconds, one serves each client   *)
(* until the client logs out, vanishes or the process ends: by SIGINT,     *)
(* whose handler runs inside whatever thread the kernel picks, or by the   *)
(* SIGPIPE of a write to a client that is gone.                            *)
(*                                                                         *)
(* todo[x] is what thread x has to do before it next reads from its client *)
(* or accepts: messages to the client, and calls on the shared structures. *)
(* Such a call locks, reads, writes and unlocks; Enter is its lock and     *)
(* read, Leave its write and unlock.                                       *)
(***************************************************************************)
EXTENDS Integers, Sequences, FiniteSets, FiniteSetsExt

CONSTANTS
    Client,       \* clients; also the name of the thread that serves one
    Main,         \* the thread of main()
    Reporter,     \* periodic_stats_thread
    Handler,      \* handle_signal, in the thread it interrupted
    NoThread,     \* nobody
    MenuOps,      \* operations of the student menu with a latency of their own
    RingSize,     \* LATENCY_SAMPLES_MAX (10000)
    LogSize,      \* lines after which the log is rotated (LOG_ROTATE_BYTES, 10 MB)
    RenameCanFail, \* TRUE if the rename of the log may fail
    MaxChoices,   \* bound: MaxChoices[c] choices are made by client c in its menu
    Menus,        \* bound: Menus[c] are the menus client c may ask for
    LockKinds,    \* bound: the kinds of file lock that menu operations take
    Vanishing,    \* bound: the clients that may go away without logging out
    Interrupted   \* bound: the threads SIGINT may be delivered to

Thread == Client \cup {Main, Reporter}
Actor  == Thread \cup {Handler}
Mutex  == {"metrics", "stats", "log"}
OpType == MenuOps \cup {"auth", "file_op"}

ASSUME ServerAssumption ==
    /\ Main \notin Client /\ Reporter \notin Client \cup {Main}
    /\ Handler \notin Thread /\ NoThread \notin Actor
    /\ MenuOps \subseteq {"enroll", "drop", "course_query"}
    /\ RingSize \in Nat \ {0} /\ LogSize \in Nat \ {0} /\ RenameCanFail \in BOOLEAN
    /\ MaxChoices \in [Client -> Nat]
    /\ Menus \in [Client -> SUBSET {"student", "staff"}]
    /\ LockKinds \subseteq {"read", "write"}
    /\ Vanishing \subseteq Client /\ Interrupted \subseteq Thread

VARIABLES
    pc,        \* where a thread is once todo is done
    todo,      \* the items it has to do first
    holder,    \* holder[m]: the thread that has mutex m
    inside,    \* the threads between a lock and an unlock call
    data,      \* data[m]: the structure mutex m protects
    seen,      \* seen[x]: the structure as x read it, inside the mutex
    role,      \* the menu a client asked for
    peer,      \* peer[c]: the other end of the connection of c
    choices,   \* choices made so far by each client
    handler,   \* the thread SIGINT was delivered to
    process,   \* "running" or "dead"
    finished   \* clients in the order their sessions were timed

vars == <<pc, todo, holder, inside, data, seen, role, peer, choices, handler,
          process, finished>>

-----------------------------------------------------------------------------
(* The calls on the shared structures: what each makes of the structure.   *)

ClientConnect(m) == [m EXCEPT !.current = @ + 1, !.peak = Max({@, m.current + 1})]

(* Mutant: the count is kept from reaching zero.                           *)
KeepsOne(m)         == [m EXCEPT !.current = IF @ > 1 THEN @ - 1 ELSE @]
ClientDisconnect(m) == [m EXCEPT !.current = IF @ > 0 THEN @ - 1 ELSE @]

RecordRequest(m, result) == [m EXCEPT ![result] = @ + 1]
RecordLatency(m, op)     == [m EXCEPT !.count[op] = @ + 1]

(* The latency of a session is told apart by its client.                   *)
(* Mutants: the count goes on when the ring is full; a full ring takes no  *)
(* more samples.                                                           *)
CountsOn(m, c) == [m EXCEPT !.samples[m.writeIdx % RingSize] = c,
                            !.writeIdx = @ + 1,
                            !.latencyCount = @ + 1]
KeepsOldest(m, c) == IF m.latencyCount = RingSize THEN m
                     ELSE [m EXCEPT !.samples[m.writeIdx % RingSize] = c,
                                    !.writeIdx = @ + 1,
                                    !.latencyCount = @ + 1]
RecordSessionLatency(m, c) ==
    [m EXCEPT !.samples[m.writeIdx % RingSize] = c,
              !.writeIdx = @ + 1,
              !.latencyCount = IF @ < RingSize THEN @ + 1 ELSE @]

CountLock(s, kind) == [s EXCEPT ![kind] = @ + 1]

(* maybe_rotate: a log that is long enough becomes log.1, in the place of  *)
(* the one before, unless rename fails, and the log is opened again, or is *)
(* not: no result is looked at.  Mutant: there is one log, emptied when it *)
(* is long enough.                                                         *)
Emptied(l) == IF ~l.open \/ Cardinality(l.file) < LogSize THEN {l}
              ELSE {[l EXCEPT !.file = {}, !.open = opens] : opens \in BOOLEAN}
Rotated(l) == IF ~l.open \/ Cardinality(l.file) < LogSize THEN {l}
              ELSE {[l EXCEPT !.old = l.file, !.file = {}, !.open = opens] :
                        opens \in BOOLEAN}
                   \cup (IF RenameCanFail THEN {[l EXCEPT !.open = opens] :
                                                    opens \in BOOLEAN} ELSE {})

(* A line goes to the file, or to stderr if the log is not open.           *)
Written(l)     == [l EXCEPT !.lines = @ + 1,
                            !.file = IF l.open THEN @ \cup {l.lines + 1} ELSE @]
LogEvent(l)    == {Written(r) : r \in Rotated(l)}
LoggerClose(l) == [l EXCEPT !.open = FALSE]

(* What x may make of d.                                                   *)
After(x, does, d) ==
    CASE does = "connect"                   -> {ClientConnect(d)}
      [] does = "disconnect"                -> {ClientDisconnect(d)}
      [] does \in {"successful", "failed"}  -> {RecordRequest(d, does)}
      [] does \in OpType                    -> {RecordLatency(d, does)}
      [] does = "session"                   -> {RecordSessionLatency(d, x)}
      [] does \in {"read", "write"}         -> {CountLock(d, does)}
      [] does = "line"                      -> LogEvent(d)
      [] does = "close"                     -> {LoggerClose(d)}
      [] does = "print"                     -> {d}

(* Items of todo.                                                          *)
Item(on, does) == [on |-> on, does |-> does]
Message        == Item("client", "send")
Line           == Item("log", "line")
Measured(does) == Item("metrics", does)

(* The three reports lock a structure, print it and leave it as it is.     *)
PrintPeriodic == Item("metrics", "print")
PrintSummary  == Item("metrics", "print")
PrintLocks    == Item("stats", "print")
CloseLog      == Item("log", "close")

(* instrumented_lock_file counts the lock, then the wait as a latency.     *)
(* Mutant: only write locks are counted twice.                             *)
LockWriteOnly(kind) == IF kind = "write"
                       THEN <<Item("stats", kind), Measured("file_op")>>
                       ELSE <<Item("stats", kind)>>
LockFile(kind)      == <<Item("stats", kind), Measured("file_op")>>

Farewell == <<Message, Measured("session"), Measured("disconnect"), Line>>

(* The file operations of a call lock files: once here.                    *)
FileOps == {LockFile(kind) : kind \in LockKinds}

-----------------------------------------------------------------------------
NoMetrics == [current |-> 0, peak |-> 0, successful |-> 0, failed |-> 0,
              count |-> [op \in OpType |-> 0],
              samples |-> [i \in 0..RingSize - 1 |-> NoThread],
              writeIdx |-> 0, latencyCount |-> 0]

Zeroed == [metrics |-> NoMetrics, stats |-> [read |-> 0, write |-> 0],
           log |-> [open |-> TRUE, lines |-> 0, file |-> {}, old |-> {}]]

Init ==
    /\ pc = [t \in Thread |-> IF t = Main THEN "spawn" ELSE "none"]
    /\ todo = [x \in Actor |-> IF x = Main THEN <<Line>> ELSE <<>>]
    /\ holder = [m \in Mutex |-> NoThread] /\ inside = {}
    /\ data = Zeroed
    /\ seen = [x \in Actor |-> NoThread]
    /\ role = [c \in Client |-> "none"]
    /\ peer = [c \in Client |-> "away"]
    /\ choices = [c \in Client |-> 0]
    /\ handler = NoThread
    /\ process = "running"
    /\ finished = <<>>

Runs(x) == /\ process = "running"
           /\ x # handler
           /\ x = Handler => handler # NoThread

Idle(t, place) == Runs(t) /\ pc[t] = place /\ todo[t] = <<>>

Continue(t, items, place) ==
    /\ todo' = [todo EXCEPT ![t] = items]
    /\ pc' = [pc EXCEPT ![t] = place]

Shared == <<holder, inside, data, seen, finished>>

(* Mutant: the lock call does not wait.                                    *)
Unlocked(m) == TRUE
Free(m)     == holder[m] = NoThread

Enter(x) ==
    /\ Runs(x) /\ todo[x] # <<>> /\ x \notin inside
    /\ LET m == Head(todo[x]).on IN
          /\ m \in Mutex /\ Free(m)
          /\ holder' = [holder EXCEPT ![m] = x]
          /\ seen' = [seen EXCEPT ![x] = data[m]]
    /\ inside' = inside \cup {x}
    /\ UNCHANGED <<pc, todo, data, role, peer, choices, handler, process, finished>>

Leave(x) ==
    /\ Runs(x) /\ x \in inside
    /\ LET m    == Head(todo[x]).on
           does == Head(todo[x]).does
       IN /\ holder' = [holder EXCEPT ![m] = NoThread]
          /\ \E d \in After(x, does, seen[x]) : data' = [data EXCEPT ![m] = d]
          /\ finished' = IF does = "session" THEN Append(finished, x) ELSE finished
    /\ inside' = inside \ {x}
    /\ seen' = [seen EXCEPT ![x] = NoThread]
    /\ todo' = [todo EXCEPT ![x] = Tail(@)]
    /\ UNCHANGED <<pc, role, peer, choices, handler, process>>

(* The end of the process: its memory and its threads are gone.            *)
Die ==
    /\ process' = "dead"
    /\ pc' = [t \in Thread |-> "none"] /\ todo' = [x \in Actor |-> <<>>]
    /\ holder' = [m \in Mutex |-> NoThread] /\ inside' = {}
    /\ seen' = [x \in Actor |-> NoThread]
    /\ data' = Zeroed /\ finished' = <<>> /\ handler' = NoThread
    /\ role' = [c \in Client |-> "none"] /\ peer' = [c \in Client |-> "away"]
    /\ choices' = [c \in Client |-> 0]

(* send_message.  The kernel takes what is written to a client that has    *)
(* just gone; when the client's end has refused it, the next write raises  *)
(* SIGPIPE, which nothing in the server catches.                           *)
Sending(c) == Runs(c) /\ todo[c] # <<>> /\ Head(todo[c]) = Message

SendMessage(c) ==
    /\ Sending(c) /\ peer[c] # "reset"
    /\ peer' = [peer EXCEPT ![c] = IF @ = "gone" THEN "written" ELSE @]
    /\ todo' = [todo EXCEPT ![c] = Tail(@)]
    /\ UNCHANGED <<pc, role, choices, handler, process, Shared>>

(* Mutant: SIGPIPE is ignored, write returns -1 and send_message gives up. *)
WriteFails(c) ==
    /\ Sending(c) /\ peer[c] = "reset"
    /\ todo' = [todo EXCEPT ![c] = Tail(@)]
    /\ UNCHANGED <<pc, role, peer, choices, handler, process, Shared>>
BrokenPipe(c) == Sending(c) /\ peer[c] = "reset" /\ Die

-----------------------------------------------------------------------------
(* main(): the SERVER_START line, the reporter, the accept loop.           *)

Spawn ==
    /\ Idle(Main, "spawn")
    /\ pc' = [pc EXCEPT ![Main] = "accept", ![Reporter] = "sleep"]
    /\ UNCHANGED <<todo, role, peer, choices, handler, process, Shared>>

Accept(c) ==
    /\ Idle(Main, "accept") /\ pc[c] = "none"
    /\ Continue(c, <<Measured("connect"), Message>>, "type")
    /\ peer' = [peer EXCEPT ![c] = "here"]
    /\ UNCHANGED <<role, choices, handler, process, Shared>>

(* Without memory the connection is closed.  Without a thread it is kept:  *)
(* pthread_create reports errors as positive numbers, which "< 0" does not *)
(* see, and pthread_detach gets an uninitialized or an old thread id.      *)
AcceptInVain(c) ==
    /\ Idle(Main, "accept") /\ pc[c] = "none"
    /\ \/ /\ pc' = [pc EXCEPT ![c] = "unserved"]
          /\ UNCHANGED <<todo, role, peer, choices, handler, process, Shared>>
       \/ Die

(* metrics_print_periodic, every ten seconds.                              *)
Report ==
    /\ Idle(Reporter, "sleep")
    /\ Continue(Reporter, <<PrintPeriodic>>, "sleep")
    /\ UNCHANGED <<role, peer, choices, handler, process, Shared>>

-----------------------------------------------------------------------------
(* handle_client(c).                                                       *)

Session(c) == UNCHANGED <<handler, process, Shared>>

ChooseType(c) ==
    /\ Idle(c, "type") /\ peer[c] = "here"
    /\ \/ \E r \in Menus[c] :
             /\ role' = [role EXCEPT ![c] = r]
             /\ Continue(c, <<Message>>, "login")
       \/ /\ Continue(c, <<Message>> \o Farewell, "ending")
          /\ UNCHANGED role
    /\ UNCHANGED <<peer, choices>> /\ Session(c)

(* The early return: the socket is closed and nothing is counted down.     *)
HangUp(c) ==
    /\ Idle(c, "type") /\ peer[c] # "here"
    /\ pc' = [pc EXCEPT ![c] = "left"]
    /\ peer' = [peer EXCEPT ![c] = "away"]
    /\ UNCHANGED <<todo, role, choices>> /\ Session(c)

(* What a login does after the password was read, or not: the results of   *)
(* these two receive_input calls are not looked at.                        *)
Answered(c, result) ==
    LET verdict == IF role[c] = "student"
                   THEN <<Measured("auth"), Message, Measured(result), Line>>
                   ELSE <<Message>>
    IN LockFile("read") \o verdict

Login(c) ==
    /\ Idle(c, "login")
    /\ \/ /\ peer[c] = "here"
          /\ Continue(c, Append(Answered(c, "successful"), Message), "menu")
       \/ Continue(c, Answered(c, "failed") \o Farewell, "ending")
    /\ UNCHANGED <<role, peer, choices>> /\ Session(c)

(* One round of a menu: a measured operation, one that is neither measured *)
(* nor logged (all of the staff's are so), or a number that is not in the  *)
(* menu.  The menu and its prompt are one message, as are the messages of  *)
(* an operation; what an operation asks for takes no part here.            *)
Choose(c) ==
    /\ Idle(c, "menu") /\ peer[c] = "here"
    /\ choices[c] < MaxChoices[c]
    /\ choices' = [choices EXCEPT ![c] = @ + 1]
    /\ \/ /\ role[c] = "student"
          /\ \E files \in FileOps, op \in MenuOps :
                Continue(c, files \o <<Message, Measured(op), Line, Message>>, "menu")
       \/ \E files \in FileOps : Continue(c, files \o <<Message, Message>>, "menu")
       \/ Continue(c, <<Message, Message>>, "menu")
    /\ UNCHANGED <<role, peer>> /\ Session(c)

(* The end of the input is no number of the menu either: the menu comes    *)
(* again.                                                                  *)
ChooseBadly(c) ==
    /\ Idle(c, "menu") /\ peer[c] # "here"
    /\ Continue(c, <<Message, Message>>, "menu")
    /\ UNCHANGED <<role, peer, choices>> /\ Session(c)

Logout(c) ==
    /\ Idle(c, "menu") /\ peer[c] = "here"
    /\ Continue(c, <<Message>> \o Farewell, "ending")
    /\ UNCHANGED <<role, peer, choices>> /\ Session(c)

Close(c) ==
    /\ Idle(c, "ending")
    /\ pc' = [pc EXCEPT ![c] = "ended"]
    /\ peer' = [peer EXCEPT ![c] = "away"]
    /\ UNCHANGED <<todo, role, choices>> /\ Session(c)

-----------------------------------------------------------------------------
(* The client's end of a connection, and the kernel's answer to a write    *)
(* that nobody is there to read.                                           *)

GoAway(c) ==
    /\ process = "running" /\ peer[c] = "here" /\ c \in Vanishing
    /\ peer' = [peer EXCEPT ![c] = "gone"]
    /\ UNCHANGED <<pc, todo, role, choices>> /\ Session(c)

Reset(c) ==
    /\ process = "running" /\ peer[c] = "written"
    /\ peer' = [peer EXCEPT ![c] = "reset"]
    /\ UNCHANGED <<pc, todo, role, choices>> /\ Session(c)

-----------------------------------------------------------------------------
(* SIGINT, once (a bound), delivered to any thread there is.  The thread   *)
(* stays where it is, with the mutex it holds, while the handler runs.     *)

Alive(t) == pc[t] \notin {"none", "unserved", "left", "ended"}

Interrupt(t) ==
    /\ process = "running" /\ handler = NoThread
    /\ t \in Interrupted /\ Alive(t)
    /\ handler' = t
    /\ todo' = [todo EXCEPT ![Handler] = <<PrintSummary, PrintLocks, CloseLog>>]
    /\ UNCHANGED <<pc, role, peer, choices, process, Shared>>

(* Mutant: the handler returns without exit().                             *)
ClosesSocketOnly == Runs(Handler) /\ todo[Handler] = <<>> /\ UNCHANGED vars
Exit == Runs(Handler) /\ todo[Handler] = <<>> /\ Die

(* The handler waits for a mutex its own thread holds.                     *)
Hung == /\ Runs(Handler) /\ todo[Handler] # <<>>
        /\ holder[Head(todo[Handler]).on] = handler

Stopped == (process = "dead" \/ Hung) /\ UNCHANGED vars

(* What a thread does without waiting for a mutex or for its client.       *)
Serve(c) == \/ SendMessage(c) \/ BrokenPipe(c) \/ HangUp(c) \/ Login(c)
            \/ ChooseBadly(c) \/ Close(c)
Step(x)  == \/ Leave(x)
            \/ x \in Client /\ Serve(x)
            \/ x = Handler /\ Exit

Next ==
    \/ \E x \in Actor : Enter(x) \/ Step(x)
    \/ \E c \in Client :
          \/ Accept(c) \/ AcceptInVain(c)
          \/ ChooseType(c) \/ Choose(c) \/ Logout(c)
          \/ GoAway(c) \/ Reset(c)
    \/ \E t \in Thread : Interrupt(t)
    \/ Spawn \/ Report \/ Stopped

(* A thread that can run does, and gets a mutex that is free again and     *)
(* again (the reporter leaves the one it takes free for ten seconds); the  *)
(* network delivers.  Nothing is assumed of clients and of SIGINT.         *)
Fairness ==
    /\ \A x \in Actor : WF_vars(Step(x))
    /\ \A x \in Client \cup {Handler} : SF_vars(Enter(x))
    /\ \A c \in Vanishing : WF_vars(Reset(c))

Spec     == Init /\ [][Next]_vars
FairSpec == Spec /\ Fairness

-----------------------------------------------------------------------------
Points == {"none", "spawn", "accept", "sleep", "type", "login", "menu", "ending",
           "unserved", "left", "ended"}

(* Types, counters within their meaning, and a ring index within the ring. *)
TypeOK ==
    /\ pc \in [Thread -> Points]
    /\ holder \in [Mutex -> Actor \cup {NoThread}] /\ inside \subseteq Actor
    /\ role \in [Client -> {"none", "student", "staff"}]
    /\ peer \in [Client -> {"away", "here", "gone", "written", "reset"}]
    /\ \A c \in Client : choices[c] \in 0..MaxChoices[c]
    /\ handler \in Thread \cup {NoThread}
    /\ process \in {"running", "dead"}
    /\ data["metrics"].current \in 0..Cardinality(Client)
    /\ data["metrics"].latencyCount \in 0..RingSize
    /\ DOMAIN data["metrics"].samples = 0..RingSize - 1
    /\ finished \in Seq(Client)

(* What a thread has read inside a mutex is what is there when it writes:  *)
(* no update of the metrics, the lock statistics or the log's state is     *)
(* lost, and no line goes to a log file that was closed after the thread   *)
(* looked at it (log_event against logger_close in the signal handler).    *)
NothingStale == \A x \in inside : seen[x] = data[Head(todo[x]).on]

(* Where a list of items has one, and how many there are on all lists.     *)
Places(items, does) == {i \in DOMAIN items : items[i].does = does}
Owes(x, does)       == Places(todo[x], does)
Owed(does)          == Cardinality(UNION {{x} \X Owes(x, does) : x \in Actor})

(* current_clients is the number of sessions between their connect and     *)
(* their disconnect, and of clients that went away before they chose a     *)
(* login type: the early return of handle_client never counts these down.  *)
(* The peak is at least that and never more than the clients served.       *)
Counted(c) == \/ pc[c] \in {"type", "login", "menu"} /\ Owes(c, "connect") = {}
              \/ pc[c] = "ending" /\ Owes(c, "disconnect") # {}
              \/ pc[c] = "left"
ClientsCounted ==
    LET metrics == data["metrics"] IN
    /\ metrics.current = Cardinality({c \in Client : Counted(c)})
    /\ metrics.peak \in metrics.current..Cardinality(
                           {c \in Client : pc[c] \notin {"none", "unserved"}})

(* The samples metrics_print_summary sorts are the latencies of the last   *)
(* RingSize sessions to end.                                               *)
RingHoldsLatest ==
    LET metrics == data["metrics"]
        n       == Len(finished)
        kept    == Min({n, RingSize})
    IN /\ metrics.latencyCount = kept
       /\ {metrics.samples[i] : i \in 0..kept - 1} = {finished[i] : i \in n - kept + 1..n}

(* The last LogSize lines that went to a file are in log or log.1, however *)
(* often the log was rotated; while the log is open they are the last lines*)
(* there were.  When it cannot be opened again, the lines stay there.      *)
LogKeepsLatest ==
    LET log  == data["log"]
        kept == log.old \cup log.file
        last == Max({0} \cup kept)
    IN /\ log.open => last = log.lines
       /\ {i \in 1..last : i > last - LogSize} \subseteq kept
       /\ \A i \in log.old, j \in log.file : i < j

(* The three structures tell one story, up to what threads are still to    *)
(* record: each file lock is one latency of OP_FILE_OP, each login tried   *)
(* is one request, and each login, menu operation and finished session has *)
(* its line in the log, besides SERVER_START.                              *)
Done(does) == LET metrics == data["metrics"] IN
    CASE does \in OpType                   -> metrics.count[does]
      [] does \in {"successful", "failed"} -> metrics[does]
      [] does = "session"                  -> Len(finished)
      [] does \in {"read", "write"}        -> data["stats"][does]
      [] does = "line"                     -> data["log"].lines
      [] OTHER                             -> 0
Told(does) == Done(does) + Owed(does)
StructuresAgree == process = "running" =>
    /\ Told("read") + Told("write") = Told("file_op")
    /\ Told("auth") = Told("successful") + Told("failed")
    /\ Told("line") = 1 + Told("auth") + Told("session")
                         + Told("enroll") + Told("drop") + Told("course_query")

(* SIGINT ends the server if it arrives in a thread that is outside the    *)
(* three mutexes.  Inside one, the handler waits for its own thread.       *)
InterruptEndsServer ==
    (handler # NoThread /\ \A m \in Mutex : holder[m] # handler) ~> (process = "dead")

(* A menu whose client has gone does not go round for ever: reading gives  *)
(* "no choice" again and again, and only the SIGPIPE of writing the menu   *)
(* ends the loop, with the whole server.                                   *)
LostMenuEnds ==
    \A c \in Vanishing :
        (pc[c] = "menu" /\ peer[c] # "here") ~> (process = "dead" \/ Hung)
===============================================================================
