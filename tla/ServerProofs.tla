----------------------------- MODULE ServerProofs -----------------------------
(***************************************************************************)
(* Server, for any number of clients and any ring.  First the three        *)
(* mutexes: who is inside one, and that nothing read inside one goes stale *)
(* before it is written back, wherever the signal handler and SIGPIPE      *)
(* strike.  Then what they protect: the client count, the latency ring, the*)
(* log, and the one story that metrics, lock statistics and log tell.      *)
(***************************************************************************)
EXTENDS Server, Extremes, FiniteSetTheorems, SequenceTheorems, TLAPS

(* Which functions the variables are.                                      *)
Shape ==
    /\ pc = [t \in Thread |-> pc[t]]
    /\ todo = [x \in Actor |-> todo[x]]
    /\ seen = [x \in Actor |-> seen[x]]
    /\ data = [m \in Mutex |-> data[m]]
    /\ holder = [m \in Mutex |-> holder[m]]

(* A thread between lock and unlock has the mutex of the first item it has *)
(* to do.                                                                  *)
On(x) == Head(todo[x]).on
HasItsMutex ==
    \A x \in inside : x \in Actor /\ todo[x] # <<>> /\ On(x) \in Mutex /\ holder[On(x)] = x

(* The handler has nothing to do, and no mutex, before the signal.         *)
HandlerSleeps == handler = NoThread => todo[Handler] = <<>>

(* A client that was not accepted has no thread with anything to do.       *)
NewIsIdle == \A c \in Client : pc[c] = "none" => todo[c] = <<>>

IInv == Shape /\ HasItsMutex /\ HandlerSleeps /\ NewIsIdle /\ NothingStale

(* What a step other than the death of the process does to places.         *)
MovesOn == /\ pc' = [t \in Thread |-> pc'[t]]
           /\ \A c \in Client : pc'[c] = "none" => pc[c] = "none"

-----------------------------------------------------------------------------
(* The server starts with the three mutexes free.                          *)
LEMMA InitIInv == ASSUME Init PROVE IInv
<1>1. Shape
  <2>1. data = [m \in Mutex |-> data[m]]
    BY DEF Init, Zeroed, Mutex
  <2>2. todo = [x \in Actor |-> todo[x]] /\ pc = [t \in Thread |-> pc[t]]
    BY DEF Init
  <2>3. seen = [x \in Actor |-> seen[x]] /\ holder = [m \in Mutex |-> holder[m]]
    BY DEF Init
  <2> QED
    BY <2>1, <2>2, <2>3 DEF Shape
<1>2. HandlerSleeps /\ NewIsIdle
  BY ServerAssumption DEF Init, HandlerSleeps, NewIsIdle, Actor, Thread
<1>3. inside = {}
  BY DEF Init
<1> QED
  BY <1>1, <1>2, <1>3 DEF IInv, HasItsMutex, NothingStale

(* So does the process leave them when it dies, whoever was inside.        *)
LEMMA DieIInv == ASSUME Die PROVE IInv'
<1>1. Shape'
  <2>1. data' = [m \in Mutex |-> data'[m]]
    BY DEF Die, Zeroed, Mutex
  <2>2. todo' = [x \in Actor |-> todo'[x]] /\ pc' = [t \in Thread |-> pc'[t]]
    BY DEF Die
  <2>3. seen' = [x \in Actor |-> seen'[x]] /\ holder' = [m \in Mutex |-> holder'[m]]
    BY DEF Die
  <2> QED
    BY <2>1, <2>2, <2>3 DEF Shape
<1>2. HandlerSleeps' /\ NewIsIdle'
  BY DEF Die, HandlerSleeps, NewIsIdle, Actor, Thread
<1>3. inside' = {}
  BY DEF Die
<1> QED
  BY <1>1, <1>2, <1>3 DEF IInv, HasItsMutex, NothingStale

(* A thread takes a mutex for the first item it has to do.                 *)
LEMMA EnterIInv == ASSUME IInv, NEW x \in Actor, Enter(x) PROVE IInv'
<1>1. /\ On(x) \in Mutex /\ holder[On(x)] = NoThread /\ todo[x] # <<>> /\ x \notin inside
      /\ holder' = [holder EXCEPT ![On(x)] = x]
      /\ seen' = [seen EXCEPT ![x] = data[On(x)]]
      /\ inside' = inside \cup {x}
      /\ UNCHANGED <<pc, todo, data, handler>>
  BY DEF Enter, Free, On
<1>2. Shape'
  BY <1>1 DEF IInv, Shape
<1>3. \A y \in Actor : On(y)' = On(y)
  BY <1>1 DEF On
<1>4. holder'[On(x)] = x /\ seen'[x] = data[On(x)]
  BY <1>1 DEF IInv, Shape
<1>5. ASSUME NEW y \in inside
      PROVE  /\ y \in Actor /\ On(y) \in Mutex /\ todo[y] # <<>>
             /\ holder'[On(y)] = y /\ seen'[y] = data[On(y)]
  <2>1. y \in Actor /\ On(y) \in Mutex /\ todo[y] # <<>> /\ holder[On(y)] = y /\ y # x
    BY <1>1 DEF IInv, HasItsMutex
  <2>2. On(y) # On(x)
    BY <1>1, <2>1, ServerAssumption
  <2>3. seen[y] = data[On(y)]
    BY DEF IInv, NothingStale, On
  <2> QED
    BY <1>1, <2>1, <2>2, <2>3 DEF IInv, Shape
<1>6. HasItsMutex'
  BY <1>1, <1>3, <1>4, <1>5 DEF HasItsMutex
<1>7. NothingStale'
  BY <1>1, <1>3, <1>4, <1>5 DEF NothingStale, On
<1>8. HandlerSleeps' /\ NewIsIdle'
  BY <1>1 DEF IInv, HandlerSleeps, NewIsIdle
<1> QED
  BY <1>2, <1>6, <1>7, <1>8 DEF IInv

(* A thread writes to the structure whose mutex it holds and to no other.  *)
LEMMA LeaveIInv == ASSUME IInv, NEW x \in Actor, Leave(x) PROVE IInv'
<1>1. PICK d \in After(x, Head(todo[x]).does, seen[x]) :
      /\ x \in inside /\ Runs(x)
      /\ holder' = [holder EXCEPT ![On(x)] = NoThread]
      /\ data' = [data EXCEPT ![On(x)] = d]
      /\ seen' = [seen EXCEPT ![x] = NoThread]
      /\ todo' = [todo EXCEPT ![x] = Tail(@)]
      /\ inside' = inside \ {x}
      /\ UNCHANGED <<pc, handler>>
  BY DEF Leave, On
<1>2. On(x) \in Mutex /\ holder[On(x)] = x /\ todo[x] # <<>>
  BY <1>1 DEF IInv, HasItsMutex
<1>3. Shape'
  BY <1>1 DEF IInv, Shape
<1>4. ASSUME NEW y \in inside, y # x
      PROVE  /\ y \in Actor /\ todo'[y] = todo[y] /\ todo[y] # <<>>
             /\ On(y) \in Mutex /\ holder'[On(y)] = y
             /\ seen'[y] = data'[On(y)]
  <2>1. y \in Actor /\ On(y) \in Mutex /\ holder[On(y)] = y /\ todo[y] # <<>>
    BY DEF IInv, HasItsMutex
  <2>2. On(y) # On(x)
    BY <1>2, <1>4, <2>1
  <2>3. seen[y] = data[On(y)]
    BY DEF IInv, NothingStale, On
  <2> QED
    BY <1>1, <1>4, <2>1, <2>2, <2>3 DEF IInv, Shape
<1>5. HasItsMutex'
  BY <1>1, <1>4 DEF HasItsMutex, On
<1>6. NothingStale'
  BY <1>1, <1>4 DEF NothingStale, On
<1>7. HandlerSleeps'
  <2>1. handler = NoThread => x # Handler
    BY <1>1 DEF Runs
  <2> QED
    BY <1>1, <2>1 DEF IInv, HandlerSleeps, Shape
<1>8. NewIsIdle'
  <2>1. ASSUME NEW c \in Client, pc[c] = "none" PROVE todo'[c] = <<>>
    <3>1. todo[c] = <<>> /\ c # x /\ c \in Actor
      BY <1>2, <2>1 DEF IInv, NewIsIdle, Actor, Thread
    <3> QED
      BY <1>1, <3>1 DEF IInv, Shape
  <2> QED
    BY <1>1, <2>1 DEF NewIsIdle
<1> QED
  BY <1>3, <1>5, <1>6, <1>7, <1>8 DEF IInv

(* An actor whose next item is no call on a shared structure is inside no  *)
(* mutex, so what it has to do may change.                                 *)
LEMMA OutsideIInv ==
    ASSUME IInv, NEW x \in Actor, NEW items,
           todo[x] = <<>> \/ Head(todo[x]) = Message,
           todo' = [todo EXCEPT ![x] = items],
           MovesOn, \A c \in Client : pc'[c] = "none" => c # x,
           handler' = handler, x # Handler,
           UNCHANGED <<holder, inside, data, seen>>
    PROVE  IInv'
<1>1. x \notin inside
  <2>1. Message.on = "client" /\ "client" \notin Mutex
    BY DEF Message, Item, Mutex
  <2> QED
    BY <2>1 DEF IInv, HasItsMutex, On
<1>2. Shape'
  BY DEF IInv, Shape, MovesOn
<1>3. \A y \in inside : todo'[y] = todo[y]
  BY <1>1 DEF IInv, HasItsMutex, Shape
<1>4. HasItsMutex' /\ NothingStale'
  BY <1>3 DEF IInv, HasItsMutex, NothingStale, On
<1>5. HandlerSleeps'
  BY DEF IInv, HandlerSleeps, Shape, Actor
<1>6. NewIsIdle'
  BY DEF IInv, NewIsIdle, Shape, MovesOn, Actor, Thread
<1> QED
  BY <1>2, <1>4, <1>5, <1>6 DEF IInv

(* The signal gives the handler, which was idle, its three items.          *)
LEMMA InterruptIInv == ASSUME IInv, NEW t \in Thread, Interrupt(t) PROVE IInv'
<1>1. /\ handler = NoThread /\ handler' = t /\ UNCHANGED <<pc, holder, inside, data, seen>>
      /\ todo' = [todo EXCEPT ![Handler] = <<PrintSummary, PrintLocks, CloseLog>>]
  BY DEF Interrupt, Shared
<1>2. Handler \in Actor /\ t # NoThread
  BY ServerAssumption DEF Actor
<1>3. Handler \notin inside
  BY <1>1 DEF IInv, HasItsMutex, HandlerSleeps
<1>4. Shape'
  BY <1>1 DEF IInv, Shape
<1>5. \A y \in inside : todo'[y] = todo[y]
  BY <1>1, <1>3 DEF IInv, HasItsMutex, Shape
<1>6. HasItsMutex' /\ NothingStale'
  BY <1>1, <1>5 DEF IInv, HasItsMutex, NothingStale, On
<1>7. NewIsIdle'
  BY <1>1, ServerAssumption DEF IInv, NewIsIdle, Shape, Thread
<1> QED
  BY <1>1, <1>2, <1>4, <1>6, <1>7 DEF IInv, HandlerSleeps

(* Steps that leave the mutexes, the structures and all items alone.       *)
LEMMA ElsewhereIInv ==
    ASSUME IInv, MovesOn, UNCHANGED <<todo, holder, inside, data, seen, handler>>
    PROVE  IInv'
BY DEF IInv, MovesOn, Shape, HasItsMutex, HandlerSleeps, NewIsIdle, NothingStale, On

-----------------------------------------------------------------------------
LEMMA SessionIInv ==
    ASSUME IInv, NEW c \in Client,
           \/ SendMessage(c) \/ BrokenPipe(c) \/ HangUp(c) \/ Login(c)
           \/ ChooseBadly(c) \/ Close(c)
           \/ Accept(c) \/ AcceptInVain(c)
           \/ ChooseType(c) \/ Choose(c) \/ Logout(c)
           \/ GoAway(c) \/ Reset(c)
    PROVE  IInv'
<1>1. c \in Actor /\ c # Handler /\ c \in Thread
  BY ServerAssumption DEF Actor, Thread
<1>2. CASE SendMessage(c)
  <2>1. /\ todo[c] # <<>> /\ Head(todo[c]) = Message
        /\ todo' = [todo EXCEPT ![c] = Tail(@)]
        /\ UNCHANGED <<pc, handler, holder, inside, data, seen>>
    BY <1>2 DEF SendMessage, Sending, Shared
  <2>2. MovesOn /\ pc'[c] # "none"
    BY <2>1 DEF IInv, Shape, MovesOn, NewIsIdle
  <2> QED
    BY <1>1, <2>1, <2>2, OutsideIInv
<1>3. CASE BrokenPipe(c)
  BY <1>3, DieIInv DEF BrokenPipe
<1>4. CASE HangUp(c)
  <2>1. /\ pc' = [pc EXCEPT ![c] = "left"]
        /\ UNCHANGED <<todo, holder, inside, data, seen, handler>>
    BY <1>4 DEF HangUp, Session, Shared
  <2>2. MovesOn
    BY <1>1, <2>1 DEF IInv, Shape, MovesOn, Thread
  <2> QED
    BY <2>1, <2>2, ElsewhereIInv
<1>5. CASE Login(c)
  <2>1. PICK items, place :
          /\ todo[c] = <<>> /\ place # "none"
          /\ todo' = [todo EXCEPT ![c] = items]
          /\ pc' = [pc EXCEPT ![c] = place]
          /\ UNCHANGED <<handler, holder, inside, data, seen>>
    BY <1>5 DEF Login, Idle, Continue, Shared, Session
  <2>2. MovesOn /\ pc'[c] # "none"
    BY <1>1, <2>1 DEF IInv, Shape, MovesOn, Thread
  <2> QED
    BY <1>1, <2>1, <2>2, OutsideIInv
<1>6. CASE ChooseBadly(c)
  <2>1. PICK items, place :
          /\ todo[c] = <<>> /\ place # "none"
          /\ todo' = [todo EXCEPT ![c] = items]
          /\ pc' = [pc EXCEPT ![c] = place]
          /\ UNCHANGED <<handler, holder, inside, data, seen>>
    BY <1>6 DEF ChooseBadly, Idle, Continue, Shared, Session
  <2>2. MovesOn /\ pc'[c] # "none"
    BY <1>1, <2>1 DEF IInv, Shape, MovesOn, Thread
  <2> QED
    BY <1>1, <2>1, <2>2, OutsideIInv
<1>7. CASE Close(c)
  <2>1. /\ pc' = [pc EXCEPT ![c] = "ended"]
        /\ UNCHANGED <<todo, holder, inside, data, seen, handler>>
    BY <1>7 DEF Close, Session, Shared
  <2>2. MovesOn
    BY <1>1, <2>1 DEF IInv, Shape, MovesOn, Thread
  <2> QED
    BY <2>1, <2>2, ElsewhereIInv
<1>8. CASE Accept(c)
  <2>1. PICK items, place :
          /\ todo[c] = <<>> /\ place # "none"
          /\ todo' = [todo EXCEPT ![c] = items]
          /\ pc' = [pc EXCEPT ![c] = place]
          /\ UNCHANGED <<handler, holder, inside, data, seen>>
    BY <1>8 DEF Accept, Continue, Shared, IInv, NewIsIdle
  <2>2. MovesOn /\ pc'[c] # "none"
    BY <1>1, <2>1 DEF IInv, Shape, MovesOn, Thread
  <2> QED
    BY <1>1, <2>1, <2>2, OutsideIInv
<1>9. CASE AcceptInVain(c)
  <2>1. CASE Die
    BY <2>1, DieIInv
  <2>2. CASE ~Die
    <3>1. /\ pc' = [pc EXCEPT ![c] = "unserved"]
          /\ UNCHANGED <<todo, holder, inside, data, seen, handler>>
      BY <1>9, <2>2 DEF AcceptInVain, Shared
    <3>2. MovesOn
      BY <1>1, <3>1 DEF IInv, Shape, MovesOn, Thread
    <3> QED
      BY <3>1, <3>2, ElsewhereIInv
  <2> QED
    BY <2>1, <2>2
<1>10. CASE ChooseType(c)
  <2>1. PICK items, place :
          /\ todo[c] = <<>> /\ place # "none"
          /\ todo' = [todo EXCEPT ![c] = items]
          /\ pc' = [pc EXCEPT ![c] = place]
          /\ UNCHANGED <<handler, holder, inside, data, seen>>
    BY <1>10 DEF ChooseType, Idle, Continue, Shared, Session
  <2>2. MovesOn /\ pc'[c] # "none"
    BY <1>1, <2>1 DEF IInv, Shape, MovesOn, Thread
  <2> QED
    BY <1>1, <2>1, <2>2, OutsideIInv
<1>11. CASE Choose(c)
  <2>1. PICK items, place :
          /\ todo[c] = <<>> /\ place # "none"
          /\ todo' = [todo EXCEPT ![c] = items]
          /\ pc' = [pc EXCEPT ![c] = place]
          /\ UNCHANGED <<handler, holder, inside, data, seen>>
    BY <1>11 DEF Choose, Idle, Continue, Shared, Session
  <2>2. MovesOn /\ pc'[c] # "none"
    BY <1>1, <2>1 DEF IInv, Shape, MovesOn, Thread
  <2> QED
    BY <1>1, <2>1, <2>2, OutsideIInv
<1>12. CASE Logout(c)
  <2>1. PICK items, place :
          /\ todo[c] = <<>> /\ place # "none"
          /\ todo' = [todo EXCEPT ![c] = items]
          /\ pc' = [pc EXCEPT ![c] = place]
          /\ UNCHANGED <<handler, holder, inside, data, seen>>
    BY <1>12 DEF Logout, Idle, Continue, Shared, Session
  <2>2. MovesOn /\ pc'[c] # "none"
    BY <1>1, <2>1 DEF IInv, Shape, MovesOn, Thread
  <2> QED
    BY <1>1, <2>1, <2>2, OutsideIInv
<1>13. CASE GoAway(c)
  <2>1. UNCHANGED <<pc, todo, holder, inside, data, seen, handler>>
    BY <1>13 DEF GoAway, Session, Shared
  <2>2. MovesOn
    BY <2>1 DEF IInv, Shape, MovesOn
  <2> QED
    BY <2>1, <2>2, ElsewhereIInv
<1>14. CASE Reset(c)
  <2>1. UNCHANGED <<pc, todo, holder, inside, data, seen, handler>>
    BY <1>14 DEF Reset, Session, Shared
  <2>2. MovesOn
    BY <2>1 DEF IInv, Shape, MovesOn
  <2> QED
    BY <2>1, <2>2, ElsewhereIInv
<1> QED
  BY <1>2, <1>3, <1>4, <1>5, <1>6, <1>7, <1>8, <1>9, <1>10, <1>11, <1>12, <1>13, <1>14

LEMMA NextIInv == ASSUME IInv, [Next]_vars PROVE IInv'
<1>1. CASE \E x \in Actor : Enter(x) \/ Leave(x)
  BY <1>1, EnterIInv, LeaveIInv
<1>2. CASE \E c \in Client : \/ Serve(c) \/ Accept(c) \/ AcceptInVain(c)
                             \/ ChooseType(c) \/ Choose(c) \/ Logout(c)
                             \/ GoAway(c) \/ Reset(c)
  BY <1>2, SessionIInv DEF Serve
<1>3. CASE Exit
  BY <1>3, DieIInv DEF Exit
<1>4. CASE \E t \in Thread : Interrupt(t)
  BY <1>4, InterruptIInv
<1>5. CASE Spawn
  <2>1. /\ pc' = [pc EXCEPT ![Main] = "accept", ![Reporter] = "sleep"]
        /\ UNCHANGED <<todo, holder, inside, data, seen, handler>>
    BY <1>5 DEF Spawn, Shared
  <2>2. MovesOn
    BY <2>1, ServerAssumption DEF IInv, Shape, MovesOn, Thread
  <2> QED
    BY <2>1, <2>2, ElsewhereIInv
<1>6. CASE Report
  <2>1. Reporter \in Actor /\ Reporter # Handler /\ Reporter \notin Client
    BY ServerAssumption DEF Actor, Thread
  <2>2. /\ todo[Reporter] = <<>>
        /\ todo' = [todo EXCEPT ![Reporter] = <<PrintPeriodic>>]
        /\ pc' = [pc EXCEPT ![Reporter] = "sleep"]
        /\ UNCHANGED <<handler, holder, inside, data, seen>>
    BY <1>6 DEF Report, Idle, Continue, Shared
  <2>3. MovesOn
    BY <2>1, <2>2 DEF IInv, Shape, MovesOn, Thread
  <2> QED
    BY <2>1, <2>2, <2>3, OutsideIInv
<1>7. CASE Stopped \/ UNCHANGED vars
  <2>1. UNCHANGED <<pc, todo, holder, inside, data, seen, handler>>
    BY <1>7 DEF Stopped, vars
  <2>2. MovesOn
    BY <2>1 DEF IInv, Shape, MovesOn
  <2> QED
    BY <2>1, <2>2, ElsewhereIInv
<1> QED
  BY <1>1, <1>2, <1>3, <1>4, <1>5, <1>6, <1>7 DEF Next, Step

(* metrics.c, lock_stats.c and logger.c: whatever the sessions, the        *)
(* reporter and the signal handler do to each other, what one of them read *)
(* under a mutex is still there when it writes under it.                   *)
THEOREM NothingGoesStale == Spec => []NothingStale
<1>1. Init => IInv
  BY InitIInv
<1>2. IInv /\ [Next]_vars => IInv'
  BY NextIInv
<1>3. IInv => NothingStale
  BY DEF IInv
<1> QED
  BY <1>1, <1>2, <1>3, PTL DEF Spec

(* Each of the three mutexes has one thread at most between its lock and   *)
(* its unlock call, the signal handler included.                           *)
OneInsideEach == \A x, y \in inside : On(x) = On(y) => x = y

THEOREM MutualExclusion == Spec => []OneInsideEach
<1>1. Init => IInv
  BY InitIInv
<1>2. IInv /\ [Next]_vars => IInv'
  BY NextIInv
<1>3. IInv => OneInsideEach
  BY DEF IInv, HasItsMutex, OneInsideEach
<1> QED
  BY <1>1, <1>2, <1>3, PTL DEF Spec
-----------------------------------------------------------------------------
(* Counting the items of a list                                            *)

Num(items, does) == Cardinality(Places(items, does))

Is(item, does) == IF item.does = does THEN 1 ELSE 0

LEMMA PlacesFinite ==
    ASSUME NEW S, NEW s \in Seq(S), NEW does
    PROVE  IsFiniteSet(Places(s, does)) /\ Num(s, does) \in Nat
<1>1. IsFiniteSet(1..Len(s)) /\ Places(s, does) \in SUBSET (1..Len(s))
  BY FS_Interval DEF Places
<1>2. IsFiniteSet(Places(s, does))
  BY <1>1, FS_Subset
<1>3. QED
  BY <1>2, FS_CardinalityType DEF Num

LEMMA NumNil == ASSUME NEW does PROVE Num(<<>>, does) = 0
BY FS_EmptySet DEF Num, Places

LEMMA NumOne == ASSUME NEW e, NEW does PROVE Num(<<e>>, does) = Is(e, does)
<1>1. CASE e.does = does
  <2>1. Places(<<e>>, does) = {1}
    BY <1>1 DEF Places
  <2>2. QED
    BY <1>1, <2>1, FS_Singleton DEF Num, Is
<1>2. CASE e.does # does
  <2>1. Places(<<e>>, does) = {}
    BY <1>2 DEF Places
  <2>2. QED
    BY <1>2, <2>1, FS_EmptySet DEF Num, Is
<1>3. QED
  BY <1>1, <1>2

(* Two lists, one after the other, have the items of both.                 *)
LEMMA NumConcat ==
    ASSUME NEW S, NEW s \in Seq(S), NEW t \in Seq(S), NEW does
    PROVE  Num(s \o t, does) = Num(s, does) + Num(t, does)
<1> DEFINE A == Places(s, does)
           B == Places(t, does)
           C == {i + Len(s) : i \in B}
<1>1. IsFiniteSet(A) /\ IsFiniteSet(B)
  BY PlacesFinite
<1>2. A \in SUBSET (1..Len(s)) /\ B \in SUBSET (1..Len(t))
  BY DEF Places
<1>3. Places(s \o t, does) = A \cup C
  <2>1. Len(s \o t) = Len(s) + Len(t) /\ DOMAIN (s \o t) = 1..Len(s) + Len(t)
    BY ConcatProperties, LenProperties
  <2>2. \A i \in 1..Len(s) : (s \o t)[i] = s[i]
    BY ConcatProperties, LenProperties
  <2>3. \A i \in 1..Len(t) : (s \o t)[i + Len(s)] = t[i]
    BY ConcatProperties, LenProperties
  <2>4. ASSUME NEW i \in Places(s \o t, does) PROVE i \in A \cup C
    <3>1. CASE i \in 1..Len(s)
      BY <2>2, <3>1 DEF Places
    <3>2. CASE i \notin 1..Len(s)
      <4>1. i \in 1..Len(s) + Len(t)
        BY <2>1 DEF Places
      <4>2. i - Len(s) \in 1..Len(t) /\ i = (i - Len(s)) + Len(s)
        BY <3>2, <4>1
      <4>3. i - Len(s) \in B
        BY <2>3, <4>2 DEF Places
      <4>4. QED
        BY <4>2, <4>3
    <3>3. QED
      BY <3>1, <3>2
  <2>5. ASSUME NEW i \in A PROVE i \in Places(s \o t, does)
    BY <2>1, <2>2 DEF Places
  <2>6. ASSUME NEW j \in B PROVE j + Len(s) \in Places(s \o t, does)
    <3>1. j \in 1..Len(t) /\ t[j].does = does
      BY DEF Places
    <3>2. j + Len(s) \in 1..Len(s) + Len(t) /\ (s \o t)[j + Len(s)] = t[j]
      BY <2>3, <3>1
    <3>3. QED
      BY <2>1, <3>1, <3>2 DEF Places
  <2>7. QED
    BY <2>4, <2>5, <2>6
<1>4. Cardinality(C) = Cardinality(B) /\ IsFiniteSet(C)
  <2> DEFINE f == [i \in B |-> i + Len(s)]
  <2>1. Len(s) \in Nat
    OBVIOUS
  <2>2. f \in [B -> C] /\ (\A y \in C : \E i \in B : f[i] = y)
    OBVIOUS
  <2>3. \A i, j \in B : f[i] = f[j] => i = j
    <3>1. \A i \in B : f[i] = i + Len(s) /\ i \in Int
      BY <1>2
    <3> HIDE DEF f, B
    <3>2. QED
      BY <2>1, <3>1
  <2> HIDE DEF f, B, C
  <2>4. f \in Bijection(B, C)
    BY <2>2, <2>3 DEF Bijection, Injection, Surjection, IsInjective
  <2>5. ExistsBijection(B, C)
    BY <2>4 DEF ExistsBijection
  <2>6. QED
    BY <1>1, <2>5, FS_Bijection
<1>5. A \cap C = {}
  <2>1. \A i \in B : i + Len(s) > Len(s)
    BY <1>2
  <2>2. QED
    BY <1>2, <2>1
<1>6. Cardinality(A) \in Nat /\ Cardinality(C) \in Nat
  BY <1>1, <1>4, FS_CardinalityType
<1>7. Cardinality(A \cup C) = Cardinality(A) + Cardinality(C) - 0
  BY <1>1, <1>4, <1>5, FS_Union, FS_EmptySet
<1>8. QED
  BY <1>3, <1>4, <1>6, <1>7 DEF Num

(* The items of a list are its first item and the others.                  *)
LEMMA NumTail ==
    ASSUME NEW S, NEW s \in Seq(S), s # <<>>, NEW does
    PROVE  Num(s, does) = Is(Head(s), does) + Num(Tail(s), does)
<1>1. s = <<Head(s)>> \o Tail(s) /\ <<Head(s)>> \in Seq(S) /\ Tail(s) \in Seq(S)
  <2>1. Head(s) \in S /\ Tail(s) \in Seq(S) /\ Len(s) \in Nat \ {0} /\ Head(s) = s[1]
    BY HeadTailProperties, EmptySeq
  <2>2. <<Head(s)>> \in Seq(S) /\ Len(<<Head(s)>>) = 1
    BY <2>1
  <2>3. <<Head(s)>> \o Tail(s) \in Seq(S) /\ Len(<<Head(s)>> \o Tail(s)) = Len(s)
    BY <2>1, <2>2, ConcatProperties, HeadTailProperties
  <2>4. \A i \in 1..Len(s) : (<<Head(s)>> \o Tail(s))[i] = s[i]
    BY <2>1, <2>2, ConcatProperties, HeadTailProperties
  <2>5. QED
    BY <2>1, <2>2, <2>3, <2>4, SeqEqual
<1> DEFINE h == <<Head(s)>>
           u == Tail(s)
<1>2. Num(s, does) = Num(h, does) + Num(u, does)
  <2>1. s = h \o u /\ h \in Seq(S) /\ u \in Seq(S)
    BY <1>1
  <2> HIDE DEF h, u
  <2>2. Num(h \o u, does) = Num(h, does) + Num(u, does)
    BY <2>1, NumConcat
  <2>3. QED
    BY <2>1, <2>2
<1>3. QED
  BY <1>2, NumOne

(* Lists as the actions write them.                                        *)
LEMMA NumTwo ==
    ASSUME NEW a, NEW b, NEW does
    PROVE  Num(<<a, b>>, does) = Is(a, does) + Is(b, does)
<1> DEFINE S == {a, b}
           s == <<a, b>>
<1>1. s \in Seq(S) /\ s # <<>> /\ Head(s) = a /\ Tail(s) = <<b>>
  OBVIOUS
<1> HIDE DEF s
<1>2. Num(s, does) = Is(a, does) + Num(<<b>>, does)
  BY <1>1, NumTail
<1>3. QED
  BY <1>2, NumOne DEF s

LEMMA NumFour ==
    ASSUME NEW a, NEW b, NEW c, NEW d, NEW does
    PROVE  Num(<<a, b, c, d>>, does) =
               Is(a, does) + Is(b, does) + Is(c, does) + Is(d, does)
<1> DEFINE S == {a, b, c, d}
           s == <<a, b, c, d>>
           t == <<b, c, d>>
<1>1. \A e : Is(e, does) \in Int
  BY DEF Is
<1>2. /\ s \in Seq(S) /\ s # <<>> /\ Head(s) = a /\ Tail(s) = t
      /\ t \in Seq(S) /\ t # <<>> /\ Head(t) = b /\ Tail(t) = <<c, d>>
  OBVIOUS
<1> HIDE DEF s, t
<1>3. Num(t, does) = Is(b, does) + Num(<<c, d>>, does)
  BY <1>2, NumTail
<1>4. Num(s, does) = Is(a, does) + Num(t, does)
  BY <1>2, NumTail
<1>5. Num(<<c, d>>, does) = Is(c, does) + Is(d, does)
  BY NumTwo
<1>6. Num(s, does) = Is(a, does) + Is(b, does) + Is(c, does) + Is(d, does)
  BY <1>1, <1>3, <1>4, <1>5
<1>7. QED
  BY <1>6 DEF s

(* What is owed according to the lists f.                                  *)
OwedBy(f, X, does) == UNION {{x} \X Places(f[x], does) : x \in X}

LEMMA OwedByFinite ==
    ASSUME NEW X, IsFiniteSet(X), NEW f, NEW does,
           \A x \in X : IsFiniteSet(Places(f[x], does))
    PROVE  IsFiniteSet(OwedBy(f, X, does)) /\ Cardinality(OwedBy(f, X, does)) \in Nat
<1> DEFINE Owing(x) == {x} \X Places(f[x], does)
           owing == {Owing(x) : x \in X}
<1>1. \A x \in X : IsFiniteSet(Owing(x))
  <2>1. ASSUME NEW x \in X PROVE IsFiniteSet({x} \X Places(f[x], does))
    BY FS_Singleton, FS_Product
  <2>2. QED
    BY <2>1
<1>2. IsFiniteSet(owing)
  <2> DEFINE g == [x \in X |-> Owing(x)]
  <2>1. g \in Surjection(X, owing)
    BY DEF Surjection
  <2>2. QED
    BY <2>1, FS_Surjection
<1>3. \A T \in owing : IsFiniteSet(T)
  BY <1>1
<1>4. IsFiniteSet(UNION owing)
  <2> HIDE DEF owing
  <2>1. QED
    BY <1>2, <1>3, FS_UNION
<1>5. QED
  BY <1>4, FS_CardinalityType DEF OwedBy

(* One thread's items and those of the others.                             *)
LEMMA OwedSplit ==
    ASSUME NEW X, IsFiniteSet(X), NEW f, NEW does, NEW x \in X,
           \A y \in X : IsFiniteSet(Places(f[y], does))
    PROVE  Cardinality(OwedBy(f, X, does)) =
               Cardinality(OwedBy(f, X \ {x}, does)) + Num(f[x], does)
<1> DEFINE mine   == {x} \X Places(f[x], does)
           others == OwedBy(f, X \ {x}, does)
<1>1. OwedBy(f, X, does) = others \cup mine
  BY DEF OwedBy
<1>2. others \cap mine = {}
  BY DEF OwedBy
<1>3. IsFiniteSet(others) /\ Cardinality(others) \in Nat
  <2>1. IsFiniteSet(X \ {x})
    BY FS_RemoveElement
  <2>2. QED
    BY <2>1, OwedByFinite
<1>4. IsFiniteSet(mine) /\ Cardinality(mine) = Num(f[x], does) /\ Num(f[x], does) \in Nat
  <2>1. Num(f[x], does) \in Nat
    BY FS_CardinalityType DEF Num
  <2>2. IsFiniteSet({x}) /\ Cardinality({x}) = 1
    BY FS_Singleton
  <2>3. IsFiniteSet(mine) /\ Cardinality(mine) = 1 * Cardinality(Places(f[x], does))
    BY <2>2, FS_Product
  <2>4. QED
    BY <2>1, <2>3 DEF Num
<1>5. Cardinality(others \cup mine) = Cardinality(others) + Cardinality(mine) - 0
  <2> HIDE DEF others, mine
  <2>1. QED
    BY <1>2, <1>3, <1>4, FS_Union, FS_EmptySet
<1>6. QED
  BY <1>1, <1>3, <1>4, <1>5


-----------------------------------------------------------------------------
(* The inductive invariant of the counts                                   *)

(* What each thread may have to do: a session everything but what the      *)
(* reporter, main() and the signal handler do.                             *)
MetricsDone == OpType \cup {"connect", "disconnect", "successful", "failed", "session"}
ClientItems == {Message, Line} \cup {Measured(does) : does \in MetricsDone}
                               \cup {Item("stats", kind) : kind \in {"read", "write"}}
ServerItems == {Line, PrintPeriodic, PrintLocks, CloseLog}
ItemsOf(x)  == IF x \in Client THEN ClientItems ELSE ServerItems
Todos       == \A x \in Actor : todo[x] \in Seq(ItemsOf(x))

MetricsType == [current : Nat, peak : Nat, successful : Nat, failed : Nat,
                count : [OpType -> Nat],
                samples : [0..RingSize - 1 -> Client \cup {NoThread}],
                writeIdx : Nat, latencyCount : Nat]
LogType     == [open : BOOLEAN, lines : Nat, file : SUBSET Nat, old : SUBSET Nat]
DataOK == /\ data["metrics"] \in MetricsType
          /\ data["stats"] \in [read : Nat, write : Nat]
          /\ data["log"] \in LogType

VarsOK == /\ pc \in [Thread -> Points]
          /\ holder \in [Mutex -> Actor \cup {NoThread}] /\ inside \subseteq Actor
          /\ role \in [Client -> {"none", "student", "staff"}]
          /\ peer \in [Client -> {"away", "here", "gone", "written", "reset"}]
          /\ choices \in [Client -> Nat]
          /\ \A c \in Client : choices[c] <= MaxChoices[c]
          /\ handler \in Thread \cup {NoThread}
          /\ process \in {"running", "dead"}
          /\ finished \in Seq(Client)

(* A session counts itself in once, at its start, and out once, at its end.*)
CountsOnce(c) ==
    /\ Num(todo[c], "connect") \in {0, 1} /\ Num(todo[c], "disconnect") \in {0, 1}
    /\ Num(todo[c], "connect") = 1 => pc[c] = "type"
    /\ Num(todo[c], "disconnect") = 1 => pc[c] = "ending"
Counting == \A c \in Client : CountsOnce(c)

(* Of the n entries of f, entry i is sample (i - 1) % R of s until it is   *)
(* overwritten: the last n % R are at 0.., those before at the end.        *)
Kept(R, n, s, f) ==
    \A i \in 0..R - 1 :
       /\ i < n % R => s[i] = f[n - (n % R) + 1 + i]
       /\ i >= n % R /\ n >= R => s[i] = f[n - (n % R) + 1 + i - R]

RingInv ==
    LET metrics == data["metrics"]
        n       == Len(finished)
    IN /\ metrics.writeIdx = n
       /\ metrics.latencyCount = IF n < RingSize THEN n ELSE RingSize
       /\ Kept(RingSize, n, metrics.samples, finished)

(* log.1 and log hold the lines k + 1..m and m + 1..l.                     *)
LogHolds(log, k, m, l) ==
    /\ k <= m /\ m <= l /\ l <= log.lines
    /\ log.old = k + 1..m /\ log.file = m + 1..l
    /\ log.open => l = log.lines
    /\ k = 0 \/ m - k >= LogSize
LogInv == \E k, m, l \in Nat : LogHolds(data["log"], k, m, l)

CountInv == /\ Todos /\ DataOK /\ VarsOK /\ Counting
            /\ ClientsCounted /\ RingInv /\ LogInv /\ StructuresAgree

(* What is as it was, leaves the parts about it true.                      *)
LEMMA DataKept ==
    ASSUME UNCHANGED <<data, finished>>, DataOK, RingInv, LogInv
    PROVE  DataOK' /\ RingInv' /\ LogInv'
<1>1. DataOK'
  BY DEF DataOK
<1>2. RingInv'
  BY DEF RingInv
<1>3. LogInv'
  BY DEF LogInv
<1>4. QED
  BY <1>1, <1>2, <1>3

-----------------------------------------------------------------------------
(* The structures when the server starts                                   *)

LEMMA DataStart ==
    ASSUME data = Zeroed, finished = <<>>
    PROVE  DataOK /\ RingInv /\ LogInv
<1>1. /\ data["metrics"] = NoMetrics /\ data["stats"] = [read |-> 0, write |-> 0]
      /\ data["log"] = [open |-> TRUE, lines |-> 0, file |-> {}, old |-> {}]
  BY DEF Zeroed
<1>2. DataOK
  BY <1>1 DEF DataOK, NoMetrics, MetricsType, LogType
<1>3. RingInv
  <2>1. Len(finished) = 0 /\ RingSize \in Nat \ {0}
    BY ServerAssumption
  <2>2. 0 % RingSize = 0
    BY <2>1
  <2>3. data["metrics"].writeIdx = 0 /\ data["metrics"].latencyCount = 0
    BY <1>1 DEF NoMetrics
  <2>4. QED
    BY <2>1, <2>2, <2>3 DEF RingInv, Kept
<1>4. LogInv
  <2>1. LogHolds(data["log"], 0, 0, 0)
    <3>1. 0 + 1..0 = {}
      OBVIOUS
    <3>2. QED
      BY <1>1, <3>1 DEF LogHolds
  <2>2. QED
    BY <2>1 DEF LogInv
<1>5. QED
  BY <1>2, <1>3, <1>4


-----------------------------------------------------------------------------
(* The ring of latencies                                                   *)

LEMMA RemainderIs ==
    ASSUME NEW n \in Nat, NEW R \in Nat, NEW q \in Nat, NEW r \in 0..R - 1,
           n = R * q + r
    PROVE  n % R = r
OBVIOUS

LEMMA NextIndex ==
    ASSUME NEW n \in Nat, NEW R \in Nat \ {0}
    PROVE  /\ n % R \in 0..R - 1 /\ n % R <= n
           /\ n < R => n % R = n
           /\ n >= R => n - (n % R) >= R
           /\ (n + 1) % R = IF (n % R) + 1 = R THEN 0 ELSE (n % R) + 1
<1> DEFINE q == n \div R
           r == n % R
<1>1. n = q * R + r /\ q \in Nat /\ r \in 0..R - 1
  OBVIOUS
<1>2. n < R => n % R = n
  OBVIOUS
<1> HIDE DEF q, r
<1>3. ASSUME r + 1 = R PROVE (n + 1) % R = 0
  <2>1. n + 1 = R * (q + 1) + 0
    BY <1>1, <1>3
  <2>2. QED
    BY <1>1, <2>1, RemainderIs
<1>4. ASSUME r + 1 # R PROVE (n + 1) % R = r + 1
  <2>1. n + 1 = R * q + (r + 1) /\ r + 1 \in 0..R - 1
    BY <1>1, <1>4
  <2>2. QED
    BY <1>1, <2>1, RemainderIs
<1>5. r <= n /\ (n >= R => n - r >= R)
  <2>1. q * R >= 0 /\ (q >= 1 => q * R >= R) /\ (q = 0 => q * R = 0)
    BY <1>1
  <2>2. QED
    BY <1>1, <2>1
<1>6. QED
  BY <1>1, <1>2, <1>3, <1>4, <1>5 DEF r

(* One entry more takes the place of the oldest.                           *)
LEMMA KeptNext ==
    ASSUME NEW R \in Nat \ {0}, NEW n \in Nat, NEW s, NEW f, NEW t, NEW g, NEW c,
           Kept(R, n, s, f),
           \A i \in 0..R - 1 : t[i] = IF i = n % R THEN c ELSE s[i],
           g[n + 1] = c, \A i \in 1..n : g[i] = f[i]
    PROVE  Kept(R, n + 1, t, g)
<1> DEFINE w == n % R
           v == (n + 1) % R
<1>1. /\ w \in 0..R - 1 /\ w <= n /\ (n < R => w = n) /\ (n >= R => n - w >= R)
      /\ v = IF w + 1 = R THEN 0 ELSE w + 1
  BY NextIndex
<1>2. \A i \in 0..R - 1 : /\ i < w => s[i] = f[n - w + 1 + i]
                          /\ i >= w /\ n >= R => s[i] = f[n - w + 1 + i - R]
                          /\ t[i] = IF i = w THEN c ELSE s[i]
  BY DEF Kept
<1> HIDE DEF w, v
<1>3. ASSUME NEW i \in 0..R - 1
      PROVE  /\ i < v => t[i] = g[(n + 1) - v + 1 + i]
             /\ i >= v /\ n + 1 >= R => t[i] = g[(n + 1) - v + 1 + i - R]
  <2>1. CASE w + 1 = R
    <3>1. v = 0
      BY <1>1, <2>1
    <3>2. CASE i = w
      <4>1. (n + 1) - v + 1 + i - R = n + 1
        BY <1>1, <2>1, <3>1, <3>2
      <4>2. QED
        BY <1>2, <3>1, <3>2, <4>1
    <3>3. CASE i # w
      <4>1. i < w /\ n - w + 1 + i \in 1..n /\ (n + 1) - v + 1 + i - R = n - w + 1 + i
        BY <1>1, <2>1, <3>1, <3>3
      <4>2. QED
        BY <1>2, <3>1, <3>3, <4>1
    <3>4. QED
      BY <3>2, <3>3
  <2>2. CASE w + 1 # R
    <3>1. v = w + 1
      BY <1>1, <2>2
    <3>2. CASE i = w
      <4>1. (n + 1) - v + 1 + i = n + 1 /\ ~(i >= v)
        BY <1>1, <3>1, <3>2
      <4>2. QED
        BY <1>2, <3>2, <4>1
    <3>3. CASE i < w
      <4>1. /\ ~(i >= v) /\ n - w + 1 + i \in 1..n
            /\ (n + 1) - v + 1 + i = n - w + 1 + i
        BY <1>1, <3>1, <3>3
      <4>2. QED
        BY <1>2, <3>3, <4>1
    <3>4. CASE i > w
      <4>1. ~(i < v) /\ (n + 1) - v + 1 + i - R = n - w + 1 + i - R
        BY <1>1, <3>1, <3>4
      <4>2. ASSUME n + 1 >= R PROVE n >= R /\ n - w + 1 + i - R \in 1..n
        BY <1>1, <2>2, <3>4, <4>2
      <4>3. QED
        BY <1>1, <1>2, <3>4, <4>1, <4>2
    <3>5. QED
      BY <1>1, <3>2, <3>3, <3>4
  <2>3. QED
    BY <2>1, <2>2
<1>4. QED
  BY <1>3 DEF Kept, v

(* One more session takes the place of the oldest in a full ring.          *)
LEMMA RingStep ==
    ASSUME data["metrics"] \in MetricsType, RingInv, finished \in Seq(Client),
           NEW c \in Client,
           data'["metrics"] = RecordSessionLatency(data["metrics"], c),
           finished' = Append(finished, c)
    PROVE  RingInv'
<1> DEFINE metrics == data["metrics"]
           n == Len(finished)
<1>1. RingSize \in Nat \ {0} /\ n \in Nat
  BY ServerAssumption
<1>2. /\ metrics.writeIdx = n
      /\ metrics.latencyCount = IF n < RingSize THEN n ELSE RingSize
      /\ Kept(RingSize, n, metrics.samples, finished)
  BY DEF RingInv
<1>3. /\ metrics'.writeIdx = metrics.writeIdx + 1
      /\ metrics'.latencyCount = IF metrics.latencyCount < RingSize
                                 THEN metrics.latencyCount + 1 ELSE metrics.latencyCount
      /\ metrics'.samples = [metrics.samples EXCEPT ![metrics.writeIdx % RingSize] = c]
  BY DEF RecordSessionLatency, MetricsType
<1>4. metrics.samples = [i \in 0..RingSize - 1 |-> metrics.samples[i]]
  BY DEF MetricsType
<1>5. n' = n + 1 /\ finished'[n + 1] = c /\ \A i \in 1..n : finished'[i] = finished[i]
  OBVIOUS
<1> HIDE DEF metrics, n
<1>6. \A i \in 0..RingSize - 1 :
         metrics'.samples[i] = IF i = n % RingSize THEN c ELSE metrics.samples[i]
  BY <1>1, <1>2, <1>3, <1>4
<1>7. Kept(RingSize, n + 1, metrics'.samples, finished')
  <2> DEFINE s == metrics.samples
             t == metrics'.samples
             g == finished'
  <2>1. /\ \A i \in 0..RingSize - 1 : t[i] = IF i = n % RingSize THEN c ELSE s[i]
        /\ g[n + 1] = c /\ \A i \in 1..n : g[i] = finished[i]
        /\ Kept(RingSize, n, s, finished)
    BY <1>2, <1>5, <1>6
  <2> HIDE DEF s, t, g
  <2>2. Kept(RingSize, n + 1, t, g)
    BY <1>1, <2>1, KeptNext
  <2>3. QED
    BY <2>2, Zenon DEF t, g
<1>8. /\ metrics'.writeIdx = n'
      /\ metrics'.latencyCount = IF n' < RingSize THEN n' ELSE RingSize
  BY <1>1, <1>2, <1>3, <1>5
<1>9. Kept(RingSize, n', metrics'.samples, finished')
  BY <1>5, <1>7
<1>10. QED
  BY <1>8, <1>9, Zenon DEF RingInv, metrics, n

-----------------------------------------------------------------------------
(* The log and the one before it                                           *)

LEMMA LineStep ==
    ASSUME NEW log \in LogType,
           NEW k \in Nat, NEW m \in Nat, NEW l \in Nat, LogHolds(log, k, m, l),
           NEW after \in LogEvent(log)
    PROVE  /\ after \in LogType /\ after.lines = log.lines + 1
           /\ \E k2, m2, l2 \in Nat : LogHolds(after, k2, m2, l2)
<1>1. PICK r \in Rotated(log) : after = Written(r)
  BY DEF LogEvent
<1>2. r \in LogType /\ r.lines = log.lines
  <2>1. CASE r = log
    BY <2>1
  <2>2. CASE \E opens \in BOOLEAN : r = [log EXCEPT !.old = log.file, !.file = {}, !.open = opens]
    BY <2>2 DEF LogType
  <2>3. CASE \E opens \in BOOLEAN : r = [log EXCEPT !.open = opens]
    BY <2>3 DEF LogType
  <2>4. QED
    BY <1>1, <2>1, <2>2, <2>3, Zenon DEF Rotated
<1>3. /\ after.lines = r.lines + 1 /\ after.open = r.open /\ after.old = r.old
      /\ after.file = IF r.open THEN r.file \cup {r.lines + 1} ELSE r.file
      /\ after \in LogType
  <2>1. r = [open |-> r.open, lines |-> r.lines, file |-> r.file, old |-> r.old]
        /\ r.open \in BOOLEAN /\ r.lines \in Nat /\ r.file \in SUBSET Nat
        /\ r.old \in SUBSET Nat
    BY <1>2 DEF LogType
  <2> DEFINE file == IF r.open THEN r.file \cup {r.lines + 1} ELSE r.file
  <2>2. after = [open |-> r.open, lines |-> r.lines + 1, file |-> file, old |-> r.old]
    BY <1>1, <2>1 DEF Written
  <2>3. file \in SUBSET Nat /\ r.lines + 1 \in Nat
    BY <2>1
  <2> HIDE DEF file
  <2>4. after.file = file /\ after \in LogType
    BY <2>1, <2>2, <2>3 DEF LogType
  <2>5. QED
    BY <2>2, <2>4 DEF file
<1>4. \E k2, m2 \in Nat : LogHolds(r, k2, m2, l)
  <2>1. CASE r = log
    BY <2>1
  <2>3. CASE log.open /\ \E opens \in BOOLEAN : r = [log EXCEPT !.open = opens]
    <3>1. /\ r.file = log.file /\ r.old = log.old /\ r.lines = log.lines
      BY <2>3 DEF LogType
    <3>2. LogHolds(r, k, m, l)
      BY <2>3, <3>1 DEF LogHolds
    <3>3. QED
      BY <3>2
  <2>2. CASE r # log /\ ~\E opens \in BOOLEAN : r = [log EXCEPT !.open = opens]
    <3>1. /\ log.open /\ ~(Cardinality(log.file) < LogSize)
          /\ \E opens \in BOOLEAN : r = [log EXCEPT !.old = log.file, !.file = {}, !.open = opens]
      BY <1>1, <2>2 DEF Rotated
    <3>2. r.old = log.file /\ r.file = {} /\ r.lines = log.lines
      BY <3>1 DEF LogType
    <3>3. l = log.lines /\ log.file = m + 1..l /\ m <= l
      BY <3>1 DEF LogHolds
    <3>4. Cardinality(m + 1..l) = IF m + 1 > l THEN 0 ELSE l - (m + 1) + 1
      BY FS_Interval
    <3>5. l - m >= LogSize
      BY <3>1, <3>3, <3>4, ServerAssumption
    <3>6. l + 1..l = {}
      OBVIOUS
    <3>7. LogHolds(r, m, l, l)
      BY <3>2, <3>3, <3>5, <3>6 DEF LogHolds
    <3>8. QED
      BY <3>7
  <2>4. QED
    BY <1>1, <2>1, <2>2, <2>3 DEF Rotated
<1>5. PICK k2 \in Nat, m2 \in Nat : LogHolds(r, k2, m2, l)
  BY <1>4
<1>6. CASE r.open
  <2>1. l = r.lines /\ m2 <= l
    BY <1>5, <1>6 DEF LogHolds
  <2>2. (m2 + 1..l) \cup {l + 1} = m2 + 1..l + 1
    BY <2>1
  <2>3. LogHolds(after, k2, m2, l + 1)
    BY <1>2, <1>3, <1>5, <1>6, <2>1, <2>2 DEF LogHolds, LogType
  <2>4. QED
    BY <1>2, <1>3, <2>3
<1>7. CASE ~r.open
  <2>1. LogHolds(after, k2, m2, l)
    BY <1>2, <1>3, <1>5, <1>7 DEF LogHolds, LogType
  <2>2. QED
    BY <1>2, <1>3, <2>1
<1>8. QED
  BY <1>6, <1>7

LEMMA CloseStep ==
    ASSUME NEW log \in LogType,
           NEW k \in Nat, NEW m \in Nat, NEW l \in Nat, LogHolds(log, k, m, l)
    PROVE  /\ LoggerClose(log) \in LogType /\ LoggerClose(log).lines = log.lines
           /\ LogHolds(LoggerClose(log), k, m, l)
<1>1. /\ LoggerClose(log).open = FALSE /\ LoggerClose(log).lines = log.lines
      /\ LoggerClose(log).file = log.file /\ LoggerClose(log).old = log.old
      /\ LoggerClose(log) \in LogType
  BY DEF LoggerClose, LogType
<1>2. QED
  BY <1>1 DEF LogHolds


-----------------------------------------------------------------------------
(* What is told, done or still owed                                        *)

Keys == OpType \cup {"successful", "failed", "session", "read", "write", "line",
                     "enroll", "drop", "course_query"}

(* One story: as many waits as locks, as many requests as logins, and more *)
(* lines than logins, sessions and menu operations by n.                   *)
Agree(told, n) ==
    /\ told["read"] + told["write"] = told["file_op"]
    /\ told["auth"] = told["successful"] + told["failed"]
    /\ told["line"] = n + told["auth"] + told["session"]
                        + told["enroll"] + told["drop"] + told["course_query"]

LEMMA KeysAre ==
    /\ "read" \in Keys /\ "write" \in Keys /\ "file_op" \in Keys
    /\ "auth" \in Keys /\ "successful" \in Keys /\ "failed" \in Keys
    /\ "line" \in Keys /\ "session" \in Keys
    /\ "enroll" \in Keys /\ "drop" \in Keys /\ "course_query" \in Keys
BY DEF Keys, OpType

LEMMA AgreeSum ==
    ASSUME NEW told, NEW gain, NEW told2, NEW n \in Int, Agree(told, n), Agree(gain, 0),
           \A k \in Keys : /\ told[k] \in Int /\ gain[k] \in Int
                           /\ told2[k] = told[k] + gain[k]
    PROVE  Agree(told2, n)
<1> DEFINE Sum(k) == /\ told[k] \in Int /\ gain[k] \in Int
                     /\ told2[k] = told[k] + gain[k]
<1>1. /\ Sum("read") /\ Sum("write") /\ Sum("file_op")
      /\ Sum("auth") /\ Sum("successful") /\ Sum("failed")
      /\ Sum("line") /\ Sum("session")
      /\ Sum("enroll") /\ Sum("drop") /\ Sum("course_query")
  BY KeysAre
<1>2. told2["read"] + told2["write"] = told2["file_op"]
  <2>1. /\ told["file_op"] = told["read"] + told["write"]
        /\ gain["file_op"] = gain["read"] + gain["write"]
    BY DEF Agree
  <2>2. told2["file_op"] = (told["read"] + told["write"]) + (gain["read"] + gain["write"])
    BY <1>1, <2>1
  <2>3. QED
    BY <1>1, <2>2
<1>3. told2["auth"] = told2["successful"] + told2["failed"]
  BY <1>1 DEF Agree
<1>4. told2["line"] = n + told2["auth"] + told2["session"]
                        + told2["enroll"] + told2["drop"] + told2["course_query"]
  BY <1>1 DEF Agree
<1>5. QED
  BY <1>2, <1>3, <1>4 DEF Agree

Nums(items)     == [does \in Keys |-> Num(items, does)]
Balanced(items) == Agree(Nums(items), 0)

LEMMA ActorFinite == ASSUME IsFiniteSet(Client) PROVE IsFiniteSet(Actor)
<1>1. Actor = (Client \cup {Main}) \cup {Reporter} \cup {Handler}
  BY DEF Actor, Thread
<1>2. IsFiniteSet(Client \cup {Main})
  BY FS_AddElement
<1>3. IsFiniteSet((Client \cup {Main}) \cup {Reporter})
  BY <1>2, FS_AddElement
<1>4. QED
  BY <1>1, <1>3, FS_AddElement

LEMMA TodoFinite ==
    ASSUME Todos, NEW x \in Actor, NEW does
    PROVE  IsFiniteSet(Places(todo[x], does)) /\ Num(todo[x], does) \in Nat
BY PlacesFinite DEF Todos

(* What has been told according to d, n sessions and the lists f.          *)
DoneIn(d, n, does) ==
    CASE does \in OpType                   -> d["metrics"].count[does]
      [] does \in {"successful", "failed"} -> d["metrics"][does]
      [] does = "session"                  -> n
      [] does \in {"read", "write"}        -> d["stats"][does]
      [] does = "line"                     -> d["log"].lines
      [] OTHER                             -> 0
ToldIn(d, n, f, does) == DoneIn(d, n, does) + Cardinality(OwedBy(f, Actor, does))
Story(d, n, f) == [does \in Keys |-> ToldIn(d, n, f, does)]

StoriesAgree == process = "running" => Agree(Story(data, Len(finished), todo), 1)

LEMMA AgreeIs == StructuresAgree <=> StoriesAgree
<1>1. \A does : Told(does) = ToldIn(data, Len(finished), todo, does)
  BY DEF Told, Done, Owed, Owes, ToldIn, DoneIn, OwedBy
<1>2. QED
  BY <1>1, KeysAre DEF StructuresAgree, Agree, Story, StoriesAgree

LEMMA AgreeStays == StructuresAgree' <=> StoriesAgree'
BY AgreeIs, PTL

LEMMA OwedStep ==
    ASSUME NEW X, IsFiniteSet(X), NEW x \in X, NEW f, NEW g, NEW does,
           \A y \in X : IsFiniteSet(Places(f[y], does)),
           IsFiniteSet(Places(g[x], does)), \A y \in X \ {x} : g[y] = f[y]
    PROVE  /\ Cardinality(OwedBy(f, X, does)) \in Nat
           /\ Cardinality(OwedBy(g, X, does)) =
                 Cardinality(OwedBy(f, X, does)) - Num(f[x], does) + Num(g[x], does)
<1> DEFINE rest == Cardinality(OwedBy(f, X \ {x}, does))
<1>1. IsFiniteSet(X \ {x})
  BY FS_RemoveElement
<1>2. \A y \in X : IsFiniteSet(Places(g[y], does))
  OBVIOUS
<1>3. OwedBy(g, X \ {x}, does) = OwedBy(f, X \ {x}, does)
  BY DEF OwedBy
<1>4. rest \in Nat /\ Cardinality(OwedBy(f, X, does)) \in Nat
  BY <1>1, OwedByFinite
<1>5. Cardinality(OwedBy(f, X, does)) = rest + Num(f[x], does)
  BY OwedSplit
<1>6. Cardinality(OwedBy(g, X, does)) = rest + Num(g[x], does)
  <2>1. Cardinality(OwedBy(g, X, does)) =
            Cardinality(OwedBy(g, X \ {x}, does)) + Num(g[x], does)
    BY <1>2, OwedSplit
  <2>2. QED
    BY <1>3, <2>1
<1>7. Num(f[x], does) \in Nat /\ Num(g[x], does) \in Nat
  BY FS_CardinalityType DEF Num
<1>8. QED
  BY <1>4, <1>5, <1>6, <1>7

LEMMA DoneInt ==
    ASSUME DataOK, NEW n \in Nat, NEW does \in Keys
    PROVE  DoneIn(data, n, does) \in Int
<1>1. /\ \A op \in OpType : data["metrics"].count[op] \in Nat
      /\ data["metrics"]["successful"] \in Nat /\ data["metrics"]["failed"] \in Nat
      /\ data["stats"]["read"] \in Nat /\ data["stats"]["write"] \in Nat
      /\ data["log"].lines \in Nat
  BY DEF DataOK, MetricsType, LogType
<1>2. QED
  BY <1>1 DEF DoneIn

LEMMA StoryIs ==
    ASSUME IsFiniteSet(Client), Todos, DataOK, NEW n \in Nat, NEW does \in Keys
    PROVE  Story(data, n, todo)[does] \in Int
<1>1. \A y \in Actor : IsFiniteSet(Places(todo[y], does))
  BY TodoFinite
<1>2. Cardinality(OwedBy(todo, Actor, does)) \in Nat
  BY <1>1, ActorFinite, OwedByFinite
<1>3. QED
  BY <1>2, DoneInt DEF Story, ToldIn

(* A step whose gain tells one story keeps the structures in agreement.    *)
LEMMA AgreeStep ==
    ASSUME IsFiniteSet(Client), Todos, Todos', DataOK, NEW n, n = Len(finished), n \in Nat,
           StructuresAgree, process = "running",
           NEW x \in Actor, \A y \in Actor \ {x} : todo'[y] = todo[y],
           NEW n2, n2 = Len(finished'), NEW gain, Agree(gain, 0),
           \A does \in Keys :
              /\ gain[does] \in Int /\ DoneIn(data', n2, does) \in Int
              /\ DoneIn(data', n2, does) + Num(todo'[x], does) =
                     DoneIn(data, n, does) + Num(todo[x], does) + gain[does]
    PROVE  StructuresAgree'
<1> DEFINE told  == Story(data, n, todo)
           told2 == Story(data', n2, todo')
<1>1. ASSUME NEW does \in Keys
      PROVE  told[does] \in Int /\ told2[does] = told[does] + gain[does]
  <2>1. IsFiniteSet(Actor) /\ \A y \in Actor : IsFiniteSet(Places(todo[y], does))
    BY ActorFinite, TodoFinite
  <2>2. todo'[x] \in Seq(ItemsOf(x))
    BY DEF Todos
  <2>3. IsFiniteSet(Places(todo'[x], does)) /\ Num(todo'[x], does) \in Nat
    BY <2>2, PlacesFinite
  <2>4. /\ Cardinality(OwedBy(todo, Actor, does)) \in Nat
        /\ Cardinality(OwedBy(todo', Actor, does)) =
              Cardinality(OwedBy(todo, Actor, does))
              - Num(todo[x], does) + Num(todo'[x], does)
    <3> DEFINE f == todo
               g == todo'
    <3>1. /\ \A y \in Actor : IsFiniteSet(Places(f[y], does))
          /\ IsFiniteSet(Places(g[x], does)) /\ \A y \in Actor \ {x} : g[y] = f[y]
      BY <2>1, <2>3
    <3> HIDE DEF f, g
    <3>2. /\ Cardinality(OwedBy(f, Actor, does)) \in Nat
          /\ Cardinality(OwedBy(g, Actor, does)) =
                Cardinality(OwedBy(f, Actor, does)) - Num(f[x], does) + Num(g[x], does)
      BY <2>1, <3>1, OwedStep
    <3>3. QED
      BY <3>2 DEF f, g
  <2>5. told[does] \in Int /\ Num(todo[x], does) \in Int /\ DoneIn(data, n, does) \in Int
    <3>1. told[does] \in Int
      BY StoryIs
    <3>2. Num(todo[x], does) \in Nat
      BY TodoFinite, Zenon
    <3>3. DoneIn(data, n, does) \in Int
      BY DoneInt
    <3>4. QED
      BY <3>1, <3>2, <3>3
  <2>6. /\ told[does] = DoneIn(data, n, does) + Cardinality(OwedBy(todo, Actor, does))
        /\ told2[does] = DoneIn(data', n2, does)
                         + Cardinality(OwedBy(todo', Actor, does))
    BY DEF Story, ToldIn
  <2> DEFINE done  == DoneIn(data, n, does)
             done2 == DoneIn(data', n2, does)
             owed  == Cardinality(OwedBy(todo, Actor, does))
             owed2 == Cardinality(OwedBy(todo', Actor, does))
             has   == Num(todo[x], does)
             has2  == Num(todo'[x], does)
  <2>7. /\ done \in Int /\ done2 \in Int /\ owed \in Int /\ has \in Int /\ has2 \in Int
        /\ gain[does] \in Int /\ done2 + has2 = done + has + gain[does]
        /\ owed2 = owed - has + has2 /\ told[does] = done + owed
        /\ told2[does] = done2 + owed2
    BY <2>3, <2>4, <2>5, <2>6
  <2> HIDE DEF told, told2, done, done2, owed, owed2, has, has2
  <2>8. QED
    BY <2>7
<1>2. Agree(told, 1)
  BY AgreeIs DEF StoriesAgree
<1> HIDE DEF told, told2
<1>3. Agree(told2, 1)
  BY <1>1, <1>2, AgreeSum
<1>4. StoriesAgree'
  BY <1>3 DEF StoriesAgree, told2
<1>5. QED
  BY <1>4, AgreeStays

-----------------------------------------------------------------------------
(* What the sessions have to do                                            *)

(* A list of a session that tells one story, with so many counts in and out*)
Good(items, ins, outs) ==
    /\ items \in Seq(ClientItems) /\ Balanced(items)
    /\ Num(items, "connect") = ins /\ Num(items, "disconnect") = outs

LEMMA ItemsAre ==
    /\ Message \in ClientItems /\ Line \in ClientItems
    /\ \A does \in MetricsDone : Measured(does) \in ClientItems
    /\ \A kind \in {"read", "write"} : Item("stats", kind) \in ClientItems
BY DEF ClientItems

LEMMA BalancedIf ==
    ASSUME NEW l,
           Num(l, "read") + Num(l, "write") = Num(l, "file_op"),
           Num(l, "auth") = Num(l, "successful") + Num(l, "failed"),
           Num(l, "line") = 0 + Num(l, "auth") + Num(l, "session") + Num(l, "enroll")
                              + Num(l, "drop") + Num(l, "course_query")
    PROVE  Balanced(l)
<1>1. \A k \in Keys : Nums(l)[k] = Num(l, k)
  BY DEF Nums
<1>2. QED
  BY <1>1, KeysAre DEF Balanced, Agree

LEMMA BalancedNil == Balanced(<<>>)
<1>1. \A k \in Keys : Nums(<<>>)[k] = 0
  BY NumNil DEF Nums
<1>2. QED
  BY <1>1, KeysAre DEF Balanced, Agree

LEMMA GoodConcat ==
    ASSUME NEW s, NEW t, NEW outs \in Nat, Good(s, 0, 0), Good(t, 0, outs)
    PROVE  Good(s \o t, 0, outs)
<1>1. s \in Seq(ClientItems) /\ t \in Seq(ClientItems)
  BY DEF Good
<1>2. s \o t \in Seq(ClientItems)
  BY <1>1, ConcatProperties
<1>3. \A does : /\ Num(s \o t, does) = Num(s, does) + Num(t, does)
                /\ Num(s, does) \in Int /\ Num(t, does) \in Int
  BY <1>1, NumConcat, PlacesFinite
<1>4. Balanced(s \o t)
  <2> DEFINE n == Nums(s)
             m == Nums(t)
             sum == Nums(s \o t)
  <2>1. Agree(n, 0) /\ Agree(m, 0)
    BY DEF Good, Balanced
  <2>2. \A k \in Keys : n[k] \in Int /\ m[k] \in Int /\ sum[k] = n[k] + m[k]
    BY <1>3 DEF Nums
  <2> HIDE DEF n, m, sum
  <2>3. Agree(sum, 0)
    BY <2>1, <2>2, AgreeSum
  <2>4. QED
    BY <2>3 DEF Balanced, sum
<1>5. /\ Num(s \o t, "connect") = Num(s, "connect") + Num(t, "connect")
      /\ Num(s \o t, "disconnect") = Num(s, "disconnect") + Num(t, "disconnect")
  BY <1>3
<1>6. QED
  BY <1>2, <1>4, <1>5 DEF Good

LEMMA GoodLockFile == ASSUME NEW kind \in {"read", "write"} PROVE Good(LockFile(kind), 0, 0)
<1> DEFINE l == LockFile(kind)
<1>1. Item("stats", kind) \in ClientItems /\ Measured("file_op") \in ClientItems
  BY ItemsAre DEF MetricsDone, OpType
<1>2. l \in Seq(ClientItems)
  BY <1>1 DEF LockFile
<1>3. \A does : Num(l, does) = (IF does = kind THEN 1 ELSE 0)
                               + (IF does = "file_op" THEN 1 ELSE 0)
  <2>1. \A does : Num(<<Item("stats", kind), Measured("file_op")>>, does) =
                     Is(Item("stats", kind), does) + Is(Measured("file_op"), does)
    BY NumTwo
  <2>2. QED
    BY <2>1 DEF LockFile, Is, Item, Measured
<1> HIDE DEF l
<1>4. Balanced(l)
  <2>1. /\ Num(l, "auth") = 0 /\ Num(l, "successful") = 0 /\ Num(l, "failed") = 0
        /\ Num(l, "enroll") = 0 /\ Num(l, "drop") = 0 /\ Num(l, "course_query") = 0
        /\ Num(l, "line") = 0 /\ Num(l, "session") = 0
    BY <1>3
  <2>2. Num(l, "read") + Num(l, "write") = Num(l, "file_op")
    BY <1>3
  <2>3. QED
    BY <2>1, <2>2, BalancedIf
<1>5. Num(l, "connect") = 0 /\ Num(l, "disconnect") = 0
  BY <1>3
<1>6. QED
  BY <1>2, <1>4, <1>5 DEF Good, l


LEMMA GoodShort ==
    /\ Good(<<Message>>, 0, 0) /\ Good(<<Message, Message>>, 0, 0)
    /\ Good(<<Measured("connect"), Message>>, 1, 0)
    /\ Good(Farewell, 0, 1)
<1>1. /\ Message \in ClientItems /\ Line \in ClientItems
      /\ Measured("connect") \in ClientItems /\ Measured("session") \in ClientItems
      /\ Measured("disconnect") \in ClientItems
  BY ItemsAre DEF MetricsDone
<1>2. Good(<<Message>>, 0, 0)
  <2> DEFINE l == <<Message>>
  <2>1. l \in Seq(ClientItems)
    BY <1>1
  <2>2. \A does : Num(l, does) = IF does = "send" THEN 1 ELSE 0
    BY NumOne DEF Is, Item, Message
  <2> HIDE DEF l
  <2>3. Balanced(l)
    <3>1. /\ Num(l, "auth") = 0 /\ Num(l, "successful") = 0 /\ Num(l, "failed") = 0
          /\ Num(l, "enroll") = 0 /\ Num(l, "drop") = 0 /\ Num(l, "course_query") = 0
          /\ Num(l, "line") = 0 /\ Num(l, "session") = 0
      BY <2>2
    <3>2. Num(l, "read") + Num(l, "write") = Num(l, "file_op")
      BY <2>2
    <3>3. QED
      BY <3>1, <3>2, BalancedIf
  <2>4. QED
    BY <2>1, <2>2, <2>3 DEF Good, l
<1>3. Good(<<Message, Message>>, 0, 0)
  <2> DEFINE l == <<Message, Message>>
  <2>1. l \in Seq(ClientItems)
    BY <1>1
  <2>2. \A does : Num(l, does) = IF does = "send" THEN 2 ELSE 0
    <3>1. \A does : Num(l, does) = Is(Message, does) + Is(Message, does)
      BY NumTwo
    <3>2. QED
      BY <3>1 DEF Is, Item, Measured, Message, Line
  <2> HIDE DEF l
  <2>3. Balanced(l)
    <3>1. /\ Num(l, "auth") = 0 /\ Num(l, "successful") = 0 /\ Num(l, "failed") = 0
          /\ Num(l, "enroll") = 0 /\ Num(l, "drop") = 0 /\ Num(l, "course_query") = 0
          /\ Num(l, "line") = 0 /\ Num(l, "session") = 0
      BY <2>2
    <3>2. Num(l, "read") + Num(l, "write") = Num(l, "file_op")
      BY <2>2
    <3>3. QED
      BY <3>1, <3>2, BalancedIf
  <2>4. QED
    BY <2>1, <2>2, <2>3 DEF Good, l
<1>4. Good(<<Measured("connect"), Message>>, 1, 0)
  <2> DEFINE l == <<Measured("connect"), Message>>
  <2>1. l \in Seq(ClientItems)
    BY <1>1
  <2>2. \A does : Num(l, does) = (IF does = "connect" THEN 1 ELSE 0)
                                 + (IF does = "send" THEN 1 ELSE 0)
    <3>1. \A does : Num(l, does) = Is(Measured("connect"), does) + Is(Message, does)
      BY NumTwo
    <3>2. QED
      BY <3>1 DEF Is, Item, Measured, Message, Line
  <2> HIDE DEF l
  <2>3. Balanced(l)
    <3>1. /\ Num(l, "auth") = 0 /\ Num(l, "successful") = 0 /\ Num(l, "failed") = 0
          /\ Num(l, "enroll") = 0 /\ Num(l, "drop") = 0 /\ Num(l, "course_query") = 0
          /\ Num(l, "line") = 0 /\ Num(l, "session") = 0
      BY <2>2
    <3>2. Num(l, "read") + Num(l, "write") = Num(l, "file_op")
      BY <2>2
    <3>3. QED
      BY <3>1, <3>2, BalancedIf
  <2>4. QED
    BY <2>1, <2>2, <2>3 DEF Good, l
<1>5. Good(Farewell, 0, 1)
  <2> DEFINE l == <<Message, Measured("session"), Measured("disconnect"), Line>>
  <2>1. l \in Seq(ClientItems)
    BY <1>1
  <2>2. \A does : Num(l, does) = (IF does = "send" THEN 1 ELSE 0)
                                 + (IF does = "session" THEN 1 ELSE 0)
                                 + (IF does = "disconnect" THEN 1 ELSE 0)
                                 + (IF does = "line" THEN 1 ELSE 0)
    <3>1. \A does : Num(l, does) = Is(Message, does) + Is(Measured("session"), does)
                                   + Is(Measured("disconnect"), does) + Is(Line, does)
      BY NumFour
    <3>2. QED
      BY <3>1 DEF Is, Item, Measured, Message, Line
  <2> HIDE DEF l
  <2>3. Balanced(l)
    <3>1. /\ Num(l, "read") = 0 /\ Num(l, "write") = 0 /\ Num(l, "file_op") = 0
          /\ Num(l, "auth") = 0 /\ Num(l, "successful") = 0 /\ Num(l, "failed") = 0
          /\ Num(l, "enroll") = 0 /\ Num(l, "drop") = 0 /\ Num(l, "course_query") = 0
      BY <2>2
    <3>2. Num(l, "line") = 1 /\ Num(l, "session") = 1
      BY <2>2
    <3>3. QED
      BY <3>1, <3>2, BalancedIf
  <2>4. Num(l, "connect") = 0 /\ Num(l, "disconnect") = 1
    BY <2>2
  <2>5. Good(l, 0, 1)
    BY <2>1, <2>3, <2>4 DEF Good
  <2>6. QED
    BY <2>5 DEF l, Farewell
<1>6. QED
  BY <1>2, <1>3, <1>4, <1>5

(* A login of a student is one latency, one request and one line.          *)
LEMMA GoodVerdict ==
    ASSUME NEW result \in {"successful", "failed"}
    PROVE  Good(<<Measured("auth"), Message, Measured(result), Line>>, 0, 0)
<1> DEFINE l == <<Measured("auth"), Message, Measured(result), Line>>
<1>1. /\ Message \in ClientItems /\ Line \in ClientItems
      /\ Measured("auth") \in ClientItems /\ Measured(result) \in ClientItems
  BY ItemsAre DEF MetricsDone, OpType
<1>2. l \in Seq(ClientItems)
  BY <1>1
<1>3. \A does : Num(l, does) = (IF does = "auth" THEN 1 ELSE 0)
                               + (IF does = "send" THEN 1 ELSE 0)
                               + (IF does = result THEN 1 ELSE 0)
                               + (IF does = "line" THEN 1 ELSE 0)
  <2>1. \A does : Num(l, does) = Is(Measured("auth"), does) + Is(Message, does)
                                 + Is(Measured(result), does) + Is(Line, does)
    BY NumFour
  <2>2. QED
    BY <2>1 DEF Is, Item, Measured, Message, Line
<1> HIDE DEF l
<1>4. Balanced(l)
  <2>1. /\ Num(l, "read") = 0 /\ Num(l, "write") = 0 /\ Num(l, "file_op") = 0
        /\ Num(l, "enroll") = 0 /\ Num(l, "drop") = 0 /\ Num(l, "course_query") = 0
        /\ Num(l, "auth") = 1 /\ Num(l, "line") = 1 /\ Num(l, "session") = 0
    BY <1>3
  <2>2. Num(l, "successful") + Num(l, "failed") = 1
    BY <1>3
  <2>3. QED
    BY <2>1, <2>2, BalancedIf
<1>5. Num(l, "connect") = 0 /\ Num(l, "disconnect") = 0
  BY <1>3
<1>6. QED
  BY <1>2, <1>4, <1>5 DEF Good, l

(* So is an operation of the student's menu one latency and one line.      *)
LEMMA GoodOperation ==
    ASSUME NEW op \in MenuOps
    PROVE  Good(<<Message, Measured(op), Line, Message>>, 0, 0)
<1> DEFINE l == <<Message, Measured(op), Line, Message>>
<1>1. /\ Message \in ClientItems /\ Line \in ClientItems /\ Measured(op) \in ClientItems
      /\ op \in {"enroll", "drop", "course_query"}
  BY ItemsAre, ServerAssumption DEF MetricsDone, OpType
<1>2. l \in Seq(ClientItems)
  BY <1>1
<1>3. \A does : Num(l, does) = (IF does = "send" THEN 2 ELSE 0)
                               + (IF does = op THEN 1 ELSE 0)
                               + (IF does = "line" THEN 1 ELSE 0)
  <2>1. \A does : Num(l, does) = Is(Message, does) + Is(Measured(op), does)
                                 + Is(Line, does) + Is(Message, does)
    BY NumFour
  <2>2. QED
    BY <2>1 DEF Is, Item, Measured, Message, Line
<1> HIDE DEF l
<1>4. Balanced(l)
  <2>1. /\ Num(l, "read") = 0 /\ Num(l, "write") = 0 /\ Num(l, "file_op") = 0
        /\ Num(l, "auth") = 0 /\ Num(l, "successful") = 0 /\ Num(l, "failed") = 0
        /\ Num(l, "line") = 1 /\ Num(l, "session") = 0
    BY <1>1, <1>3
  <2>2. Num(l, "enroll") + Num(l, "drop") + Num(l, "course_query") = 1
    BY <1>1, <1>3
  <2>3. /\ Num(l, "enroll") \in Int /\ Num(l, "drop") \in Int
        /\ Num(l, "course_query") \in Int
    BY <1>2, PlacesFinite
  <2>4. QED
    BY <2>1, <2>2, <2>3, BalancedIf
<1>5. Num(l, "connect") = 0 /\ Num(l, "disconnect") = 0
  BY <1>1, <1>3
<1>6. QED
  BY <1>2, <1>4, <1>5 DEF Good, l

LEMMA GoodAnswered ==
    ASSUME NEW c, NEW result \in {"successful", "failed"}
    PROVE  Good(Answered(c, result), 0, 0)
<1>1. Good(LockFile("read"), 0, 0)
  BY GoodLockFile
<1>2. Good(<<Measured("auth"), Message, Measured(result), Line>>, 0, 0)
  BY GoodVerdict
<1>3. Good(<<Message>>, 0, 0)
  BY GoodShort
<1>4. PICK verdict : Answered(c, result) = LockFile("read") \o verdict
                     /\ Good(verdict, 0, 0)
  BY <1>2, <1>3 DEF Answered
<1>5. QED
  BY <1>1, <1>4, GoodConcat


-----------------------------------------------------------------------------
(* Steps and counts                                                        *)

LEMMA NumZero ==
    ASSUME NEW S, NEW s \in Seq(S), NEW does
    PROVE  Num(s, does) = 0 <=> Places(s, does) = {}
BY PlacesFinite, FS_EmptySet DEF Num

LEMMA NilHasNone == ASSUME NEW does PROVE Places(<<>>, does) = {}
BY DEF Places

(* The clients counted in and not out, and those that were served.         *)
In     == {c \in Client : Counted(c)}
Served == {c \in Client : pc[c] \notin {"none", "unserved"}}

LEMMA CountedKept ==
    ASSUME IsFiniteSet(Client), ClientsCounted,
           data["metrics"].current \in Nat, data["metrics"].peak \in Nat,
           data'["metrics"].current = data["metrics"].current,
           data'["metrics"].peak = data["metrics"].peak,
           In' = In, Served \subseteq Served'
    PROVE  ClientsCounted'
<1>1. data["metrics"].current = Cardinality(In)
      /\ data["metrics"].peak \in data["metrics"].current..Cardinality(Served)
  BY DEF ClientsCounted, In, Served
<1>2. IsFiniteSet(Served') /\ IsFiniteSet(Served)
  BY FS_Subset DEF Served
<1>3. Cardinality(Served) <= Cardinality(Served')
  BY <1>2, FS_Subset
<1>4. Cardinality(Served) \in Nat /\ Cardinality(Served') \in Nat
  BY <1>2, FS_CardinalityType
<1>5. /\ data'["metrics"].current = Cardinality(In')
      /\ data'["metrics"].peak \in data'["metrics"].current..Cardinality(Served')
  BY <1>1, <1>3, <1>4
<1>6. QED
  BY <1>5 DEF ClientsCounted, In, Served

(* The counts and the places of clients when a session goes on.            *)
LEMMA GivesCounted ==
    ASSUME pc = [t \in Thread |-> pc[t]], todo = [x \in Actor |-> todo[x]],
           Counting, NEW c \in Client, NEW items, NEW place,
           todo[c] = <<>>,
           todo' = [todo EXCEPT ![c] = items], pc' = [pc EXCEPT ![c] = place],
           \/ pc[c] = "none" /\ place = "type" /\ Good(items, 1, 0)
           \/ /\ pc[c] \in {"type", "login", "menu"} /\ place \in {"login", "menu"}
              /\ Good(items, 0, 0)
           \/ /\ pc[c] \in {"type", "login", "menu"} /\ place = "ending"
              /\ Good(items, 0, 1)
    PROVE  Counting' /\ In' = In /\ Served \subseteq Served'
<1>1. c \in Actor /\ c \in Thread /\ Client \subseteq Actor /\ Client \subseteq Thread
  BY DEF Actor, Thread
<1>2. /\ pc'[c] = place /\ todo'[c] = items
      /\ \A d \in Client : d # c => pc'[d] = pc[d] /\ todo'[d] = todo[d]
  BY <1>1
<1>3. items \in Seq(ClientItems)
  BY DEF Good
<1>4. /\ Num(items, "connect") = 0 <=> Places(items, "connect") = {}
      /\ Num(items, "disconnect") = 0 <=> Places(items, "disconnect") = {}
  BY <1>3, NumZero
<1>5. Counting'
  <2>1. ASSUME NEW d \in Client, d # c PROVE CountsOnce(d)'
    <3>1. pc'[d] = pc[d] /\ todo'[d] = todo[d] /\ CountsOnce(d)
      BY <1>2, <2>1 DEF Counting
    <3>2. QED
      BY <3>1 DEF CountsOnce
  <2>2. CountsOnce(c)'
    BY <1>2 DEF CountsOnce, Good
  <2>3. QED
    BY <2>1, <2>2 DEF Counting
<1>6. \A d \in Client : Counted(d)' <=> Counted(d)
  <2>1. \A d \in Client : d # c => (Counted(d)' <=> Counted(d))
    BY <1>2 DEF Counted, Owes
  <2>2. Counted(c)' <=> Counted(c)
    <3>1. Places(todo[c], "connect") = {} /\ Places(todo[c], "disconnect") = {}
      BY NilHasNone
    <3>2. /\ Counted(c) <=> pc[c] \in {"type", "login", "menu", "left"}
          /\ pc[c] \in {"none", "type", "login", "menu"}
      BY <3>1 DEF Counted, Owes
    <3>3. Counted(c)' <=> \/ place \in {"type", "login", "menu"}
                             /\ Places(items, "connect") = {}
                          \/ place = "ending" /\ Places(items, "disconnect") # {}
                          \/ place = "left"
      BY <1>2 DEF Counted, Owes
    <3>4. CASE pc[c] = "none" /\ place = "type" /\ Good(items, 1, 0)
      BY <1>4, <3>2, <3>3, <3>4 DEF Good
    <3>5. CASE /\ pc[c] \in {"type", "login", "menu"} /\ place \in {"login", "menu"}
               /\ Good(items, 0, 0)
      BY <1>4, <3>2, <3>3, <3>5 DEF Good
    <3>6. CASE /\ pc[c] \in {"type", "login", "menu"} /\ place = "ending"
               /\ Good(items, 0, 1)
      BY <1>4, <3>2, <3>3, <3>6 DEF Good
    <3>7. QED
      BY <3>4, <3>5, <3>6
  <2>3. QED
    BY <2>1, <2>2
<1>7. In' = In
  BY <1>6 DEF In
<1>8. Served \subseteq Served'
  BY <1>2 DEF Served
<1>9. QED
  BY <1>5, <1>7, <1>8


(* Nothing is recorded, and what there is to do grows by a list that tells *)
(* one story: the structures go on agreeing.                               *)
LEMMA AgreeGrows ==
    ASSUME IsFiniteSet(Client), Todos, Todos', DataOK, finished \in Seq(Client),
           StructuresAgree, process = "running", UNCHANGED <<data, finished>>,
           NEW x \in Actor, \A y \in Actor \ {x} : todo'[y] = todo[y],
           NEW gain, Agree(gain, 0),
           \A does \in Keys : gain[does] \in Int
                              /\ Num(todo'[x], does) = Num(todo[x], does) + gain[does]
    PROVE  StructuresAgree'
<1> DEFINE n == Len(finished)
<1>1. n \in Nat /\ n = Len(finished) /\ n = Len(finished') /\ data' = data
  OBVIOUS
<1> HIDE DEF n
<1>2. \A does \in Keys : DoneIn(data, n, does) \in Int /\ Num(todo[x], does) \in Int
  <2> SUFFICES ASSUME NEW does \in Keys
               PROVE  DoneIn(data, n, does) \in Int /\ Num(todo[x], does) \in Int
    OBVIOUS
  <2>1. DoneIn(data, n, does) \in Int
    BY <1>1, DoneInt
  <2>2. Num(todo[x], does) \in Nat
    BY TodoFinite, Zenon
  <2>3. QED
    BY <2>1, <2>2
<1>3. \A does \in Keys :
         /\ gain[does] \in Int /\ DoneIn(data', n, does) \in Int
         /\ DoneIn(data', n, does) + Num(todo'[x], does) =
                DoneIn(data, n, does) + Num(todo[x], does) + gain[does]
  BY <1>1, <1>2
<1>4. QED
  BY <1>1, <1>3, AgreeStep

LEMMA GivesStep ==
    ASSUME IsFiniteSet(Client), IInv, CountInv, VarsOK', process = "running",
           NEW c \in Client, NEW items, NEW place,
           todo[c] = <<>>, UNCHANGED <<data, finished>>,
           todo' = [todo EXCEPT ![c] = items], pc' = [pc EXCEPT ![c] = place],
           \/ pc[c] = "none" /\ place = "type" /\ Good(items, 1, 0)
           \/ /\ pc[c] \in {"type", "login", "menu"} /\ place \in {"login", "menu"}
              /\ Good(items, 0, 0)
           \/ /\ pc[c] \in {"type", "login", "menu"} /\ place = "ending"
              /\ Good(items, 0, 1)
    PROVE  CountInv'
<1>1. /\ pc = [t \in Thread |-> pc[t]] /\ todo = [x \in Actor |-> todo[x]]
      /\ Todos /\ DataOK /\ VarsOK /\ Counting /\ ClientsCounted /\ StructuresAgree
  BY DEF IInv, Shape, CountInv
<1>2. Counting' /\ In' = In /\ Served \subseteq Served'
  BY <1>1, GivesCounted
<1>3. items \in Seq(ClientItems) /\ Balanced(items) /\ c \in Actor
  BY DEF Good, Actor, Thread
<1>4. DataOK' /\ RingInv' /\ LogInv'
  BY DataKept DEF CountInv
<1>5. ClientsCounted'
  <2>1. data["metrics"].current \in Nat /\ data["metrics"].peak \in Nat
    BY <1>1 DEF DataOK, MetricsType
  <2>2. QED
    BY <1>1, <1>2, <2>1, CountedKept
<1>6. Todos'
  BY <1>1, <1>3 DEF Todos, ItemsOf
<1>7. StructuresAgree'
  <2> DEFINE gain == Nums(items)
  <2>1. /\ todo'[c] = items /\ \A y \in Actor \ {c} : todo'[y] = todo[y]
        /\ finished \in Seq(Client)
    BY <1>1, <1>3 DEF VarsOK
  <2>2. Agree(gain, 0)
    BY <1>3 DEF Balanced
  <2>3. \A does \in Keys : gain[does] \in Int
                           /\ Num(todo'[c], does) = Num(todo[c], does) + gain[does]
    BY <1>3, <2>1, NumNil, PlacesFinite DEF Nums
  <2> HIDE DEF gain
  <2>4. QED
    BY <1>1, <1>3, <1>6, <2>1, <2>2, <2>3, AgreeGrows
<1>8. QED
  BY <1>2, <1>4, <1>5, <1>6, <1>7 DEF CountInv


(* What a step does to the lists of clients that neither counts in nor out.*)
LEMMA SameCounted ==
    ASSUME Todos, Todos', Counting, pc' = pc,
           \A c \in Client : /\ Num(todo'[c], "connect") = Num(todo[c], "connect")
                             /\ Num(todo'[c], "disconnect") = Num(todo[c], "disconnect")
    PROVE  Counting' /\ In' = In /\ Served \subseteq Served'
<1>1. Client \subseteq Actor
  BY DEF Actor, Thread
<1>2. Counting'
  BY DEF Counting, CountsOnce
<1>3. ASSUME NEW c \in Client
      PROVE  /\ Places(todo'[c], "connect") = {} <=> Places(todo[c], "connect") = {}
             /\ Places(todo'[c], "disconnect") = {} <=> Places(todo[c], "disconnect") = {}
  <2>1. todo[c] \in Seq(ItemsOf(c)) /\ todo'[c] \in Seq(ItemsOf(c))
    BY <1>1 DEF Todos
  <2>2. /\ Num(todo[c], "connect") = 0 <=> Places(todo[c], "connect") = {}
        /\ Num(todo[c], "disconnect") = 0 <=> Places(todo[c], "disconnect") = {}
    BY <2>1, NumZero
  <2>3. /\ Num(todo'[c], "connect") = 0 <=> Places(todo'[c], "connect") = {}
        /\ Num(todo'[c], "disconnect") = 0 <=> Places(todo'[c], "disconnect") = {}
    BY <2>1, NumZero
  <2>4. QED
    BY <2>2, <2>3
<1>4. \A c \in Client : Counted(c)' <=> Counted(c)
  BY <1>3 DEF Counted, Owes
<1>5. In' = In
  BY <1>4 DEF In
<1>6. Served \subseteq Served'
  BY DEF Served
<1>7. QED
  BY <1>2, <1>5, <1>6

(* Steps that record nothing and change no list.                           *)
LEMMA ElsewhereStep ==
    ASSUME IsFiniteSet(Client), CountInv, VarsOK',
           UNCHANGED <<todo, data, finished, process>>,
           Counting', In' = In, Served \subseteq Served'
    PROVE  CountInv'
<1>1. Todos'
  BY DEF CountInv, Todos
<1>2. DataOK' /\ RingInv' /\ LogInv'
  BY DataKept DEF CountInv
<1>3. ClientsCounted'
  <2>1. data["metrics"].current \in Nat /\ data["metrics"].peak \in Nat
    BY DEF CountInv, DataOK, MetricsType
  <2>2. ClientsCounted
    BY DEF CountInv
  <2>3. QED
    BY <2>1, <2>2, CountedKept
<1>4. StructuresAgree'
  <2>1. StoriesAgree
    BY AgreeIs DEF CountInv
  <2>2. StoriesAgree'
    BY <2>1 DEF StoriesAgree
  <2>3. QED
    BY <2>2, AgreeStays
<1>5. QED
  BY <1>1, <1>2, <1>3, <1>4 DEF CountInv

(* A list changes, and what the structures are told does not.              *)
LEMMA QuietStep ==
    ASSUME IsFiniteSet(Client), CountInv, VarsOK', Todos', process = "running",
           pc' = pc, UNCHANGED <<data, finished>>,
           NEW x \in Actor, \A y \in Actor \ {x} : todo'[y] = todo[y],
           \A does \in Keys \cup {"connect", "disconnect"} :
              Num(todo'[x], does) = Num(todo[x], does)
    PROVE  CountInv'
<1>1. Counting' /\ In' = In /\ Served \subseteq Served'
  <2>1. \A c \in Client : /\ Num(todo'[c], "connect") = Num(todo[c], "connect")
                          /\ Num(todo'[c], "disconnect") = Num(todo[c], "disconnect")
    BY DEF Actor, Thread
  <2>2. Todos /\ Counting
    BY DEF CountInv
  <2>3. QED
    BY <2>1, <2>2, SameCounted
<1>2. DataOK' /\ RingInv' /\ LogInv'
  BY DataKept DEF CountInv
<1>3. ClientsCounted'
  <2>1. data["metrics"].current \in Nat /\ data["metrics"].peak \in Nat
    BY DEF CountInv, DataOK, MetricsType
  <2>2. ClientsCounted
    BY DEF CountInv
  <2>3. QED
    BY <1>1, <2>1, <2>2, CountedKept
<1>4. StructuresAgree'
  <2> DEFINE gain == [does \in Keys |-> 0]
  <2>1. Agree(gain, 0)
    BY KeysAre DEF Agree
  <2>2. \A does \in Keys : gain[does] \in Int
                           /\ Num(todo'[x], does) = Num(todo[x], does) + gain[does]
    <3> SUFFICES ASSUME NEW does \in Keys
                 PROVE  gain[does] \in Int
                        /\ Num(todo'[x], does) = Num(todo[x], does) + gain[does]
      OBVIOUS
    <3>1. Num(todo[x], does) \in Nat
      BY TodoFinite, Zenon DEF CountInv
    <3>2. QED
      BY <3>1
  <2> HIDE DEF gain
  <2>3. finished \in Seq(Client) /\ Todos /\ DataOK /\ StructuresAgree
    BY DEF CountInv, VarsOK
  <2>4. QED
    BY <2>1, <2>2, <2>3, AgreeGrows
<1>5. QED
  BY <1>1, <1>2, <1>3, <1>4 DEF CountInv


-----------------------------------------------------------------------------
(* Before the first client, and after the end of the process               *)

Start ==
    /\ data = Zeroed /\ finished = <<>> /\ VarsOK
    /\ \A c \in Client : pc[c] = "none"
    /\ \/ todo = [x \in Actor |-> IF x = Main THEN <<Line>> ELSE <<>>]
       \/ process = "dead" /\ todo = [x \in Actor |-> <<>>]

LEMMA StartCount == IsFiniteSet(Client) /\ Start => CountInv
<1> SUFFICES ASSUME IsFiniteSet(Client), Start PROVE CountInv
  OBVIOUS
<1>1. Main \in Actor /\ Main \notin Client /\ Client \subseteq Actor
  BY ServerAssumption DEF Actor, Thread
<1>2. ASSUME NEW x \in Actor PROVE todo[x] = <<>> \/ (x = Main /\ todo[x] = <<Line>>)
  <2>1. CASE todo = [y \in Actor |-> IF y = Main THEN <<Line>> ELSE <<>>]
    BY <2>1
  <2>2. CASE todo = [y \in Actor |-> <<>>]
    BY <2>2
  <2>3. QED
    BY <2>1, <2>2 DEF Start
<1>3. Todos
  <2>1. \A x \in Actor : <<>> \in Seq(ItemsOf(x))
    OBVIOUS
  <2>2. Line \in ServerItems /\ ItemsOf(Main) = ServerItems
    BY <1>1 DEF ServerItems, ItemsOf
  <2>3. <<Line>> \in Seq(ItemsOf(Main))
    BY <2>2
  <2>4. QED
    BY <1>2, <2>1, <2>3 DEF Todos
<1>4. \A c \in Client : pc[c] = "none" /\ todo[c] = <<>>
  BY <1>1, <1>2 DEF Start
<1>5. DataOK /\ RingInv /\ LogInv
  BY DataStart DEF Start
<1>6. Counting
  BY <1>4, NumNil DEF Counting, CountsOnce
<1>7. ClientsCounted
  <2>1. {c \in Client : Counted(c)} = {}
    BY <1>4 DEF Counted
  <2>2. {c \in Client : pc[c] \notin {"none", "unserved"}} = {}
    BY <1>4
  <2>3. data["metrics"].current = 0 /\ data["metrics"].peak = 0
    BY DEF Start, Zeroed, NoMetrics
  <2>4. QED
    BY <2>1, <2>2, <2>3, FS_EmptySet DEF ClientsCounted
<1>8. StructuresAgree
  <2>1. ASSUME process = "running" PROVE Agree(Story(data, Len(finished), todo), 1)
    <3>1. todo = [x \in Actor |-> IF x = Main THEN <<Line>> ELSE <<>>]
      BY <2>1 DEF Start
    <3>2. ASSUME NEW does \in Keys
          PROVE  Cardinality(OwedBy(todo, Actor, does)) = IF does = "line" THEN 1 ELSE 0
      <4>1. IsFiniteSet(Actor) /\ \A y \in Actor : IsFiniteSet(Places(todo[y], does))
        BY <1>3, ActorFinite, TodoFinite
      <4>2. OwedBy(todo, Actor \ {Main}, does) = {}
        BY <3>1, NilHasNone DEF OwedBy
      <4>3. Cardinality(OwedBy(todo, Actor, does)) =
                Cardinality(OwedBy(todo, Actor \ {Main}, does)) + Num(todo[Main], does)
        BY <1>1, <4>1, OwedSplit
      <4>4. Cardinality(OwedBy(todo, Actor \ {Main}, does)) = 0
        BY <4>2, FS_EmptySet
      <4>5. todo[Main] = <<Line>>
        BY <1>1, <3>1
      <4>6. Num(<<Line>>, does) = IF does = "line" THEN 1 ELSE 0
        BY NumOne DEF Is, Line, Item
      <4>7. QED
        BY <4>3, <4>4, <4>5, <4>6
    <3>3. ASSUME NEW does \in Keys PROVE DoneIn(data, 0, does) = 0
      <4>1. /\ \A op \in OpType : data["metrics"].count[op] = 0
            /\ data["metrics"]["successful"] = 0 /\ data["metrics"]["failed"] = 0
            /\ data["stats"]["read"] = 0 /\ data["stats"]["write"] = 0
            /\ data["log"].lines = 0
        BY DEF Start, Zeroed, NoMetrics
      <4>2. QED
        BY <4>1 DEF DoneIn
    <3>4. Len(finished) = 0
      BY DEF Start
    <3> DEFINE told == Story(data, 0, todo)
    <3>5. \A does \in Keys : told[does] = IF does = "line" THEN 1 ELSE 0
      BY <3>2, <3>3 DEF Story, ToldIn
    <3> HIDE DEF told
    <3>6. Agree(told, 1)
      BY <3>5, KeysAre DEF Agree
    <3>7. QED
      BY <3>4, <3>6 DEF told
  <2>2. QED
    BY <2>1, AgreeIs DEF StoriesAgree
<1>9. QED
  BY <1>3, <1>5, <1>6, <1>7, <1>8 DEF CountInv, Start

LEMMA StartCounts == ASSUME IsFiniteSet(Client) PROVE Start' => CountInv'
<1>1. Start => CountInv
  BY StartCount
<1>2. QED
  BY <1>1, PTL

LEMMA InitStart == Init => Start
<1> SUFFICES ASSUME Init PROVE Start
  OBVIOUS
<1>1. \A t \in Thread : pc[t] \in Points
  BY DEF Init, Points
<1>2. VarsOK
  <2>1. pc \in [Thread -> Points]
    BY <1>1 DEF Init
  <2>2. \A c \in Client : choices[c] = 0 /\ MaxChoices[c] \in Nat
    BY ServerAssumption DEF Init
  <2>3. QED
    BY <2>1, <2>2 DEF Init, VarsOK
<1>3. \A c \in Client : pc[c] = "none"
  BY ServerAssumption DEF Init, Thread
<1>4. QED
  BY <1>2, <1>3 DEF Init, Start

LEMMA DieStart == Die => Start'
<1> SUFFICES ASSUME Die PROVE Start'
  OBVIOUS
<1>1. \A c \in Client : pc'[c] = "none"
  BY DEF Die, Thread
<1>2. VarsOK'
  <2>1. pc' \in [Thread -> Points]
    BY DEF Die, Points
  <2>2. \A c \in Client : choices'[c] = 0 /\ MaxChoices[c] \in Nat
    BY ServerAssumption DEF Die
  <2>3. QED
    BY <2>1, <2>2 DEF Die, VarsOK
<1>3. QED
  BY <1>1, <1>2 DEF Die, Start


-----------------------------------------------------------------------------
(* Types of the variables that are not counted with                        *)

LEMMA VarsStep == ASSUME IInv, Todos, VarsOK, [Next]_vars PROVE VarsOK'
<1>1. CASE Die
  BY <1>1, DieStart DEF Start
<1>2. CASE UNCHANGED vars
  BY <1>2 DEF vars, VarsOK
<1>3. ASSUME NEW x \in Actor, Enter(x) PROVE VarsOK'
  <2>1. /\ UNCHANGED <<pc, role, peer, choices, handler, process, finished>>
        /\ \E m \in Mutex : holder' = [holder EXCEPT ![m] = x]
        /\ inside' = inside \cup {x}
    BY <1>3 DEF Enter
  <2>2. QED
    BY <2>1 DEF VarsOK
<1>4. ASSUME NEW x \in Actor, Leave(x) PROVE VarsOK'
  <2>1. /\ UNCHANGED <<pc, role, peer, choices, handler, process>>
        /\ holder' = [holder EXCEPT ![On(x)] = NoThread]
        /\ inside' = inside \ {x} /\ x \in inside
        /\ finished' = IF Head(todo[x]).does = "session" THEN Append(finished, x)
                                                         ELSE finished
    BY <1>4 DEF Leave, On
  <2>2. Head(todo[x]).does = "session" => x \in Client
    <3>1. Head(todo[x]) \in ItemsOf(x)
      BY <2>1, HeadTailProperties DEF IInv, HasItsMutex, Todos
    <3>2. \A e \in ServerItems : e.does # "session"
      BY DEF ServerItems, Line, PrintPeriodic, PrintLocks, CloseLog, Item
    <3>3. QED
      BY <3>1, <3>2 DEF ItemsOf
  <2>3. finished' \in Seq(Client)
    <3>1. CASE Head(todo[x]).does = "session"
      BY <2>1, <2>2, <3>1 DEF VarsOK
    <3>2. CASE Head(todo[x]).does # "session"
      BY <2>1, <3>2 DEF VarsOK
    <3>3. QED
      BY <3>1, <3>2
  <2>4. holder' \in [Mutex -> Actor \cup {NoThread}] /\ inside' \subseteq Actor
    BY <2>1 DEF VarsOK
  <2>5. QED
    BY <2>1, <2>3, <2>4 DEF VarsOK
<1>5. ASSUME NEW c \in Client,
             \/ SendMessage(c) \/ HangUp(c) \/ Login(c) \/ ChooseBadly(c) \/ Close(c)
             \/ Accept(c) \/ AcceptInVain(c) \/ ChooseType(c) \/ Logout(c)
             \/ GoAway(c) \/ Reset(c)
      PROVE  VarsOK'
  <2>1. c \in Thread
    BY DEF Thread
  <2>2. \/ Die
        \/ /\ UNCHANGED <<holder, inside, choices, handler, process, finished>>
           /\ \/ pc' = pc
              \/ \E place \in Points : pc' = [pc EXCEPT ![c] = place]
           /\ \/ role' = role
              \/ \E r \in {"student", "staff"} : role' = [role EXCEPT ![c] = r]
           /\ \/ peer' = peer
              \/ \E end \in {"away", "here", "gone", "written", "reset"} :
                    peer' = [peer EXCEPT ![c] = end]
    <3>1. CASE SendMessage(c)
      BY <3>1 DEF SendMessage, Shared, VarsOK
    <3>2. CASE HangUp(c) \/ Close(c) \/ AcceptInVain(c)
      BY <3>2 DEF HangUp, Close, AcceptInVain, Session, Shared, Points
    <3>3. CASE Login(c) \/ ChooseBadly(c) \/ Logout(c)
      BY <3>3 DEF Login, ChooseBadly, Logout, Continue, Session, Shared, Points
    <3>4. CASE Accept(c)
      BY <3>4 DEF Accept, Continue, Shared, Points
    <3>5. CASE ChooseType(c)
      <4>1. \A r \in Menus[c] : r \in {"student", "staff"}
        BY ServerAssumption
      <4>2. QED
        BY <3>5, <4>1 DEF ChooseType, Continue, Session, Shared, Points
    <3>6. CASE GoAway(c) \/ Reset(c)
      BY <3>6 DEF GoAway, Reset, Session, Shared
    <3>7. QED
      BY <1>5, <3>1, <3>2, <3>3, <3>4, <3>5, <3>6
  <2>3. CASE ~Die
    <3>1. pc' \in [Thread -> Points]
      BY <2>1, <2>2, <2>3 DEF VarsOK
    <3>2. role' \in [Client -> {"none", "student", "staff"}]
      BY <2>2, <2>3 DEF VarsOK
    <3>3. peer' \in [Client -> {"away", "here", "gone", "written", "reset"}]
      BY <2>2, <2>3 DEF VarsOK
    <3>4. QED
      BY <2>2, <2>3, <3>1, <3>2, <3>3 DEF VarsOK
  <2>4. QED
    BY <1>1, <2>3
<1>6. ASSUME NEW c \in Client, Choose(c) PROVE VarsOK'
  <2>1. /\ UNCHANGED <<holder, inside, role, peer, handler, process, finished>>
        /\ pc' = [pc EXCEPT ![c] = "menu"] /\ choices[c] < MaxChoices[c]
        /\ choices' = [choices EXCEPT ![c] = @ + 1]
    BY <1>6 DEF Choose, Continue, Session, Shared
  <2>2. pc' \in [Thread -> Points]
    BY <2>1 DEF VarsOK, Points
  <2>3. choices' \in [Client -> Nat] /\ \A d \in Client : choices'[d] <= MaxChoices[d]
    <3>1. /\ choices \in [Client -> Nat] /\ \A d \in Client : choices[d] <= MaxChoices[d]
          /\ \A d \in Client : MaxChoices[d] \in Nat
      BY ServerAssumption DEF VarsOK
    <3>2. choices' \in [Client -> Nat]
      BY <2>1, <3>1
    <3>3. \A d \in Client : choices'[d] = IF d = c THEN choices[d] + 1 ELSE choices[d]
      BY <2>1, <3>1
    <3>4. QED
      BY <2>1, <3>1, <3>2, <3>3
  <2>4. QED
    BY <2>1, <2>2, <2>3 DEF VarsOK
<1>7. ASSUME NEW t \in Thread, Interrupt(t) PROVE VarsOK'
  BY <1>7 DEF Interrupt, Shared, VarsOK
<1>8. CASE Spawn
  <2>1. pc' \in [Thread -> Points]
    BY <1>8 DEF Spawn, VarsOK, Points
  <2>2. QED
    BY <1>8, <2>1 DEF Spawn, Shared, VarsOK
<1>9. CASE Report
  <2>1. pc' \in [Thread -> Points]
    BY <1>9 DEF Report, Continue, VarsOK, Points
  <2>2. QED
    BY <1>9, <2>1 DEF Report, Shared, VarsOK
<1>10. CASE Stopped
  BY <1>10 DEF Stopped, vars, VarsOK
<1>11. CASE (\E c \in Client : BrokenPipe(c)) \/ Exit
  BY <1>1, <1>11 DEF BrokenPipe, Exit
<1>12. QED
  BY <1>2, <1>3, <1>4, <1>5, <1>6, <1>7, <1>8, <1>9, <1>10, <1>11 DEF Next, Step, Serve


-----------------------------------------------------------------------------
(* The steps that record nothing                                           *)

(* A message is nothing that is recorded.                                  *)
LEMMA KeysOther ==
    \A does \in Keys \cup {"connect", "disconnect"} :
       does \notin {"send", "print", "close"}
BY ServerAssumption DEF Keys, OpType

LEMMA SendCount ==
    ASSUME IsFiniteSet(Client), IInv, CountInv, VarsOK', NEW c \in Client, SendMessage(c)
    PROVE  CountInv'
<1>1. /\ todo[c] # <<>> /\ Head(todo[c]) = Message /\ process = "running"
      /\ todo' = [todo EXCEPT ![c] = Tail(@)]
      /\ UNCHANGED <<pc, data, finished>>
  BY DEF SendMessage, Sending, Runs, Shared
<1>2. c \in Actor /\ Todos
  BY DEF Actor, Thread, CountInv
<1>3. todo'[c] = Tail(todo[c]) /\ \A y \in Actor \ {c} : todo'[y] = todo[y]
  BY <1>1, <1>2 DEF IInv, Shape
<1>4. todo[c] \in Seq(ItemsOf(c))
  BY <1>2 DEF Todos
<1>5. Tail(todo[c]) \in Seq(ItemsOf(c))
  BY <1>1, <1>4, HeadTailProperties
<1>6. Todos'
  BY <1>2, <1>3, <1>5 DEF Todos
<1>7. ASSUME NEW does \in Keys \cup {"connect", "disconnect"}
      PROVE  Num(todo'[c], does) = Num(todo[c], does)
  <2>1. Num(todo[c], does) = Is(Message, does) + Num(Tail(todo[c]), does)
    BY <1>1, <1>4, NumTail
  <2>2. Is(Message, does) = 0
    BY KeysOther DEF Is, Message, Item
  <2>3. Num(Tail(todo[c]), does) \in Nat
    BY <1>5, PlacesFinite
  <2>4. QED
    BY <1>3, <2>1, <2>2, <2>3
<1>8. QED
  BY <1>1, <1>2, <1>3, <1>6, <1>7, QuietStep

(* The reporter and the signal handler have reports to print and a log to  *)
(* close, and record nothing.                                              *)
LEMMA ServerListCount ==
    ASSUME IsFiniteSet(Client), IInv, CountInv, VarsOK', process = "running",
           NEW x \in Actor, x \notin Client, NEW items, todo[x] = <<>>,
           \/ items = <<PrintPeriodic>>
           \/ items = <<PrintSummary, PrintLocks, CloseLog>>,
           todo' = [todo EXCEPT ![x] = items], UNCHANGED <<pc, data, finished>>
    PROVE  CountInv'
<1>1. todo'[x] = items /\ \A y \in Actor \ {x} : todo'[y] = todo[y]
  BY DEF IInv, Shape
<1>2. items \in Seq(ServerItems) /\ \A i \in DOMAIN items : items[i].does \in {"print", "close"}
  <2>1. /\ PrintPeriodic \in ServerItems /\ PrintSummary \in ServerItems
        /\ PrintLocks \in ServerItems /\ CloseLog \in ServerItems
    BY DEF ServerItems, PrintPeriodic, PrintSummary
  <2>2. /\ PrintPeriodic.does = "print" /\ PrintSummary.does = "print"
        /\ PrintLocks.does = "print" /\ CloseLog.does = "close"
    BY DEF PrintPeriodic, PrintSummary, PrintLocks, CloseLog, Item
  <2>3. CASE items = <<PrintPeriodic>>
    BY <2>1, <2>2, <2>3
  <2>4. CASE items = <<PrintSummary, PrintLocks, CloseLog>>
    BY <2>1, <2>2, <2>4
  <2>5. QED
    BY <2>3, <2>4
<1>3. Todos'
  BY <1>1, <1>2 DEF Todos, ItemsOf, CountInv
<1>4. ASSUME NEW does \in Keys \cup {"connect", "disconnect"}
      PROVE  Num(todo'[x], does) = Num(todo[x], does)
  <2>1. Places(items, does) = {}
    BY <1>2, KeysOther DEF Places
  <2>2. QED
    BY <1>1, <2>1, NumNil, FS_EmptySet DEF Num
<1>5. QED
  BY <1>1, <1>3, <1>4, QuietStep

LEMMA ReportCount ==
    ASSUME IsFiniteSet(Client), IInv, CountInv, VarsOK',
           Report \/ \E t \in Thread : Interrupt(t)
    PROVE  CountInv'
<1>1. CASE Report
  <2>1. Reporter \in Actor /\ Reporter \notin Client /\ Reporter \in Thread
    BY ServerAssumption DEF Actor, Thread
  <2>2. /\ todo[Reporter] = <<>> /\ process = "running"
        /\ todo' = [todo EXCEPT ![Reporter] = <<PrintPeriodic>>]
        /\ UNCHANGED <<data, finished>>
        /\ pc[Reporter] = "sleep" /\ pc' = [pc EXCEPT ![Reporter] = "sleep"]
    BY <1>1 DEF Report, Idle, Runs, Continue, Shared
  <2>3. pc' = pc
    BY <2>2 DEF IInv, Shape
  <2>4. QED
    BY <2>1, <2>2, <2>3, ServerListCount
<1>2. CASE \E t \in Thread : Interrupt(t)
  <2>1. Handler \in Actor /\ Handler \notin Client
    BY ServerAssumption DEF Actor, Thread
  <2>2. /\ handler = NoThread /\ process = "running"
        /\ todo' = [todo EXCEPT ![Handler] = <<PrintSummary, PrintLocks, CloseLog>>]
        /\ UNCHANGED <<pc, data, finished>>
    BY <1>2 DEF Interrupt, Shared
  <2>3. todo[Handler] = <<>>
    BY <2>2 DEF IInv, HandlerSleeps
  <2>4. QED
    BY <2>1, <2>2, <2>3, ServerListCount
<1>3. QED
  BY <1>1, <1>2

(* Threads that take a mutex or come to a new place, clients that go.      *)
LEMMA MoveCount ==
    ASSUME IsFiniteSet(Client), IInv, CountInv, VarsOK',
           \/ \E x \in Actor : Enter(x)
           \/ \E c \in Client : \/ HangUp(c) \/ Close(c) \/ GoAway(c) \/ Reset(c)
                                \/ AcceptInVain(c) /\ ~Die
           \/ Spawn \/ Stopped \/ UNCHANGED vars
    PROVE  CountInv'
<1>1. UNCHANGED <<todo, data, finished, process>>
  BY DEF Enter, HangUp, Close, GoAway, Reset, AcceptInVain, Spawn, Stopped, vars,
         Session, Shared
<1>2. Counting
  BY DEF CountInv
<1>3. CASE \A c \in Client : pc'[c] = pc[c]
  <2>1. Counting'
    BY <1>1, <1>2, <1>3 DEF Counting, CountsOnce
  <2>2. \A c \in Client : Counted(c)' <=> Counted(c)
    BY <1>1, <1>3 DEF Counted, Owes
  <2>3. In' = In /\ Served \subseteq Served'
    BY <1>3, <2>2 DEF In, Served
  <2>4. QED
    BY <1>1, <2>1, <2>3, ElsewhereStep
<1>4. ASSUME NEW c \in Client, HangUp(c) \/ Close(c) \/ (AcceptInVain(c) /\ ~Die)
      PROVE  CountInv'
  <2>1. c \in Thread
    BY DEF Thread
  <2>2. PICK place :
           /\ pc' = [pc EXCEPT ![c] = place] /\ todo[c] = <<>>
           /\ \/ pc[c] = "type" /\ place = "left"
              \/ pc[c] = "ending" /\ place = "ended"
              \/ pc[c] = "none" /\ place = "unserved"
    BY <1>4 DEF HangUp, Close, AcceptInVain, Idle, IInv, NewIsIdle
  <2>3. pc'[c] = place /\ \A d \in Client : d # c => pc'[d] = pc[d]
    BY <2>1, <2>2 DEF IInv, Shape, Thread
  <2>4. todo'[c] = <<>> /\ Num(todo[c], "connect") = 0 /\ Num(todo[c], "disconnect") = 0
    BY <1>1, <2>2, NumNil
  <2>5. Counting'
    <3>1. \A d \in Client : d # c => CountsOnce(d)'
      BY <1>1, <1>2, <2>3 DEF Counting, CountsOnce
    <3>2. CountsOnce(c)'
      BY <1>1, <2>4 DEF CountsOnce
    <3>3. QED
      BY <3>1, <3>2 DEF Counting
  <2>6. \A d \in Client : Counted(d)' <=> Counted(d)
    <3>1. \A d \in Client : d # c => (Counted(d)' <=> Counted(d))
      BY <1>1, <2>3 DEF Counted, Owes
    <3>2. Places(todo[c], "connect") = {} /\ Places(todo[c], "disconnect") = {}
      BY <2>2, NilHasNone
    <3>3. Counted(c)' <=> Counted(c)
      BY <1>1, <2>2, <2>3, <3>2 DEF Counted, Owes
    <3>4. QED
      BY <3>1, <3>3
  <2>7. In' = In /\ Served \subseteq Served'
    BY <2>2, <2>3, <2>6 DEF In, Served
  <2>8. QED
    BY <1>1, <2>5, <2>7, ElsewhereStep
<1>5. CASE Spawn
  <2>1. pc' = [pc EXCEPT ![Main] = "accept", ![Reporter] = "sleep"]
    BY <1>5 DEF Spawn
  <2>2. \A c \in Client : pc'[c] = pc[c]
    BY <2>1, ServerAssumption DEF IInv, Shape, Thread
  <2>3. QED
    BY <1>3, <2>2
<1>6. CASE \/ \E x \in Actor : Enter(x)
           \/ \E c \in Client : GoAway(c) \/ Reset(c)
           \/ Stopped \/ UNCHANGED vars
  <2>1. pc' = pc
    BY <1>6 DEF Enter, GoAway, Reset, Stopped, vars
  <2>2. QED
    BY <1>3, <2>1
<1>7. QED
  BY <1>4, <1>5, <1>6


(* A session that has nothing more to do is given its next list.           *)
LEMMA GivesCount ==
    ASSUME IsFiniteSet(Client), IInv, CountInv, VarsOK', NEW c \in Client,
           \/ Accept(c) \/ ChooseType(c) \/ Login(c) \/ Choose(c)
           \/ ChooseBadly(c) \/ Logout(c)
    PROVE  CountInv'
<1>1. /\ Good(<<Message>>, 0, 0) /\ Good(<<Message, Message>>, 0, 0)
      /\ Good(<<Measured("connect"), Message>>, 1, 0) /\ Good(Farewell, 0, 1)
  BY GoodShort
<1>2. Good(<<Message>> \o Farewell, 0, 1)
  BY <1>1, GoodConcat
<1>3. ASSUME NEW items, Good(items, 0, 0)
      PROVE  Good(items \o <<Message, Message>>, 0, 0)
             /\ Good(items \o Farewell, 0, 1) /\ Good(Append(items, Message), 0, 0)
  <2>1. Good(items \o <<Message, Message>>, 0, 0)
    BY <1>1, <1>3, GoodConcat
  <2>2. Good(items \o Farewell, 0, 1)
    BY <1>1, <1>3, GoodConcat
  <2>3. Good(items \o <<Message>>, 0, 0)
    BY <1>1, <1>3, GoodConcat
  <2>4. Append(items, Message) = items \o <<Message>>
    <3>1. items \in Seq(ClientItems) /\ Message \in ClientItems
      BY <1>3, ItemsAre DEF Good
    <3> HIDE DEF Message
    <3>2. QED
      BY <3>1
  <2>5. QED
    BY <2>1, <2>2, <2>3, <2>4
<1>4. /\ process = "running" /\ todo[c] = <<>> /\ UNCHANGED <<data, finished>>
  BY DEF Accept, ChooseType, Login, Choose, ChooseBadly, Logout, Idle, Runs, Shared,
         Session, IInv, NewIsIdle
<1>5. \E items, place :
         /\ todo' = [todo EXCEPT ![c] = items] /\ pc' = [pc EXCEPT ![c] = place]
         /\ \/ pc[c] = "none" /\ place = "type" /\ Good(items, 1, 0)
            \/ /\ pc[c] \in {"type", "login", "menu"} /\ place \in {"login", "menu"}
               /\ Good(items, 0, 0)
            \/ /\ pc[c] \in {"type", "login", "menu"} /\ place = "ending"
               /\ Good(items, 0, 1)
  <2>1. CASE Accept(c)
    BY <1>1, <2>1 DEF Accept, Continue
  <2>2. CASE ChooseType(c)
    BY <1>1, <1>2, <2>2 DEF ChooseType, Continue, Idle
  <2>3. CASE Login(c)
    <3>1. /\ Good(Answered(c, "successful"), 0, 0)
          /\ Good(Answered(c, "failed"), 0, 0)
      BY GoodAnswered
    <3>2. /\ Good(Append(Answered(c, "successful"), Message), 0, 0)
          /\ Good(Answered(c, "failed") \o Farewell, 0, 1)
      BY <1>3, <3>1
    <3>3. QED
      BY <2>3, <3>2 DEF Login, Continue, Idle
  <2>4. CASE Choose(c)
    <3>1. \A files \in FileOps : Good(files, 0, 0)
      BY GoodLockFile, ServerAssumption DEF FileOps
    <3>2. \A files \in FileOps : Good(files \o <<Message, Message>>, 0, 0)
      BY <1>3, <3>1
    <3>3. \A files \in FileOps, op \in MenuOps :
             Good(files \o <<Message, Measured(op), Line, Message>>, 0, 0)
      <4> SUFFICES ASSUME NEW files \in FileOps, NEW op \in MenuOps
                   PROVE  Good(files \o <<Message, Measured(op), Line, Message>>, 0, 0)
        OBVIOUS
      <4>1. Good(<<Message, Measured(op), Line, Message>>, 0, 0)
        BY GoodOperation
      <4>2. QED
        BY <3>1, <4>1, GoodConcat
    <3>4. pc[c] = "menu" /\ pc' = [pc EXCEPT ![c] = "menu"]
      BY <2>4 DEF Choose, Continue, Idle
    <3>5. \E items : todo' = [todo EXCEPT ![c] = items] /\ Good(items, 0, 0)
      BY <1>1, <2>4, <3>2, <3>3 DEF Choose, Continue
    <3>6. QED
      BY <3>4, <3>5
  <2>5. CASE ChooseBadly(c)
    BY <1>1, <2>5 DEF ChooseBadly, Continue, Idle
  <2>6. CASE Logout(c)
    BY <1>2, <2>6 DEF Logout, Continue, Idle
  <2>7. QED
    BY <2>1, <2>2, <2>3, <2>4, <2>5, <2>6
<1>6. QED
  BY <1>4, <1>5, GivesStep



-----------------------------------------------------------------------------
(* What a thread records before it unlocks a mutex                         *)

LEMMA RingKept ==
    ASSUME RingInv, finished' = finished,
           data'["metrics"].writeIdx = data["metrics"].writeIdx,
           data'["metrics"].latencyCount = data["metrics"].latencyCount,
           data'["metrics"].samples = data["metrics"].samples
    PROVE  RingInv'
BY DEF RingInv

(* A call on the metrics adds one to what it is called for.                *)
RecordedOnce(m, does, d) ==
    /\ d \in MetricsType
    /\ \A op \in OpType : d.count[op] = m.count[op] + (IF op = does THEN 1 ELSE 0)
    /\ d.successful = m.successful + (IF does = "successful" THEN 1 ELSE 0)
    /\ d.failed = m.failed + (IF does = "failed" THEN 1 ELSE 0)
    /\ does # "session" => /\ d.writeIdx = m.writeIdx /\ d.samples = m.samples
                           /\ d.latencyCount = m.latencyCount
    /\ does \notin {"connect", "disconnect"} => d.current = m.current /\ d.peak = m.peak

LEMMA OpTypeIs == OpType \subseteq {"enroll", "drop", "course_query", "auth", "file_op"}
BY ServerAssumption DEF OpType

(* A call that leaves the other counts alone.                              *)
LEMMA OnceOther ==
    ASSUME NEW m \in MetricsType, NEW does \in {"connect", "disconnect", "session", "print"},
           NEW d \in MetricsType,
           d.count = m.count, d.successful = m.successful, d.failed = m.failed,
           does # "session" => /\ d.writeIdx = m.writeIdx /\ d.samples = m.samples
                               /\ d.latencyCount = m.latencyCount,
           does \notin {"connect", "disconnect"} => d.current = m.current /\ d.peak = m.peak
    PROVE  RecordedOnce(m, does, d)
<1>1. m.successful \in Nat /\ m.failed \in Nat /\ \A op \in OpType : m.count[op] \in Nat
  BY DEF MetricsType
<1>2. \A op \in OpType : op # does
  BY OpTypeIs
<1>3. \A op \in OpType : d.count[op] = m.count[op] + (IF op = does THEN 1 ELSE 0)
  BY <1>1, <1>2
<1>4. /\ d.successful = m.successful + (IF does = "successful" THEN 1 ELSE 0)
      /\ d.failed = m.failed + (IF does = "failed" THEN 1 ELSE 0)
  BY <1>1
<1>5. QED
  BY <1>3, <1>4 DEF RecordedOnce

LEMMA OnceConnect ==
    ASSUME NEW m \in MetricsType, NEW top \in Nat
    PROVE  RecordedOnce(m, "connect", [m EXCEPT !.current = @ + 1, !.peak = top])
<1> DEFINE up == [m EXCEPT !.current = @ + 1]
<1>1. up \in MetricsType
  <2>1. m.current + 1 \in Nat
    BY DEF MetricsType
  <2>2. QED
    BY <2>1 DEF MetricsType
<1>2. /\ up.count = m.count /\ up.successful = m.successful /\ up.failed = m.failed
      /\ up.writeIdx = m.writeIdx /\ up.samples = m.samples
      /\ up.latencyCount = m.latencyCount
  BY DEF MetricsType
<1> HIDE DEF up
<1> DEFINE d == [up EXCEPT !.peak = top]
<1>3. d \in MetricsType
  BY <1>1 DEF MetricsType
<1>4. /\ d.count = up.count /\ d.successful = up.successful /\ d.failed = up.failed
      /\ d.writeIdx = up.writeIdx /\ d.samples = up.samples
      /\ d.latencyCount = up.latencyCount
  BY <1>1 DEF MetricsType
<1> HIDE DEF d
<1>5. RecordedOnce(m, "connect", d)
  BY <1>2, <1>3, <1>4, OnceOther
<1>6. QED
  BY <1>5 DEF up, d

LEMMA OnceDisconnect ==
    ASSUME NEW m \in MetricsType, NEW d,
           d = [m EXCEPT !.current = IF @ > 0 THEN @ - 1 ELSE @]
    PROVE  RecordedOnce(m, "disconnect", d)
<1>1. d \in MetricsType
  <2> DEFINE v == IF m.current > 0 THEN m.current - 1 ELSE m.current
  <2>1. v \in Nat /\ d = [m EXCEPT !.current = v]
    BY DEF MetricsType
  <2> HIDE DEF v
  <2>2. QED
    BY <2>1 DEF MetricsType
<1>2. /\ d.count = m.count /\ d.successful = m.successful /\ d.failed = m.failed
      /\ d.writeIdx = m.writeIdx /\ d.samples = m.samples
      /\ d.latencyCount = m.latencyCount
  BY DEF MetricsType
<1>3. QED
  BY <1>1, <1>2, OnceOther

LEMMA OnceSuccessful ==
    ASSUME NEW m \in MetricsType, NEW d,
           d = [m EXCEPT !.successful = @ + 1]
    PROVE  RecordedOnce(m, "successful", d)
<1>1. d \in MetricsType
  <2> DEFINE v == m.successful + 1
  <2>1. v \in Nat /\ d = [m EXCEPT !.successful = v]
    BY DEF MetricsType
  <2> HIDE DEF v
  <2>2. QED
    BY <2>1 DEF MetricsType
<1>2. /\ d.current = m.current /\ d.peak = m.peak /\ d.failed = m.failed
      /\ d.count = m.count /\ d.samples = m.samples /\ d.writeIdx = m.writeIdx
      /\ d.latencyCount = m.latencyCount /\ d.successful = m.successful + 1
  BY DEF MetricsType
<1>3. m.successful \in Nat /\ m.failed \in Nat /\ \A op \in OpType : m.count[op] \in Nat
  BY DEF MetricsType
<1>4. \A op \in OpType : op # "successful"
  BY OpTypeIs
<1>5. \A op \in OpType : d.count[op] = m.count[op] + (IF op = "successful" THEN 1 ELSE 0)
  BY <1>2, <1>3, <1>4
<1>6. /\ d.successful = m.successful + (IF "successful" = "successful" THEN 1 ELSE 0)
      /\ d.failed = m.failed + (IF "successful" = "failed" THEN 1 ELSE 0)
  BY <1>2, <1>3
<1>7. QED
  BY <1>1, <1>2, <1>5, <1>6 DEF RecordedOnce

LEMMA OnceFailed ==
    ASSUME NEW m \in MetricsType, NEW d,
           d = [m EXCEPT !.failed = @ + 1]
    PROVE  RecordedOnce(m, "failed", d)
<1>1. d \in MetricsType
  <2> DEFINE v == m.failed + 1
  <2>1. v \in Nat /\ d = [m EXCEPT !.failed = v]
    BY DEF MetricsType
  <2> HIDE DEF v
  <2>2. QED
    BY <2>1 DEF MetricsType
<1>2. /\ d.current = m.current /\ d.peak = m.peak /\ d.successful = m.successful
      /\ d.count = m.count /\ d.samples = m.samples /\ d.writeIdx = m.writeIdx
      /\ d.latencyCount = m.latencyCount /\ d.failed = m.failed + 1
  BY DEF MetricsType
<1>3. m.successful \in Nat /\ m.failed \in Nat /\ \A op \in OpType : m.count[op] \in Nat
  BY DEF MetricsType
<1>4. \A op \in OpType : op # "failed"
  BY OpTypeIs
<1>5. \A op \in OpType : d.count[op] = m.count[op] + (IF op = "failed" THEN 1 ELSE 0)
  BY <1>2, <1>3, <1>4
<1>6. /\ d.successful = m.successful + (IF "failed" = "successful" THEN 1 ELSE 0)
      /\ d.failed = m.failed + (IF "failed" = "failed" THEN 1 ELSE 0)
  BY <1>2, <1>3
<1>7. QED
  BY <1>1, <1>2, <1>5, <1>6 DEF RecordedOnce

LEMMA OnceLatency ==
    ASSUME NEW m \in MetricsType, NEW does \in OpType
    PROVE  RecordedOnce(m, does, [m EXCEPT !.count[does] = @ + 1])
<1> DEFINE f == [m.count EXCEPT ![does] = @ + 1]
           d == [m EXCEPT !.count[does] = @ + 1]
<1>1. m.count \in [OpType -> Nat]
  BY DEF MetricsType
<1>2. f \in [OpType -> Nat] /\ d = [m EXCEPT !.count = f]
  BY <1>1
<1>3. \A op \in OpType : f[op] = m.count[op] + (IF op = does THEN 1 ELSE 0)
  BY <1>1
<1> HIDE DEF f, d
<1>4. d \in MetricsType
  BY <1>2 DEF MetricsType
<1>5. /\ d.current = m.current /\ d.peak = m.peak /\ d.successful = m.successful
      /\ d.failed = m.failed /\ d.samples = m.samples /\ d.writeIdx = m.writeIdx
      /\ d.latencyCount = m.latencyCount /\ d.count = f
  BY <1>2 DEF MetricsType
<1>6. m.successful \in Nat /\ m.failed \in Nat
  BY DEF MetricsType
<1>7. does \notin {"successful", "failed", "session", "connect", "disconnect"}
  BY OpTypeIs
<1>8. RecordedOnce(m, does, d)
  BY <1>3, <1>4, <1>5, <1>6, <1>7 DEF RecordedOnce
<1>9. QED
  BY <1>8 DEF d

LEMMA OnceSession ==
    ASSUME NEW m \in MetricsType, NEW c \in Client, NEW d,
           d = RecordSessionLatency(m, c)
    PROVE  RecordedOnce(m, "session", d)
<1> DEFINE ring == [m.samples EXCEPT ![m.writeIdx % RingSize] = c]
           full == IF m.latencyCount < RingSize THEN m.latencyCount + 1 ELSE m.latencyCount
           next == m.writeIdx + 1
           one  == [m EXCEPT !.samples = ring]
           two  == [one EXCEPT !.writeIdx = next]
<1>1. m.samples \in [0..RingSize - 1 -> Client \cup {NoThread}]
      /\ m.writeIdx \in Nat /\ m.latencyCount \in Nat
  BY DEF MetricsType
<1>2. m.writeIdx % RingSize \in 0..RingSize - 1
  BY <1>1, ServerAssumption
<1>3. ring \in [0..RingSize - 1 -> Client \cup {NoThread}] /\ full \in Nat
      /\ next \in Nat
  BY <1>1, <1>2
<1>4. d = [two EXCEPT !.latencyCount = full]
  <2>1. d = [m EXCEPT !.samples = ring, !.writeIdx = next, !.latencyCount = full]
    BY DEF RecordSessionLatency
  <2> HIDE DEF ring, next, full
  <2>2. QED
    BY <2>1
<1> HIDE DEF ring, next, full
<1>5. /\ one \in MetricsType
      /\ one.count = m.count /\ one.successful = m.successful /\ one.failed = m.failed
      /\ one.current = m.current /\ one.peak = m.peak
  BY <1>3 DEF MetricsType
<1> HIDE DEF one
<1>6. /\ two \in MetricsType
      /\ two.count = one.count /\ two.successful = one.successful
      /\ two.failed = one.failed /\ two.current = one.current /\ two.peak = one.peak
  BY <1>3, <1>5 DEF MetricsType
<1> HIDE DEF two
<1>7. /\ d \in MetricsType
      /\ d.count = two.count /\ d.successful = two.successful
      /\ d.failed = two.failed /\ d.current = two.current /\ d.peak = two.peak
  BY <1>3, <1>4, <1>6 DEF MetricsType
<1>8. QED
  BY <1>5, <1>6, <1>7, OnceOther

LEMMA OncePrint == ASSUME NEW m \in MetricsType PROVE RecordedOnce(m, "print", m)
BY OpTypeIs DEF RecordedOnce, MetricsType

LEMMA MetricsAfter ==
    ASSUME NEW m \in MetricsType, NEW x, NEW does \in MetricsDone \cup {"print"},
           NEW d, d \in After(x, does, m), does = "session" => x \in Client
    PROVE  RecordedOnce(m, does, d)
<1>1. CASE does = "connect"
  <2> DEFINE top == Max({m.peak, m.current + 1})
  <2>1. d = [m EXCEPT !.current = @ + 1, !.peak = top]
    BY <1>1, OpTypeIs DEF After, ClientConnect
  <2>2. top \in Nat
    <3>1. m.peak \in Nat /\ m.current + 1 \in Nat
      BY DEF MetricsType
    <3>2. QED
      BY <3>1, MaxOfTwo
  <2> HIDE DEF top
  <2>3. QED
    BY <1>1, <2>1, <2>2, OnceConnect
<1>2. CASE does = "disconnect"
  <2>1. d = [m EXCEPT !.current = IF @ > 0 THEN @ - 1 ELSE @]
    BY <1>2, OpTypeIs DEF After, ClientDisconnect
  <2>2. QED
    BY <1>2, <2>1, OnceDisconnect
<1>3. CASE does = "successful"
  <2>1. d = [m EXCEPT !.successful = @ + 1]
    BY <1>3, OpTypeIs DEF After, RecordRequest
  <2>2. QED
    BY <1>3, <2>1, OnceSuccessful
<1>4. CASE does = "failed"
  <2>1. d = [m EXCEPT !.failed = @ + 1]
    BY <1>4, OpTypeIs DEF After, RecordRequest
  <2>2. QED
    BY <1>4, <2>1, OnceFailed
<1>5. CASE does \in OpType
  <2>1. d = [m EXCEPT !.count[does] = @ + 1]
    BY <1>5, OpTypeIs DEF After, RecordLatency
  <2>2. QED
    BY <1>5, <2>1, OnceLatency
<1>6. CASE does = "session"
  <2>1. d = RecordSessionLatency(m, x) /\ x \in Client
    BY <1>6, OpTypeIs DEF After
  <2>2. QED
    BY <1>6, <2>1, OnceSession
<1>7. CASE does = "print"
  <2>1. d = m
    BY <1>7, OpTypeIs DEF After
  <2>2. QED
    BY <1>7, <2>1, OncePrint
<1>8. QED
  BY <1>1, <1>2, <1>3, <1>4, <1>5, <1>6, <1>7 DEF MetricsDone


-----------------------------------------------------------------------------
(* A thread leaves a mutex                                                 *)

(* What was done grows by the item that x had first.                       *)
Recorded(x) ==
    \A k \in Keys : DoneIn(data', Len(finished'), k) =
                        DoneIn(data, Len(finished), k) + Is(Head(todo[x]), k)
SameCount ==
    /\ data'["metrics"].current = data["metrics"].current
    /\ data'["metrics"].peak = data["metrics"].peak

LEMMA LeaveIs ==
    ASSUME IInv, CountInv, NEW x \in Actor, Leave(x)
    PROVE  /\ process = "running" /\ pc' = pc /\ process' = process
           /\ todo[x] # <<>> /\ todo[x] \in Seq(ItemsOf(x)) /\ Todos'
           /\ todo'[x] = Tail(todo[x]) /\ \A y \in Actor \ {x} : todo'[y] = todo[y]
           /\ Head(todo[x]) \in ItemsOf(x) /\ On(x) \in Mutex
           /\ \E d \in After(x, Head(todo[x]).does, data[On(x)]) :
                 /\ data'[On(x)] = d
                 /\ \A m \in Mutex \ {On(x)} : data'[m] = data[m]
           /\ finished' = IF Head(todo[x]).does = "session" THEN Append(finished, x)
                                                            ELSE finished
<1>1. /\ x \in inside /\ process = "running" /\ pc' = pc /\ process' = process
      /\ \E d \in After(x, Head(todo[x]).does, seen[x]) : data' = [data EXCEPT ![On(x)] = d]
      /\ todo' = [todo EXCEPT ![x] = Tail(@)]
      /\ finished' = IF Head(todo[x]).does = "session" THEN Append(finished, x) ELSE finished
  BY DEF Leave, On, Runs
<1>2. todo[x] # <<>> /\ On(x) \in Mutex /\ seen[x] = data[On(x)]
  BY <1>1 DEF IInv, HasItsMutex, NothingStale, On
<1>3. todo[x] \in Seq(ItemsOf(x))
  BY DEF CountInv, Todos
<1>4. Head(todo[x]) \in ItemsOf(x) /\ Tail(todo[x]) \in Seq(ItemsOf(x))
  BY <1>2, <1>3, HeadTailProperties
<1>5. todo'[x] = Tail(todo[x]) /\ \A y \in Actor \ {x} : todo'[y] = todo[y]
  BY <1>1 DEF IInv, Shape
<1>6. Todos'
  BY <1>4, <1>5 DEF CountInv, Todos
<1>7. \E d \in After(x, Head(todo[x]).does, data[On(x)]) :
         data'[On(x)] = d /\ \A m \in Mutex \ {On(x)} : data'[m] = data[m]
  BY <1>1, <1>2 DEF IInv, Shape
<1>8. QED
  BY <1>1, <1>2, <1>3, <1>4, <1>5, <1>6, <1>7

(* Which items are about which structure.                                  *)
LEMMA ItemsBy ==
    ASSUME NEW x \in Actor, NEW e \in ItemsOf(x)
    PROVE  /\ e.on = "metrics" => e.does \in MetricsDone \cup {"print"}
           /\ e.on = "stats"   => e.does \in {"read", "write", "print"}
           /\ e.on = "log"     => e.does \in {"line", "close"}
           /\ e.does \in {"session", "connect", "disconnect"} =>
                 x \in Client /\ e.on = "metrics"
<1>1. \A does : /\ Measured(does).on = "metrics" /\ Measured(does).does = does
                /\ Item("stats", does).on = "stats" /\ Item("stats", does).does = does
  BY DEF Measured, Item
<1>2. /\ Message.on = "client" /\ Message.does = "send" /\ Line.on = "log" /\ Line.does = "line"
      /\ PrintPeriodic.on = "metrics" /\ PrintPeriodic.does = "print"
      /\ PrintLocks.on = "stats" /\ PrintLocks.does = "print"
      /\ CloseLog.on = "log" /\ CloseLog.does = "close"
  BY DEF Message, Line, PrintPeriodic, PrintLocks, CloseLog, Item
<1>3. CASE x \in Client
  <2>1. CASE e \in {Message, Line}
    BY <1>2, <1>3, <2>1
  <2>2. CASE \E does \in MetricsDone : e = Measured(does)
    BY <1>1, <1>3, <2>2
  <2>3. CASE \E kind \in {"read", "write"} : e = Item("stats", kind)
    BY <1>1, <1>3, <2>3
  <2>4. QED
    BY <1>3, <2>1, <2>2, <2>3 DEF ItemsOf, ClientItems
<1>4. CASE x \notin Client
  BY <1>2, <1>4 DEF ItemsOf, ServerItems
<1>5. QED
  BY <1>3, <1>4

LEMMA LeaveMetrics ==
    ASSUME IInv, CountInv, NEW x \in Actor, Leave(x), On(x) = "metrics"
    PROVE  /\ DataOK' /\ RingInv' /\ LogInv' /\ Recorded(x)
           /\ Head(todo[x]).does \notin {"connect", "disconnect"} => SameCount
<1> DEFINE does == Head(todo[x]).does
           m == data["metrics"]
           d == data'["metrics"]
<1>1. /\ d \in After(x, does, m)
      /\ data'["stats"] = data["stats"] /\ data'["log"] = data["log"]
      /\ finished' = IF does = "session" THEN Append(finished, x) ELSE finished
  <2>1. "stats" \in Mutex /\ "log" \in Mutex
    BY DEF Mutex
  <2>2. QED
    BY <2>1, LeaveIs
<1>2. does \in MetricsDone \cup {"print"} /\ (does = "session" => x \in Client)
  <2>1. Head(todo[x]) \in ItemsOf(x)
    BY LeaveIs
  <2>2. QED
    BY <2>1, ItemsBy DEF On
<1>3. /\ m \in MetricsType /\ data["stats"] \in [read : Nat, write : Nat]
      /\ data["log"] \in LogType /\ finished \in Seq(Client) /\ RingInv /\ LogInv
  BY DEF CountInv, DataOK, VarsOK
<1>4. RecordedOnce(m, does, d)
  <2> HIDE DEF m, d, does
  <2>1. QED
    BY <1>1, <1>2, <1>3, MetricsAfter
<1>5. DataOK'
  BY <1>1, <1>3, <1>4 DEF DataOK, RecordedOnce
<1>6. LogInv'
  BY <1>1, <1>3 DEF LogInv
<1>7. RingInv'
  <2>1. CASE does = "session"
    <3>1. d = RecordSessionLatency(m, x)
      BY <1>1, <2>1, OpTypeIs DEF After
    <3>2. QED
      BY <1>1, <1>2, <1>3, <2>1, <3>1, RingStep
  <2>2. CASE does # "session"
    BY <1>1, <1>3, <1>4, <2>2, RingKept DEF RecordedOnce
  <2>3. QED
    BY <2>1, <2>2
<1>8. Recorded(x)
  <2>1. /\ \A op \in OpType : d.count[op] = m.count[op] + Is(Head(todo[x]), op)
        /\ d.successful = m.successful + Is(Head(todo[x]), "successful")
        /\ d.failed = m.failed + Is(Head(todo[x]), "failed")
    BY <1>4 DEF RecordedOnce, Is
  <2>2. Len(finished') = Len(finished) + Is(Head(todo[x]), "session")
    BY <1>1, <1>3 DEF Is
  <2>3. \A k \in Keys : k \notin MetricsDone => Is(Head(todo[x]), k) = 0
    BY <1>2, KeysOther DEF Is
  <2>4. /\ data["stats"]["read"] \in Nat /\ data["stats"]["write"] \in Nat
        /\ data["log"].lines \in Nat
    BY <1>3 DEF LogType
  <2> DEFINE e == Head(todo[x])
             n == Len(finished)
             n2 == Len(finished')
  <2> HIDE DEF does, m, d
  <2>5. ASSUME NEW k \in Keys
        PROVE  DoneIn(data', n2, k) = DoneIn(data, n, k) + Is(e, k)
    <3>1. CASE k \in OpType
      <4>1. \A d2, j : DoneIn(d2, j, k) = d2["metrics"].count[k]
        BY <3>1, OpTypeIs DEF DoneIn
      <4>2. d.count[k] = m.count[k] + Is(e, k)
        BY <2>1, <3>1 DEF e
      <4>3. QED
        BY <4>1, <4>2 DEF m, d
    <3>2. CASE k = "successful"
      BY <2>1, <3>2, OpTypeIs DEF DoneIn, m, d
    <3>3. CASE k = "failed"
      BY <2>1, <3>3, OpTypeIs DEF DoneIn, m, d
    <3>4. CASE k = "session"
      <4>1. \A d2, j : DoneIn(d2, j, "session") = j
        BY OpTypeIs DEF DoneIn
      <4>2. QED
        BY <2>2, <3>4, <4>1
    <3>5. CASE k \notin MetricsDone
      <4>1. Is(e, k) = 0
        BY <2>3, <3>5
      <4>2. CASE k \in {"read", "write"}
        BY <1>1, <2>4, <4>1, <4>2, OpTypeIs DEF DoneIn
      <4>3. CASE k = "line"
        BY <1>1, <2>4, <4>1, <4>3, OpTypeIs DEF DoneIn
      <4>4. CASE k \notin {"read", "write", "line"}
        BY <3>5, <4>1, <4>4 DEF DoneIn, MetricsDone
      <4>5. QED
        BY <4>2, <4>3, <4>4
    <3>6. QED
      BY <3>1, <3>2, <3>3, <3>4, <3>5 DEF Keys, MetricsDone
  <2>6. QED
    BY <2>5 DEF Recorded
<1>9. does \notin {"connect", "disconnect"} => SameCount
  BY <1>4 DEF RecordedOnce, SameCount
<1>10. QED
  BY <1>5, <1>6, <1>7, <1>8, <1>9


LEMMA LeaveStats ==
    ASSUME IInv, CountInv, NEW x \in Actor, Leave(x), On(x) = "stats"
    PROVE  DataOK' /\ RingInv' /\ LogInv' /\ Recorded(x) /\ SameCount
<1> DEFINE does == Head(todo[x]).does
           s == data["stats"]
           d == data'["stats"]
<1>1. /\ d \in After(x, does, s)
      /\ data'["metrics"] = data["metrics"] /\ data'["log"] = data["log"]
      /\ finished' = IF does = "session" THEN Append(finished, x) ELSE finished
  <2>1. "metrics" \in Mutex /\ "log" \in Mutex
    BY DEF Mutex
  <2>2. QED
    BY <2>1, LeaveIs
<1>2. does \in {"read", "write", "print"}
  <2>1. Head(todo[x]) \in ItemsOf(x)
    BY LeaveIs
  <2>2. QED
    BY <2>1, ItemsBy DEF On
<1>3. /\ data["metrics"] \in MetricsType /\ s \in [read : Nat, write : Nat]
      /\ data["log"] \in LogType /\ finished \in Seq(Client) /\ RingInv /\ LogInv
  BY DEF CountInv, DataOK, VarsOK
<1>4. finished' = finished
  BY <1>1, <1>2
<1>5. /\ d \in [read : Nat, write : Nat]
      /\ d.read = s.read + (IF does = "read" THEN 1 ELSE 0)
      /\ d.write = s.write + (IF does = "write" THEN 1 ELSE 0)
  <2>1. CASE does = "read"
    <3>1. d = [s EXCEPT !.read = @ + 1]
      BY <1>1, <2>1, OpTypeIs DEF After, CountLock
    <3> HIDE DEF d, s, does
    <3>2. QED
      BY <1>3, <2>1, <3>1
  <2>2. CASE does = "write"
    <3>1. d = [s EXCEPT !.write = @ + 1]
      BY <1>1, <2>2, OpTypeIs DEF After, CountLock
    <3> HIDE DEF d, s, does
    <3>2. QED
      BY <1>3, <2>2, <3>1
  <2>3. CASE does = "print"
    <3>1. d = s
      BY <1>1, <2>3, OpTypeIs DEF After
    <3> HIDE DEF d, s, does
    <3>2. QED
      BY <1>3, <2>3, <3>1
  <2>4. QED
    BY <1>2, <2>1, <2>2, <2>3
<1>6. DataOK'
  BY <1>1, <1>3, <1>5 DEF DataOK
<1>7. LogInv' /\ RingInv' /\ SameCount
  BY <1>1, <1>3, <1>4, RingKept DEF LogInv, SameCount
<1>8. Recorded(x)
  <2> DEFINE e == Head(todo[x])
             n == Len(finished)
  <2>1. /\ \A k \in Keys : k \notin {"read", "write"} => Is(e, k) = 0
        /\ d["read"] = s["read"] + Is(e, "read")
        /\ d["write"] = s["write"] + Is(e, "write")
    BY <1>2, <1>5, KeysOther DEF Is
  <2>2. n \in Nat /\ DataOK
    BY <1>3 DEF CountInv
  <2> HIDE DEF does, s, d, n, e
  <2>3. ASSUME NEW k \in Keys
        PROVE  DoneIn(data', n, k) = DoneIn(data, n, k) + Is(e, k)
    <3>1. CASE k = "read"
      BY <2>1, <3>1, OpTypeIs DEF DoneIn, s, d
    <3>2. CASE k = "write"
      BY <2>1, <3>2, OpTypeIs DEF DoneIn, s, d
    <3>3. CASE k \notin {"read", "write"}
      <4>1. DoneIn(data', n, k) = DoneIn(data, n, k)
        BY <1>1, <3>3 DEF DoneIn
      <4>2. Is(e, k) = 0 /\ DoneIn(data, n, k) \in Int
        BY <2>1, <2>2, <3>3, DoneInt
      <4>3. QED
        BY <4>1, <4>2
    <3>4. QED
      BY <3>1, <3>2, <3>3
  <2>4. QED
    BY <1>4, <2>3 DEF Recorded, n, e
<1>9. QED
  BY <1>6, <1>7, <1>8

LEMMA LeaveLog ==
    ASSUME IInv, CountInv, NEW x \in Actor, Leave(x), On(x) = "log"
    PROVE  DataOK' /\ RingInv' /\ LogInv' /\ Recorded(x) /\ SameCount
<1> DEFINE does == Head(todo[x]).does
           log == data["log"]
           d == data'["log"]
<1>1. /\ d \in After(x, does, log)
      /\ data'["metrics"] = data["metrics"] /\ data'["stats"] = data["stats"]
      /\ finished' = IF does = "session" THEN Append(finished, x) ELSE finished
  <2>1. "metrics" \in Mutex /\ "stats" \in Mutex
    BY DEF Mutex
  <2>2. QED
    BY <2>1, LeaveIs
<1>2. does \in {"line", "close"}
  <2>1. Head(todo[x]) \in ItemsOf(x)
    BY LeaveIs
  <2>2. QED
    BY <2>1, ItemsBy DEF On
<1>3. /\ data["metrics"] \in MetricsType /\ data["stats"] \in [read : Nat, write : Nat]
      /\ log \in LogType /\ finished \in Seq(Client) /\ RingInv /\ LogInv
  BY DEF CountInv, DataOK, VarsOK
<1>4. finished' = finished
  BY <1>1, <1>2
<1>5. PICK k \in Nat, m \in Nat, l \in Nat : LogHolds(log, k, m, l)
  BY <1>3 DEF LogInv
<1>6. /\ d \in LogType /\ d.lines = log.lines + (IF does = "line" THEN 1 ELSE 0)
      /\ \E k2, m2, l2 \in Nat : LogHolds(d, k2, m2, l2)
  <2>1. CASE does = "line"
    <3>1. d \in LogEvent(log)
      BY <1>1, <2>1, OpTypeIs DEF After
    <3> HIDE DEF log, d, does
    <3>2. QED
      BY <1>3, <1>5, <2>1, <3>1, LineStep
  <2>2. CASE does = "close"
    <3>1. d = LoggerClose(log)
      BY <1>1, <2>2, OpTypeIs DEF After
    <3> HIDE DEF log, d, does
    <3>2. log.lines \in Nat
      BY <1>3 DEF LogType
    <3>3. /\ LoggerClose(log) \in LogType /\ LoggerClose(log).lines = log.lines
          /\ LogHolds(LoggerClose(log), k, m, l)
      <4>1. log \in LogType
        BY <1>3
      <4>2. LogHolds(log, k, m, l)
        BY <1>5
      <4>3. QED
        BY <4>1, <4>2, CloseStep
    <3>4. d \in LogType /\ d.lines = log.lines /\ LogHolds(d, k, m, l)
      BY <3>1, <3>3
    <3>5. d.lines = log.lines + (IF does = "line" THEN 1 ELSE 0)
      BY <2>2, <3>2, <3>4
    <3>6. QED
      BY <3>4, <3>5
  <2>3. QED
    BY <1>2, <2>1, <2>2
<1>7. DataOK'
  BY <1>1, <1>3, <1>6 DEF DataOK
<1>8. LogInv' /\ RingInv' /\ SameCount
  BY <1>1, <1>3, <1>4, <1>6, RingKept DEF LogInv, SameCount
<1>9. Recorded(x)
  <2> DEFINE e == Head(todo[x])
             n == Len(finished)
  <2>1. /\ \A j \in Keys : j # "line" => Is(e, j) = 0
        /\ d.lines = log.lines + Is(e, "line")
    BY <1>2, <1>6, KeysOther DEF Is
  <2>2. n \in Nat /\ DataOK
    BY <1>3 DEF CountInv
  <2> HIDE DEF does, log, d, n, e
  <2>3. ASSUME NEW j \in Keys
        PROVE  DoneIn(data', n, j) = DoneIn(data, n, j) + Is(e, j)
    <3>1. CASE j = "line"
      BY <2>1, <3>1, OpTypeIs DEF DoneIn, log, d
    <3>2. CASE j # "line"
      <4>1. DoneIn(data', n, j) = DoneIn(data, n, j)
        BY <1>1, <3>2 DEF DoneIn
      <4>2. Is(e, j) = 0 /\ DoneIn(data, n, j) \in Int
        BY <2>1, <2>2, <3>2, DoneInt
      <4>3. QED
        BY <4>1, <4>2
    <3>3. QED
      BY <3>1, <3>2
  <2>4. QED
    BY <1>4, <2>3 DEF Recorded, n, e
<1>10. QED
  BY <1>7, <1>8, <1>9


LEMMA LeaveRecords ==
    ASSUME IInv, CountInv, NEW x \in Actor, Leave(x)
    PROVE  /\ DataOK' /\ RingInv' /\ LogInv' /\ Recorded(x)
           /\ Head(todo[x]).does \notin {"connect", "disconnect"} => SameCount
<1>1. On(x) \in Mutex
  BY LeaveIs
<1>2. CASE On(x) = "metrics"
  BY <1>2, LeaveMetrics
<1>3. CASE On(x) = "stats"
  BY <1>3, LeaveStats
<1>4. CASE On(x) = "log"
  BY <1>4, LeaveLog
<1>5. QED
  BY <1>1, <1>2, <1>3, <1>4 DEF Mutex

(* What was owed is done: the structures go on agreeing.                   *)
LEMMA LeaveAgree ==
    ASSUME IsFiniteSet(Client), IInv, CountInv, VarsOK', NEW x \in Actor, Leave(x)
    PROVE  StructuresAgree'
<1> DEFINE gain == [does \in Keys |-> 0]
           n  == Len(finished)
           n2 == Len(finished')
<1>1. /\ Todos /\ Todos' /\ DataOK /\ StructuresAgree /\ process = "running"
      /\ \A y \in Actor \ {x} : todo'[y] = todo[y]
  BY LeaveIs DEF CountInv
<1>2. n \in Nat /\ n2 \in Nat
  BY DEF CountInv, VarsOK
<1>3. Agree(gain, 0)
  BY KeysAre DEF Agree
<1>4. ASSUME NEW does \in Keys
      PROVE  /\ gain[does] \in Int /\ DoneIn(data', n2, does) \in Int
             /\ DoneIn(data', n2, does) + Num(todo'[x], does) =
                    DoneIn(data, n, does) + Num(todo[x], does) + gain[does]
  <2>1. DoneIn(data', n2, does) = DoneIn(data, n, does) + Is(Head(todo[x]), does)
    BY LeaveRecords DEF Recorded
  <2>2. /\ todo[x] \in Seq(ItemsOf(x)) /\ todo[x] # <<>> /\ todo'[x] = Tail(todo[x])
        /\ Tail(todo[x]) \in Seq(ItemsOf(x))
    BY <1>1, LeaveIs DEF Todos
  <2>3. Num(todo[x], does) = Is(Head(todo[x]), does) + Num(todo'[x], does)
    BY <2>2, NumTail
  <2>4. Num(todo'[x], does) \in Nat
    BY <2>2, PlacesFinite
  <2>5. DoneIn(data, n, does) \in Int
    BY <1>1, <1>2, DoneInt
  <2>6. gain[does] = 0 /\ Is(Head(todo[x]), does) \in Int
    BY DEF Is
  <2> HIDE DEF gain, n, n2
  <2>7. QED
    BY <2>1, <2>3, <2>4, <2>5, <2>6
<1>5. n = Len(finished) /\ n2 = Len(finished')
  OBVIOUS
<1> HIDE DEF gain, n, n2
<1>6. QED
  BY <1>1, <1>2, <1>3, <1>4, <1>5, AgreeStep

(* A session that counts itself in or out.                                 *)
LEMMA CountOne ==
    ASSUME IsFiniteSet(Client), IInv, CountInv, NEW c \in Actor, Leave(c),
           Head(todo[c]).does \in {"connect", "disconnect"}
    PROVE  Counting' /\ ClientsCounted'
<1> DEFINE does == Head(todo[c]).does
           m == data["metrics"]
           d == data'["metrics"]
<1>1. c \in Client /\ Client \subseteq Actor /\ On(c) = "metrics"
  <2>1. Head(todo[c]) \in ItemsOf(c)
    BY LeaveIs
  <2>2. QED
    BY <2>1, ItemsBy DEF On, Actor, Thread
<1>2. /\ pc' = pc /\ todo'[c] = Tail(todo[c]) /\ \A y \in Actor \ {c} : todo'[y] = todo[y]
      /\ todo[c] \in Seq(ItemsOf(c)) /\ todo[c] # <<>>
  BY LeaveIs
<1>3. Tail(todo[c]) \in Seq(ItemsOf(c))
  BY <1>2, HeadTailProperties
<1>4. \A k : /\ Num(todo[c], k) = Is(Head(todo[c]), k) + Num(todo'[c], k)
             /\ Num(todo'[c], k) \in Nat
  BY <1>2, <1>3, NumTail, PlacesFinite
<1>5. CountsOnce(c)
  BY <1>1 DEF CountInv, Counting
<1>6. /\ does = "connect" => /\ pc[c] = "type" /\ Num(todo[c], "connect") = 1
                             /\ Num(todo'[c], "connect") = 0
      /\ does = "disconnect" => /\ pc[c] = "ending" /\ Num(todo[c], "disconnect") = 1
                                /\ Num(todo'[c], "disconnect") = 0
      /\ does # "connect" => Num(todo'[c], "connect") = Num(todo[c], "connect")
      /\ does # "disconnect" => Num(todo'[c], "disconnect") = Num(todo[c], "disconnect")
  <2>1. /\ Num(todo[c], "connect") = (IF does = "connect" THEN 1 ELSE 0)
                                      + Num(todo'[c], "connect")
        /\ Num(todo[c], "disconnect") = (IF does = "disconnect" THEN 1 ELSE 0)
                                         + Num(todo'[c], "disconnect")
        /\ Num(todo'[c], "connect") \in Nat /\ Num(todo'[c], "disconnect") \in Nat
    BY <1>4 DEF Is
  <2> HIDE DEF does
  <2>2. QED
    BY <1>5, <2>1 DEF CountsOnce
<1>7. Counting'
  <2>1. CountsOnce(c)'
    BY <1>2, <1>5, <1>6 DEF CountsOnce
  <2>2. \A b \in Client : b # c => CountsOnce(b)'
    BY <1>1, <1>2 DEF CountInv, Counting, CountsOnce
  <2>3. QED
    BY <2>1, <2>2 DEF Counting
<1>8. \A b \in Client : b # c => (Counted(b)' <=> Counted(b))
  BY <1>1, <1>2 DEF Counted, Owes
<1>9. /\ Num(todo[c], "connect") = 0 <=> Places(todo[c], "connect") = {}
      /\ Num(todo[c], "disconnect") = 0 <=> Places(todo[c], "disconnect") = {}
      /\ Num(todo'[c], "connect") = 0 <=> Places(todo'[c], "connect") = {}
      /\ Num(todo'[c], "disconnect") = 0 <=> Places(todo'[c], "disconnect") = {}
  BY <1>2, <1>3, NumZero
<1>10. /\ IsFiniteSet(In) /\ Cardinality(In) \in Nat
       /\ IsFiniteSet(In') /\ Cardinality(In') \in Nat
       /\ IsFiniteSet(Served) /\ Cardinality(Served) \in Nat
  <2>1. IsFiniteSet(In) /\ IsFiniteSet(In') /\ IsFiniteSet(Served)
    BY FS_Subset DEF In, Served
  <2>2. QED
    BY <2>1, FS_CardinalityType
<1>11. m.current = Cardinality(In) /\ m.peak \in m.current..Cardinality(Served)
  BY DEF CountInv, ClientsCounted, In, Served
<1>12. m \in MetricsType /\ m.current \in Nat /\ m.peak \in Nat
  BY DEF CountInv, DataOK, MetricsType
<1>13. Served' = Served
  BY <1>2 DEF Served
<1>14. d \in After(c, does, m)
  BY <1>1, LeaveIs
<1>15. CASE does = "connect"
  <2>1. ~Counted(c) /\ Counted(c)'
    BY <1>2, <1>6, <1>9, <1>15 DEF Counted, Owes
  <2>2. c \notin In /\ In' = In \cup {c}
    BY <1>1, <1>8, <2>1 DEF In
  <2>3. Cardinality(In') = Cardinality(In) + 1
    BY <1>10, <2>2, FS_AddElement
  <2>4. In' \subseteq Served
    <3>1. In \subseteq Served
      BY DEF In, Served, Counted
    <3>2. QED
      BY <1>1, <1>6, <1>15, <2>2, <3>1 DEF Served
  <2>5. Cardinality(In') <= Cardinality(Served)
    BY <1>10, <2>4, FS_Subset
  <2> DEFINE top == Max({m.peak, m.current + 1})
  <2>6. d = ClientConnect(m)
    BY <1>14, <1>15, OpTypeIs DEF After
  <2>7. top = IF m.peak <= m.current + 1 THEN m.current + 1 ELSE m.peak
    BY <1>12, MaxOfTwo
  <2>8. d.current = m.current + 1 /\ d.peak = top
    <3> HIDE DEF d, m
    <3>1. d = [m EXCEPT !.current = @ + 1, !.peak = top]
      BY <2>6 DEF ClientConnect
    <3> HIDE DEF top
    <3>2. QED
      BY <1>12, <3>1 DEF MetricsType
  <2> HIDE DEF top, m, d
  <2>9. d.current = Cardinality(In') /\ d.peak \in d.current..Cardinality(Served')
    BY <1>10, <1>11, <1>12, <1>13, <2>3, <2>5, <2>7, <2>8
  <2>10. ClientsCounted'
    BY <2>9 DEF ClientsCounted, In, Served, d
  <2>11. QED
    BY <1>7, <2>10
<1>16. CASE does = "disconnect"
  <2>1. Counted(c) /\ ~Counted(c)'
    BY <1>2, <1>6, <1>9, <1>16 DEF Counted, Owes
  <2>2. c \in In /\ In' = In \ {c}
    BY <1>1, <1>8, <2>1 DEF In
  <2>3. Cardinality(In') = Cardinality(In) - 1
    BY <1>10, <2>2, FS_RemoveElement
  <2>4. d = ClientDisconnect(m)
    BY <1>14, <1>16, OpTypeIs DEF After
  <2>5. /\ d.current = IF m.current > 0 THEN m.current - 1 ELSE m.current
        /\ d.peak = m.peak
    <3> HIDE DEF d, m
    <3>1. QED
      BY <1>12, <2>4 DEF ClientDisconnect, MetricsType
  <2> HIDE DEF m, d
  <2>6. d.current = Cardinality(In') /\ d.peak \in d.current..Cardinality(Served')
    BY <1>10, <1>11, <1>12, <1>13, <2>3, <2>5
  <2>7. ClientsCounted'
    BY <2>6 DEF ClientsCounted, In, Served, d
  <2>8. QED
    BY <1>7, <2>7
<1>17. QED
  BY <1>15, <1>16


LEMMA LeaveCount ==
    ASSUME IsFiniteSet(Client), IInv, CountInv, VarsOK', NEW x \in Actor, Leave(x)
    PROVE  CountInv'
<1>1. Todos' /\ DataOK' /\ RingInv' /\ LogInv' /\ StructuresAgree'
  BY LeaveIs, LeaveRecords, LeaveAgree
<1>2. Counting' /\ ClientsCounted'
  <2>1. CASE Head(todo[x]).does \in {"connect", "disconnect"}
    BY <2>1, CountOne
  <2>2. CASE Head(todo[x]).does \notin {"connect", "disconnect"}
    <3>1. ASSUME NEW c \in Client, NEW k \in {"connect", "disconnect"}
          PROVE  Num(todo'[c], k) = Num(todo[c], k)
      <4>1. CASE c = x
        <5>1. /\ todo[x] \in Seq(ItemsOf(x)) /\ todo[x] # <<>> /\ todo'[x] = Tail(todo[x])
              /\ Tail(todo[x]) \in Seq(ItemsOf(x))
          BY LeaveIs DEF Todos
        <5>2. Num(todo[x], k) = Is(Head(todo[x]), k) + Num(todo'[x], k)
          BY <5>1, NumTail
        <5>3. Num(todo'[x], k) \in Nat
          BY <5>1, PlacesFinite
        <5>4. Is(Head(todo[x]), k) = 0
          BY <2>2 DEF Is
        <5>5. QED
          BY <4>1, <5>2, <5>3, <5>4
      <4>2. CASE c # x
        BY <4>2, LeaveIs DEF Actor, Thread
      <4>3. QED
        BY <4>1, <4>2
    <3>2. Todos /\ Todos' /\ Counting /\ pc' = pc
      BY LeaveIs DEF CountInv
    <3>3. Counting' /\ In' = In /\ Served \subseteq Served'
      BY <3>1, <3>2, SameCounted
    <3>4. SameCount
      BY <2>2, LeaveRecords
    <3>5. /\ ClientsCounted
          /\ data["metrics"].current \in Nat /\ data["metrics"].peak \in Nat
      BY DEF CountInv, DataOK, MetricsType
    <3>6. ClientsCounted'
      BY <3>3, <3>4, <3>5, CountedKept DEF SameCount
    <3>7. QED
      BY <3>3, <3>6
  <2>3. QED
    BY <2>1, <2>2
<1>3. QED
  BY <1>1, <1>2 DEF CountInv

-----------------------------------------------------------------------------
LEMMA CountNext ==
    ASSUME IsFiniteSet(Client), IInv, CountInv, [Next]_vars
    PROVE  CountInv'
<1>1. VarsOK'
  BY VarsStep DEF CountInv
<1>2. CASE Die
  BY <1>2, DieStart, StartCounts
<1>3. CASE \E x \in Actor : Leave(x)
  BY <1>1, <1>3, LeaveCount
<1>4. CASE \E c \in Client : SendMessage(c)
  BY <1>1, <1>4, SendCount
<1>5. CASE \E c \in Client : \/ Accept(c) \/ ChooseType(c) \/ Login(c) \/ Choose(c)
                             \/ ChooseBadly(c) \/ Logout(c)
  BY <1>1, <1>5, GivesCount
<1>6. CASE Report \/ \E t \in Thread : Interrupt(t)
  BY <1>1, <1>6, ReportCount
<1>7. CASE \/ \E x \in Actor : Enter(x)
           \/ \E c \in Client : \/ HangUp(c) \/ Close(c) \/ GoAway(c) \/ Reset(c)
                                \/ AcceptInVain(c) /\ ~Die
           \/ Spawn \/ Stopped \/ UNCHANGED vars
  BY <1>1, <1>7, MoveCount
<1>8. (\E c \in Client : BrokenPipe(c)) \/ Exit => Die
  BY DEF BrokenPipe, Exit
<1>9. QED
  BY <1>2, <1>3, <1>4, <1>5, <1>6, <1>7, <1>8 DEF Next, Step, Serve

LEMMA CountAlways == ASSUME IsFiniteSet(Client) PROVE Spec => []CountInv
<1>1. Init => IInv /\ CountInv
  BY InitIInv, InitStart, StartCount
<1>2. IInv /\ CountInv /\ [Next]_vars => IInv' /\ CountInv'
  BY NextIInv, CountNext
<1>3. QED
  BY <1>1, <1>2, PTL DEF Spec

(* metrics.c: with any number of clients, in any order of their accepts,   *)
(* logins, requests and hang-ups, and through a signal or SIGPIPE anywhere,*)
(* the counter of connected clients counts exactly those that were counted *)
(* in and not yet out, is never negative and never above the peak.         *)
THEOREM EveryClientIsCounted == ASSUME IsFiniteSet(Client) PROVE Spec => []ClientsCounted
<1>1. CountInv => ClientsCounted
  BY DEF CountInv
<1>2. QED
  BY <1>1, CountAlways, PTL

(* The metrics, the lock statistics and the log of a running server differ *)
(* by what threads are still to record and by nothing else.                *)
THEOREM OneStory == ASSUME IsFiniteSet(Client) PROVE Spec => []StructuresAgree
<1>1. CountInv => StructuresAgree
  BY DEF CountInv
<1>2. QED
  BY <1>1, CountAlways, PTL

(* Variables keep their types, the ring its indices, and the counters the  *)
(* bounds the code gives them.                                             *)
THEOREM ServerTypes == ASSUME IsFiniteSet(Client) PROVE Spec => []TypeOK
<1>1. CountInv => TypeOK
  <2> SUFFICES ASSUME CountInv PROVE TypeOK
    OBVIOUS
  <2>1. VarsOK /\ data["metrics"] \in MetricsType /\ ClientsCounted /\ RingInv
    BY DEF CountInv, DataOK
  <2>2. \A c \in Client : choices[c] \in 0..MaxChoices[c]
    BY <2>1, ServerAssumption DEF VarsOK
  <2>3. data["metrics"].current \in 0..Cardinality(Client)
    <3>1. IsFiniteSet(Client) /\ {c \in Client : Counted(c)} \subseteq Client
      OBVIOUS
    <3>2. Cardinality({c \in Client : Counted(c)}) <= Cardinality(Client)
      BY <3>1, FS_Subset
    <3>3. Cardinality(Client) \in Nat /\ data["metrics"].current \in Nat
      BY <2>1, FS_CardinalityType DEF MetricsType
    <3>4. QED
      BY <2>1, <3>2, <3>3 DEF ClientsCounted
  <2>4. data["metrics"].latencyCount \in 0..RingSize
    <3>1. Len(finished) \in Nat /\ RingSize \in Nat
      BY <2>1, ServerAssumption DEF VarsOK
    <3>2. data["metrics"].latencyCount =
              IF Len(finished) < RingSize THEN Len(finished) ELSE RingSize
      BY <2>1 DEF RingInv
    <3>3. QED
      BY <3>1, <3>2
  <2>5. DOMAIN data["metrics"].samples = 0..RingSize - 1
    BY <2>1 DEF MetricsType
  <2>6. QED
    BY <2>1, <2>2, <2>3, <2>4, <2>5 DEF TypeOK, VarsOK
<1>2. QED
  BY <1>1, CountAlways, PTL

(* metrics_record_session_latency: whatever the size of the ring, and      *)
(* however many sessions have ended, the samples are the latencies of the  *)
(* last RingSize of them.                                                  *)
THEOREM RingIsLatest == ASSUME IsFiniteSet(Client) PROVE Spec => []RingHoldsLatest
<1>1. CountInv => RingHoldsLatest
  <2> SUFFICES ASSUME CountInv PROVE RingHoldsLatest
    OBVIOUS
  <2> DEFINE n    == Len(finished)
             s    == data["metrics"].samples
             kept == IF n < RingSize THEN n ELSE RingSize
             w    == n % RingSize
  <2>1. n \in Nat /\ RingSize \in Nat \ {0}
    BY ServerAssumption DEF CountInv, VarsOK
  <2>2. Min({n, RingSize}) = kept
    <3> DEFINE S == {n, RingSize}
    <3>1. S \in SUBSET Nat /\ S # {}
      BY <2>1
    <3>2. Min(S) \in S /\ \A y \in S : Min(S) <= y
      BY <3>1, MinIsIn, Zenon
    <3> HIDE DEF n
    <3>3. QED
      BY <2>1, <3>2
  <2>3. data["metrics"].latencyCount = kept /\ Kept(RingSize, n, s, finished)
    BY DEF CountInv, RingInv
  <2>4. /\ w \in 0..RingSize - 1 /\ w <= n /\ (n < RingSize => w = n)
        /\ (n >= RingSize => n - w >= RingSize)
    BY <2>1, NextIndex
  <2> DEFINE f == finished
  <2>5. \A i \in 0..RingSize - 1 : /\ i < w => s[i] = f[n - w + 1 + i]
                                   /\ i >= w /\ n >= RingSize => s[i] = f[n - w + 1 + i - RingSize]
    BY <2>3 DEF Kept
  <2> HIDE DEF n, s, w, f
  <2>6. ASSUME NEW i \in 0..kept - 1
        PROVE  \E j \in n - kept + 1..n : s[i] = f[j]
    <3>1. CASE i < w
      <4>1. n - w + 1 + i \in n - kept + 1..n /\ i \in 0..RingSize - 1
        BY <2>1, <2>4, <3>1
      <4>2. QED
        BY <2>5, <3>1, <4>1
    <3>2. CASE i >= w
      <4>1. n >= RingSize /\ kept = RingSize
        BY <2>1, <2>4, <3>2
      <4>2. n - w + 1 + i - RingSize \in n - kept + 1..n /\ i \in 0..RingSize - 1
        BY <2>1, <2>4, <3>2, <4>1
      <4>3. QED
        BY <2>5, <3>2, <4>1, <4>2
    <3>3. QED
      BY <2>1, <2>4, <3>1, <3>2
  <2>7. ASSUME NEW j \in n - kept + 1..n
        PROVE  \E i \in 0..kept - 1 : s[i] = f[j]
    <3> DEFINE k == j - (n - w + 1)
    <3>1. CASE j >= n - w + 1
      <4>1. k \in 0..kept - 1 /\ k < w /\ n - w + 1 + k = j /\ k \in 0..RingSize - 1
        BY <2>1, <2>4, <3>1
      <4>2. QED
        BY <2>5, <4>1
    <3>2. CASE j < n - w + 1
      <4>1. n >= RingSize /\ kept = RingSize
        BY <2>1, <2>4, <3>2
      <4>2. /\ k + RingSize \in 0..kept - 1 /\ k + RingSize >= w
            /\ n - w + 1 + (k + RingSize) - RingSize = j /\ k + RingSize \in 0..RingSize - 1
        BY <2>1, <2>4, <3>2, <4>1
      <4>3. QED
        BY <2>5, <4>1, <4>2
    <3>3. QED
      BY <2>1, <2>4, <3>1, <3>2
  <2>8. {s[i] : i \in 0..kept - 1} = {f[i] : i \in n - kept + 1..n}
    BY <2>6, <2>7
  <2> HIDE DEF kept
  <2>9. QED
    BY <2>2, <2>3, <2>8 DEF RingHoldsLatest, n, s, f
<1>2. QED
  BY <1>1, CountAlways, PTL

(* logger.c: however often the log is rotated, and if it cannot be opened  *)
(* again, the last LogSize lines that went to a file are in log or log.1.  *)
THEOREM LogIsLatest == ASSUME IsFiniteSet(Client) PROVE Spec => []LogKeepsLatest
<1>1. CountInv => LogKeepsLatest
  <2> SUFFICES ASSUME CountInv PROVE LogKeepsLatest
    OBVIOUS
  <2> DEFINE log == data["log"]
             kept == log.old \cup log.file
             top  == Max({0} \cup kept)
  <2>1. PICK k \in Nat, m \in Nat, l \in Nat : LogHolds(log, k, m, l)
    BY DEF CountInv, LogInv
  <2>2. /\ k <= m /\ m <= l /\ log.old = k + 1..m /\ log.file = m + 1..l
        /\ log.open => l = log.lines
        /\ k = 0 \/ m - k >= LogSize
    BY <2>1 DEF LogHolds
  <2>3. LogSize \in Nat \ {0}
    BY ServerAssumption
  <2>4. kept = k + 1..l
    BY <2>2
  <2>5. k = l => l = 0
    BY <2>2, <2>3
  <2> HIDE DEF log, kept
  <2>6. top = l
    <3> DEFINE S == {0} \cup kept
    <3>1. S \in SUBSET Int /\ l \in S /\ \A y \in S : l >= y
      BY <2>2, <2>4, <2>5
    <3> HIDE DEF S
    <3>2. Max(S) = l
      BY <3>1, MaxIs
    <3>3. QED
      BY <3>2 DEF S
  <2> HIDE DEF top
  <2>7. {i \in 1..top : i > top - LogSize} \subseteq kept
    BY <2>2, <2>3, <2>4, <2>6
  <2>8. \A i \in log.old, j \in log.file : i < j
    BY <2>2
  <2>9. log.open => top = log.lines
    BY <2>2, <2>6
  <2>10. QED
    BY <2>7, <2>8, <2>9 DEF LogKeepsLatest, log, kept, top
<1>2. QED
  BY <1>1, CountAlways, PTL


===============================================================================
