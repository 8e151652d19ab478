------------------------ MODULE ExecutorMonitor_proofs ------------------------
(***************************************************************************)
(* Proofs about replaced executors: for any number of replacements and of  *)
(* coroutines, the queue's handlers stay those of the newest executor that *)
(* has started, and executors that share a queue never run one coroutine.  *)
(***************************************************************************)
EXTENDS ExecutorMonitor, TLAPS

Started(e) == pc[e] \notin {"unborn", "start"}
InQueue(t) == \E i \in 1 .. Len(queue) : queue[i] = t

\* The monitor looks only at the newest executor, and replaces it only after it
\* has seen it execute: by then it has installed its handlers.
Replacing ==
    /\ mon \in {"off", "start"} => newest < MaxExecutors
    /\ mon # "sleep" => Started(newest)
    /\ \A e \in Executors :
        /\ e < newest => Started(e)
        /\ e > newest => pc[e] = "unborn"
        /\ executing[e] => Started(e)
        /\ Started(e) => handler >= e

\* A task is in one place, if it is still anywhere: it has not been added yet,
\* it is in line, or an executor has it.
OnePlace ==
    \A t \in Tasks :
        /\ t \in toAdd => ~InQueue(t) /\ \A e \in Executors : t \notin cur[e]
        /\ \A e, f \in Executors : t \in cur[e] /\ t \in cur[f] => e = f
        /\ \A i, j \in 1 .. Len(queue) : queue[i] = t /\ queue[j] = t => i = j
        /\ \A e \in Executors : t \in cur[e] => ~InQueue(t)

Inv == TypeOK /\ Replacing /\ OnePlace

-----------------------------------------------------------------------------
LEMMA Appended ==
    ASSUME NEW q \in Seq(Tasks), NEW t \in Tasks
    PROVE  /\ Append(q, t) \in Seq(Tasks) /\ Len(Append(q, t)) = Len(q) + 1
           /\ Len(q) \in Nat
           /\ Append(q, t)[Len(q) + 1] = t
           /\ \A i \in 1 .. Len(q) : Append(q, t)[i] = q[i]
OBVIOUS

LEMMA Popped ==
    ASSUME NEW q \in Seq(Tasks), q # <<>>
    PROVE  /\ Head(q) = q[1] /\ Head(q) \in Tasks /\ Tail(q) \in Seq(Tasks)
           /\ Len(q) \in Nat \ {0} /\ Len(Tail(q)) = Len(q) - 1
           /\ \A i \in 1 .. Len(q) - 1 : Tail(q)[i] = q[i + 1]
OBVIOUS

\* The queue and who has which task, after a task has been appended.
LEMMA PushKeepsPlace ==
    ASSUME Inv, NEW t \in Tasks, queue' = Append(queue, t),
           ~InQueue(t), toAdd' \subseteq toAdd, t \notin toAdd',
           \A e \in Executors : cur'[e] \subseteq cur[e] /\ t \notin cur'[e]
    PROVE  queue' \in Seq(Tasks) /\ OnePlace'
<1> USE DEF Inv, TypeOK, InQueue
<1>1. /\ queue' \in Seq(Tasks) /\ Len(queue') = Len(queue) + 1 /\ Len(queue) \in Nat
      /\ queue'[Len(queue) + 1] = t
      /\ \A i \in 1 .. Len(queue) : queue'[i] = queue[i]
    BY Appended
<1>2. \A u \in Tasks : InQueue(u)' => u = t \/ InQueue(u) BY <1>1
<1>3. \A u \in Tasks : \A i, j \in 1 .. Len(queue') : queue'[i] = u /\ queue'[j] = u => i = j
    BY <1>1 DEF OnePlace
<1> QED BY <1>1, <1>2, <1>3 DEF OnePlace

-----------------------------------------------------------------------------
LEMMA InitInv == Init => Inv
<1> SUFFICES ASSUME Init PROVE Inv OBVIOUS
<1> USE ExecutorsAssumption DEF Init
<1>1. TypeOK
    <2>1. queue \in Seq(Tasks) /\ toAdd \in SUBSET Tasks OBVIOUS
    <2>2. handler \in 0 .. newest /\ newest \in Executors /\ bed \in [Executors -> 0 .. newest]
        BY DEF Executors
    <2>3. /\ pc \in [Executors -> Locations]
          /\ cur \in [Executors -> {NoTask} \cup {{t} : t \in Tasks}]
        BY DEF Locations
    <2>4. send \in [Executors \cup {User} -> {"idle", "check", "notify"}] OBVIOUS
    <2>5. /\ turnOn \in [Executors -> BOOLEAN] /\ executing \in [Executors -> BOOLEAN]
          /\ blocking \in [Executors -> BOOLEAN] /\ notified \in [Executors -> BOOLEAN]
        OBVIOUS
    <2>6. notifyMode \in BOOLEAN /\ wrecked \in BOOLEAN /\ mon = "sleep"
        OBVIOUS
    <2>7. age \in 0 .. 2 OBVIOUS
    <2> HIDE DEF Init
    <2> QED BY <2>1, <2>2, <2>3, <2>4, <2>5, <2>6, <2>7 DEF TypeOK
<1>2. Replacing BY DEF Replacing, Started, Executors
<1>3. OnePlace BY DEF OnePlace, InQueue, NoTask
<1> QED BY <1>1, <1>2, <1>3 DEF Inv

LEMMA StepInv == Inv /\ [Next]_vars => Inv'
<1> SUFFICES ASSUME Inv, [Next]_vars PROVE Inv' OBVIOUS
<1> USE ExecutorsAssumption DEF Inv, At, Goto, Executors, queueVars, threadVars, flagVars, monVars
<1>1. CASE UNCHANGED vars
    BY <1>1 DEF vars, TypeOK, Replacing, OnePlace, Started, InQueue
<1>2. ASSUME NEW t \in Tasks, Add(t) PROVE Inv'
    <2>1. queue' \in Seq(Tasks) /\ OnePlace'
        BY <1>2, PushKeepsPlace DEF Add, Push, OnePlace
    <2>2. TypeOK' BY <1>2, <2>1 DEF Add, Push, TypeOK
    <2>3. Replacing' BY <1>2 DEF Add, Replacing, Started
    <2> QED BY <2>1, <2>2, <2>3
<1>3. ASSUME NEW t \in Executors \cup {User}, Enqueue(t) PROVE Inv'
    <2>1. TypeOK' BY <1>3 DEF Enqueue, CheckMode, Notify, TypeOK
    <2>2. Replacing' BY <1>3 DEF Enqueue, CheckMode, Notify, Replacing, Started
    <2>3. OnePlace' BY <1>3 DEF Enqueue, CheckMode, Notify, OnePlace, InQueue
    <2> QED BY <2>1, <2>2, <2>3
<1>4. ASSUME NEW e \in Executors, NEW found \in {"begin", "clear"}, NEW empty \in {"setmode", "wait"},
             pc[e] \in {"poll", "repoll"}, TryPop(e, found, empty)
      PROVE Inv'
    <2>1. CASE queue = <<>>
        <3>1. TypeOK' BY <1>4, <2>1 DEF TryPop, TypeOK, Locations
        <3>2. Replacing' BY <1>4, <2>1 DEF TryPop, TypeOK, Replacing, Started
        <3>3. OnePlace' BY <1>4, <2>1 DEF TryPop, OnePlace, InQueue
        <3> QED BY <3>1, <3>2, <3>3
    <2>2. CASE queue # <<>>
        <3>1. Head(queue) = queue[1] /\ Head(queue) \in Tasks BY <2>2, Popped DEF TypeOK
        <3>2. PICK h \in Tasks : h = queue[1] BY <3>1
        <3>3. /\ cur' = [cur EXCEPT ![e] = {h}] /\ queue' = Tail(queue)
              /\ pc' = [pc EXCEPT ![e] = found]
              /\ UNCHANGED <<notifyMode, handler, send, toAdd, bed, notified, flagVars, monVars, wrecked>>
            BY <1>4, <2>2, <3>1, <3>2 DEF TryPop
        <3>4. /\ queue' \in Seq(Tasks) /\ Len(queue) \in Nat \ {0} /\ Len(queue') = Len(queue) - 1
              /\ \A i \in 1 .. Len(queue') : queue'[i] = queue[i + 1] /\ i + 1 \in 2 .. Len(queue)
            BY <2>2, <3>3, Popped DEF TypeOK
        <3>5. TypeOK' BY <1>4, <3>3, <3>4 DEF TypeOK, Locations
        <3>6. Replacing' BY <1>4, <3>3 DEF TypeOK, Replacing, Started
        <3>7. InQueue(h) BY <3>2, <3>4 DEF InQueue
        <3>8. ~InQueue(h)'
            <4>1. \A i \in 2 .. Len(queue) : queue[i] # h BY <3>2, <3>4 DEF OnePlace
            <4> QED BY <3>4, <4>1 DEF InQueue
        <3>9. \A u \in Tasks : InQueue(u)' => InQueue(u) BY <3>4 DEF InQueue
        <3>10. \A u \in Tasks : \A i, j \in 1 .. Len(queue') : queue'[i] = u /\ queue'[j] = u => i = j
            BY <3>4 DEF OnePlace
        <3>11. \A f \in Executors : h \notin cur[f] /\ cur'[f] = IF f = e THEN {h} ELSE cur[f]
            BY <3>3, <3>7 DEF OnePlace, TypeOK
        <3>12. h \notin toAdd' BY <3>3, <3>7 DEF OnePlace
        <3>13. OnePlace' BY <3>3, <3>8, <3>9, <3>10, <3>11, <3>12 DEF OnePlace
        <3> QED BY <3>5, <3>6, <3>13
    <2> QED BY <2>1, <2>2
<1>5. ASSUME NEW e \in Executors, Dequeue(e) PROVE Inv'
    <2>1. CASE Poll(e) \/ Repoll(e) BY <1>4, <2>1 DEF Poll, Repoll
    <2>2. CASE SetHandlers(e)
        <3>1. TypeOK' BY <2>2 DEF SetHandlers, TypeOK, Locations, Replacing
        <3>2. Replacing' BY <2>2 DEF SetHandlers, TypeOK, Replacing, Started
        <3>3. OnePlace' BY <2>2 DEF SetHandlers, OnePlace, InQueue
        <3> QED BY <3>1, <3>2, <3>3
    <2>3. CASE Loop(e)
        <3>1. TypeOK' BY <2>3 DEF Loop, TypeOK, Locations
        <3>2. Replacing' BY <2>3 DEF Loop, TypeOK, Replacing, Started
        <3>3. OnePlace' BY <2>3 DEF Loop, OnePlace, InQueue
        <3> QED BY <3>1, <3>2, <3>3
    <2>4. CASE Mode(e)
        <3>1. TypeOK' BY <2>4 DEF Mode, SetMode, TypeOK, Locations
        <3>2. Replacing' BY <2>4 DEF Mode, SetMode, TypeOK, Replacing, Started
        <3>3. OnePlace' BY <2>4 DEF Mode, SetMode, OnePlace, InQueue
        <3> QED BY <3>1, <3>2, <3>3
    <2> QED BY <1>5, <2>1, <2>2, <2>3, <2>4 DEF Dequeue
<1>6. ASSUME NEW e \in Executors, Sleep(e) PROVE Inv'
    <2>1. TypeOK'
        <3>1. \E h \in 0 .. newest : bed' = [bed EXCEPT ![e] = h]
            BY <1>6 DEF Sleep, CvWait, CvLeave, TypeOK
        <3>2. \E l \in {"repoll", "blocked"} : pc' = [pc EXCEPT ![e] = l]
            BY <1>6 DEF Sleep, CvWait, CvLeave
        <3>3. \E h : notified' = [notified EXCEPT ![h] = FALSE]
            BY <1>6 DEF Sleep, CvWait, CvLeave
        <3>4. wrecked' \in BOOLEAN /\ UNCHANGED <<queueVars, cur, flagVars, monVars>>
            BY <1>6 DEF Sleep, CvWait, CvLeave, TypeOK
        <3> QED BY <3>1, <3>2, <3>3, <3>4 DEF TypeOK, Locations
    <2>2. Replacing' BY <1>6 DEF Sleep, CvWait, CvLeave, TypeOK, Replacing, Started
    <2>3. OnePlace' BY <1>6 DEF Sleep, CvWait, CvLeave, OnePlace, InQueue
    <2> QED BY <2>1, <2>2, <2>3
<1>7. ASSUME NEW e \in Executors, Serve(e) PROVE Inv'
    <2>1. TypeOK' BY <1>7 DEF Serve, Begin, Reject, Yielded, End, TypeOK, Locations, NoTask
    <2>2. Replacing'
        <3>1. CASE Begin(e) BY <3>1 DEF Begin, TypeOK, Replacing, Started
        <3>2. CASE Reject(e) BY <3>2 DEF Reject, TypeOK, Replacing, Started
        <3>3. CASE Yielded(e) BY <3>3 DEF Yielded, TypeOK, Replacing, Started
        <3>4. CASE End(e) BY <3>4 DEF End, TypeOK, Replacing, Started
        <3> QED BY <1>7, <3>1, <3>2, <3>3, <3>4 DEF Serve
    <2>3. OnePlace' BY <1>7 DEF Serve, Begin, Reject, Yielded, End, TypeOK, OnePlace, InQueue, NoTask
    <2> QED BY <2>1, <2>2, <2>3
<1>8. ASSUME NEW e \in Executors, Finish(e) PROVE Inv'
    <2>1. TypeOK' BY <1>8 DEF Finish, TypeOK, Locations, NoTask
    <2>2. Replacing' BY <1>8 DEF Finish, TypeOK, Replacing, Started
    <2>3. OnePlace' BY <1>8 DEF Finish, TypeOK, OnePlace, InQueue, NoTask
    <2> QED BY <2>1, <2>2, <2>3
<1>9. ASSUME NEW e \in Executors, Yield(e) PROVE Inv'
    <2>1. PICK c \in Tasks : c \in cur[e] /\ queue' = Append(queue, c) /\ Push(e, c)
        BY <1>9 DEF Yield, Push, Tasks
    <2>2. /\ cur' = [cur EXCEPT ![e] = {}] /\ toAdd' = toAdd
          /\ pc' = [pc EXCEPT ![e] = "after"] /\ pc[e] = "run"
          /\ UNCHANGED <<notifyMode, handler, bed, notified, flagVars, monVars, wrecked>>
        BY <1>9 DEF Yield, NoTask
    <2>3. queue' \in Seq(Tasks) /\ OnePlace'
        BY <2>1, <2>2, PushKeepsPlace DEF OnePlace, TypeOK
    <2>4. TypeOK' BY <2>1, <2>2, <2>3 DEF Push, TypeOK, Locations, NoTask
    <2>5. Replacing' BY <2>2 DEF TypeOK, Replacing, Started
    <2> QED BY <2>3, <2>4, <2>5
<1>10. CASE Monitor
    <2>1. TypeOK'
        <3>1. CASE Tick BY <3>1 DEF Tick, MonAt, TypeOK
        <3>2. CASE Look BY <3>2 DEF Look, MonAt, TypeOK
        <3>3. CASE Mark BY <3>3 DEF Mark, MonAt, TypeOK
        <3>4. CASE TurnOff BY <3>4 DEF TurnOff, MonAt, TypeOK
        <3>5. CASE StartExecutor
            BY <3>5 DEF StartExecutor, MonAt, TypeOK, Locations, Replacing
        <3> QED BY <1>10, <3>1, <3>2, <3>3, <3>4, <3>5 DEF Monitor
    <2>2. Replacing' BY <1>10 DEF Monitor, MonAt, Tick, Look, Mark, TurnOff, StartExecutor,
                                  TypeOK, Replacing, Started
    <2>3. OnePlace' BY <1>10 DEF Monitor, Tick, Look, Mark, TurnOff, StartExecutor, OnePlace, InQueue
    <2> QED BY <2>1, <2>2, <2>3
<1> QED BY <1>1, <1>2, <1>3, <1>5, <1>6, <1>7, <1>8, <1>9, <1>10 DEF Next

LEMMA Invariance == Spec => []Inv
BY InitInv, StepInv, PTL DEF Spec

-----------------------------------------------------------------------------
\* Type correctness: in particular the monitor starts no more executors than it
\* has room for, and the handlers are always those of an executor that exists.
THEOREM TypeCorrect == Spec => []TypeOK
<1>1. Inv => TypeOK BY DEF Inv
<1> QED BY <1>1, Invariance, PTL

\* However often an executor is replaced, no older one's set_handlers comes
\* after that of a newer one.
THEOREM HandlersStay == Spec => []HandlersAreNewest
<1>1. Inv => HandlersAreNewest BY DEF Inv, Replacing, Started, HandlersAreNewest
<1> QED BY <1>1, Invariance, PTL

\* However many executors a queue has at a time, each coroutine is in line once
\* or run by one of them.
THEOREM RunOnce == Spec => []OneRunner
<1>1. Inv => OneRunner
    <2>1. Inv => DOMAIN queue = 1 .. Len(queue) BY DEF Inv, TypeOK
    <2> QED BY <2>1 DEF Inv, OnePlace, OneRunner, InQueue, Tasks
<1> QED BY <1>1, Invariance, PTL
=============================================================================
