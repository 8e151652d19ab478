-------------------------- MODULE TimedYield_proofs --------------------------
(***************************************************************************)
(* What a yield with a timeout keeps to, for any number of executors,      *)
(* coroutines, buffers and slots, while no coroutine waits a second time.  *)
(*                                                                         *)
(* A coroutine in its first wait has begun it (Early), holds a timer       *)
(* (Holding), which an executor is about to put in the wheel (Armed) or    *)
(* which is in the wheel (InRing) or with the tick (InDue), each time once,*)
(* and has ended it by what has come to pass (Causes).  The pool's buffers *)
(* are the others (Free).                                                  *)
(***************************************************************************)
EXTENDS TimedYield, FiniteSetTheorems, FunctionTheorems, SequenceTheorems, TLAPS

\* No coroutine has begun a second wait.
FirstWaits == \A c \in Coroutines : waits[c] <= 1

\* The rest of an executor's task.
Kind(e) == task[e][2]
Wait(e) == task[e][3]

\* Before the coroutine has a timer.
Calling(e) == pc[e] \in {"alloc", "pop"}
Early(e) ==
    \/ pc[e] = "check" /\ Kind(e) = "first"
    \/ pc[e] = "user" /\ waits[Co(e)] = 0
    \/ Calling(e)

Arming(e) == pc[e] \in {"start", "setcb", "add"}

\* What an executor's place says about its task and its coroutine.
Frames ==
    \A e \in Executors :
        /\ pc[e] # "idle" => task[e] \in Tasks
        /\ pc[e] \in {"before", "resume"} => Kind(e) # "first"
        /\ Early(e) => twTask[Co(e)] = None /\ <<Co(e), "first", 0>> \notin tasks
        /\ Early(e) /\ pc[e] # "check" => ~suspended[Co(e)]
        /\ Early(e) /\ ~Calling(e) => waits[Co(e)] = 0
        /\ Calling(e) => Wait(e) = 1 /\ waits[Co(e)] = 1 /\ state[Co(e)] = "waiting"
        /\ pc[e] = "resume" => isTimeout[Co(e)] \/ result[Co(e)] = "result"

\* One executor at a time takes a coroutine into its wait.
OneEarly == \A e, f \in Executors : Early(e) /\ Early(f) /\ Co(e) = Co(f) => e = f

\* What has come to pass before a task was put in line, or was taken.
Ended(c) == twTask[c] # None /\ finished[c] /\ result[c] = "result"
RunOut(c) == twTask[c] # None /\ age[c] > interval[c]
Caused(c, kind) == (kind = "done" => Ended(c)) /\ (kind = "timeout" => RunOut(c))

Running(e) == pc[e] \in {"check", "before", "resume"}

Causes ==
    /\ \A c \in Coroutines, k \in {"done", "timeout"}, w \in 0 .. Waits :
          <<c, k, w>> \in tasks => Caused(c, k)
    /\ \A e \in Executors : Running(e) => Caused(Co(e), Kind(e))
    /\ \A c \in Coroutines, w \in 1 .. Waits :
          <<c, w>> \in pending => w = 1 /\ twTask[c] # None

\* How far a coroutine is in its wait.
InWait(c) ==
    /\ waits[c] = 0 => state[c] = "user" /\ twTask[c] = None
    /\ twTask[c] = None => buf[c] = None /\ ~finished[c] /\ age[c] = 0
    /\ \A w \in 0 .. Waits : <<c, "first", w>> \in tasks => w = 0 /\ waits[c] = 0
    /\ isTimeout[c] => RunOut(c)
    /\ result[c] = "result" => Ended(c)
    /\ suspended[c] /\ waits[c] = 1 => state[c] = "waiting"

Waiting == \A c \in Coroutines : InWait(c)

\* A coroutine that has a buffer has it alone, with its own timer in it.
Holding ==
    \A c \in Coroutines : buf[c] # None =>
        /\ twTask[c] = buf[c] /\ waits[c] = 1
        /\ timer[buf[c]].interval = interval[c]
        /\ \A d \in Coroutines : buf[d] = buf[c] => d = c

\* The buffers in the pool are there once, and nowhere else.
Free ==
    \A i \in 1 .. Len(pool) :
        /\ pool[i] # None
        /\ \A j \in 1 .. Len(pool) : pool[i] = pool[j] => i = j
        /\ \A c \in Coroutines : pool[i] # buf[c]

\* The timer of a coroutine, in the coroutine's buffer.
Its(t) == /\ buf[t.co] # None /\ t.buffer = buf[t.co] /\ t.wait = 1
          /\ timer[t.buffer].callback = t.co

InRing ==
    \A s \in 0 .. Slots - 1 : \A i \in 1 .. Len(wheel[s]) :
        LET c == wheel[s][i].co IN
        /\ Its(wheel[s][i])
        /\ age[c] <= interval[c]
        /\ s = (cursor + (interval[c] - age[c])) % Slots
        /\ \A j \in 1 .. Len(wheel[s]) : wheel[s][j].co = c => i = j

InDue ==
    /\ tickPc = "idle" <=> due = <<>>
    /\ \A i \in 1 .. Len(due) :
        LET c == due[i].co IN
        /\ Its(due[i])
        /\ age[c] = interval[c] + 1
        /\ \A j \in 1 .. Len(due) : due[j].co = c => i = j

\* The coroutine has a timer in the wheel, or with the tick.
Turning(c) == \E s \in 0 .. Slots - 1 : \E i \in 1 .. Len(wheel[s]) : wheel[s][i].co = c
Falling(c) == \E i \in 1 .. Len(due) : due[i].co = c

\* An executor will put the coroutine's timer in the wheel.
ArmedFor(e, c) ==
    /\ buf[c] # None /\ age[c] = 0 /\ Wait(e) = 1
    /\ pc[e] = "add" => timer[buf[c]].callback = c
    /\ \A f \in Executors : Arming(f) /\ Co(f) = c => e = f
    /\ ~Turning(c) /\ ~Falling(c)

Armed == \A e \in Executors : Arming(e) => ArmedFor(e, Co(e))

Inv ==
    /\ TypeOK /\ FirstWaits
    /\ Frames /\ OneEarly /\ Causes /\ Waiting
    /\ Holding /\ Free /\ InRing /\ InDue /\ Armed
-----------------------------------------------------------------------------
(* What the actions do, one outcome at a time.                             *)

LEMMA Names == None \notin Coroutines /\ None \notin Buffers
  BY NoneAssumption

LEMMA TaskParts ==
  ASSUME TypeOK, NEW e \in Executors, task[e] \in Tasks
  PROVE  /\ Co(e) \in Coroutines /\ Kind(e) \in {"first", "done", "timeout"} /\ Wait(e) \in 0 .. Waits
         /\ task[e] = <<Co(e), Kind(e), Wait(e)>>
  BY DEF TypeOK, Tasks, Co, Kind, Wait

Same(f) == task'[f] = task[f] /\ Co(f)' = Co(f) /\ Kind(f)' = Kind(f) /\ Wait(f)' = Wait(f)

LEMMA SameTask == ASSUME NEW f \in Executors, task'[f] = task[f] PROVE Same(f)
  BY DEF Same, Co, Kind, Wait

\* Executor e is at place l with coroutine c.
Has(e, l, c) == pc[e] = l /\ task[e] \in Tasks /\ Co(e) = c

\* It goes on with its task, or leaves it.
Goes(e, l) == pc' = [pc EXCEPT ![e] = l] /\ UNCHANGED task /\ \A f \in Executors : Same(f)
Leaves(e) ==
    /\ pc' = [pc EXCEPT ![e] = "idle"] /\ task' = [task EXCEPT ![e] = None]
    /\ \A f \in Executors \ {e} : Same(f)

Begins(e, c, i) ==
    /\ Has(e, "user", c) /\ waits[c] = 0
    /\ waits' = [waits EXCEPT ![c] = 1]
    /\ state' = [state EXCEPT ![c] = "waiting"]
    /\ interval' = [interval EXCEPT ![c] = i]
    /\ finished' = [finished EXCEPT ![c] = FALSE]
    /\ age' = [age EXCEPT ![c] = 0]
    /\ pc' = [pc EXCEPT ![e] = "alloc"] /\ task' = [task EXCEPT ![e] = <<c, Kind(e), 1>>]
    /\ Co(e)' = c /\ Kind(e)' = Kind(e) /\ Wait(e)' = 1
    /\ \A f \in Executors \ {e} : Same(f)
    /\ UNCHANGED <<wheel, cursor, due, pool, timer, buf, twTask, isTimeout, result, suspended,
                   pending, tasks, tickPc, wrecked>>

LEMMA CallDoes ==
  ASSUME Inv, FirstWaits', NEW e \in Executors, Call(e)
  PROVE  \E c \in Coroutines, i \in Intervals : Begins(e, c, i)
<1>1. task[e] \in Tasks
  BY DEF Inv, Frames, Call, At
<1>2. PICK c \in Coroutines : Has(e, "user", c)
  BY <1>1, TaskParts DEF Inv, Call, At, Has
<1>3. waits \in [Coroutines -> Nat] /\ task \in [Executors -> Tasks \cup {None}]
  BY BoundsAssumption DEF Inv, TypeOK
<1>4. waits' = [waits EXCEPT ![c] = @ + 1]
  BY <1>2 DEF Call, Has
<1>5. waits[c] = 0
  BY <1>3, <1>4 DEF FirstWaits
<1>6. waits' = [waits EXCEPT ![c] = 1]
  BY <1>3, <1>4, <1>5
<1>7. task' = [task EXCEPT ![e] = [task[e] EXCEPT ![3] = 1]]
  BY <1>2, <1>5 DEF Call, Has
<1>8. [task[e] EXCEPT ![3] = 1] = <<c, Kind(e), 1>>
  <2>1. task[e] = <<c, Kind(e), Wait(e)>>
    BY <1>1, <1>2, TaskParts DEF Inv, Has
  <2> QED  BY <2>1
<1>9. task'[e] = <<c, Kind(e), 1>> /\ \A f \in Executors \ {e} : task'[f] = task[f]
  BY <1>3, <1>7, <1>8
<1>10. Co(e)' = c /\ Kind(e)' = Kind(e) /\ Wait(e)' = 1
  BY <1>9 DEF Co, Kind, Wait
<1>11. PICK i \in Timeouts[c] : interval' = [interval EXCEPT ![c] = i]
  BY <1>2 DEF Call, Has
<1>12. c \in Coroutines /\ i \in Intervals
  BY <1>2, <1>11 DEF Has, Intervals
<1> QED
  BY <1>2, <1>5, <1>6, <1>7, <1>8, <1>9, <1>10, <1>11, <1>12, SameTask
  DEF Begins, Call, Goto, Has, wheelVars, poolVars, frameVars

Granted(e, c) ==
    /\ Has(e, "alloc", c) /\ Goes(e, "pop")
    /\ UNCHANGED <<wheel, cursor, due, pool, timer, buf, twTask, isTimeout, result, suspended,
                   state, interval, waits, finished, age, pending, tasks, tickPc, wrecked>>

Refused(e, c) ==
    /\ Has(e, "alloc", c) /\ Goes(e, "user")
    /\ state' = [state EXCEPT ![c] = "error"]
    /\ UNCHANGED <<wheel, cursor, due, pool, timer, buf, twTask, isTimeout, result, suspended,
                   interval, waits, finished, age, pending, tasks, tickPc, wrecked>>

LEMMA AllocDoes ==
  ASSUME Inv, NEW e \in Executors, Alloc(e)
  PROVE  \E c \in Coroutines : Granted(e, c) \/ Refused(e, c)
<1>1. task[e] \in Tasks
  BY DEF Inv, Frames, Alloc, At
<1>2. PICK c \in Coroutines : Has(e, "alloc", c)
  BY <1>1, TaskParts DEF Inv, Alloc, At, Has
<1> QED
  BY <1>2, SameTask DEF Alloc, Granted, Refused, Goes, Goto, Has, wheelVars, poolVars, frameVars

Popped(e, c, b) ==
    /\ Has(e, "pop", c) /\ Goes(e, "start")
    /\ pool # <<>> /\ b = Head(pool) /\ b \in Buffers /\ pool' = Tail(pool)
    /\ timer' = [timer EXCEPT ![b] = NewTimer(interval[c])]
    /\ buf' = [buf EXCEPT ![c] = b]
    /\ twTask' = [twTask EXCEPT ![c] = b]
    /\ isTimeout' = [isTimeout EXCEPT ![c] = FALSE]
    /\ result' = [result EXCEPT ![c] = "error"]
    /\ suspended' = [suspended EXCEPT ![c] = TRUE]
    /\ UNCHANGED <<wheel, cursor, due, state, interval, waits, finished, age, pending, tasks,
                   tickPc, wrecked>>

LEMMA PopDoes ==
  ASSUME Inv, NEW e \in Executors, Pop(e)
  PROVE  \E c \in Coroutines, b \in Buffers : Popped(e, c, b)
<1>1. task[e] \in Tasks
  BY DEF Inv, Frames, Pop, At
<1>2. PICK c \in Coroutines : Has(e, "pop", c)
  BY <1>1, TaskParts DEF Inv, Pop, At, Has
<1>3. pool \in Seq(Buffers \cup {None}) /\ pool # <<>>
  BY DEF Inv, TypeOK, Pop
<1>4. Head(pool) = pool[1] /\ 1 \in 1 .. Len(pool) /\ pool[1] \in Buffers \cup {None}
  BY <1>3
<1>5. pool[1] # None
  BY <1>4 DEF Inv, Free
<1>6. PICK b \in Buffers : b = Head(pool)
  BY <1>4, <1>5
<1> QED
  BY <1>2, <1>3, <1>6, Names, SameTask DEF Pop, Popped, Goes, Goto, Has, wheelVars

Returned(e, c) ==
    /\ Has(e, "user", c) /\ Leaves(e)
    /\ UNCHANGED <<wheel, cursor, due, pool, timer, buf, twTask, isTimeout, result, suspended,
                   state, interval, waits, finished, age, pending, tasks, tickPc, wrecked>>

Started(e, c) ==
    /\ Has(e, "start", c) /\ Goes(e, "setcb")
    /\ pending' = pending \cup {<<c, 1>>}
    /\ UNCHANGED <<wheel, cursor, due, pool, timer, buf, twTask, isTimeout, result, suspended,
                   state, interval, waits, finished, age, tasks, tickPc, wrecked>>

SetsCb(e, c, b) ==
    /\ Has(e, "setcb", c) /\ Goes(e, "add") /\ b = buf[c]
    /\ timer' = [timer EXCEPT ![b].callback = c]
    /\ UNCHANGED <<wheel, cursor, due, pool, buf, twTask, isTimeout, result, suspended,
                   state, interval, waits, finished, age, pending, tasks, tickPc, wrecked>>

Adds(e, c, b, s) ==
    /\ Has(e, "add", c) /\ Leaves(e) /\ b = buf[c]
    /\ s = (cursor + interval[c]) % Slots /\ s \in 0 .. Slots - 1
    /\ wheel' = [wheel EXCEPT ![s] = Append(@, [co |-> c, buffer |-> b, wait |-> 1])]
    /\ UNCHANGED <<cursor, due, pool, timer, buf, twTask, isTimeout, result, suspended,
                   state, interval, waits, finished, age, pending, tasks, tickPc, wrecked>>

LEMMA ReturnDoes ==
  ASSUME Inv, NEW e \in Executors, Return(e)
  PROVE  \E c \in Coroutines : Returned(e, c)
<1>1. task[e] \in Tasks
  BY DEF Inv, Frames, Return, At
<1>2. PICK c \in Coroutines : Has(e, "user", c)
  BY <1>1, TaskParts DEF Inv, Return, At, Has
<1>3. task \in [Executors -> Tasks \cup {None}]
  BY DEF Inv, TypeOK
<1> QED
  BY <1>2, <1>3, SameTask DEF Return, Returned, Leaves, ToExecutor, Goto, Has,
     wheelVars, poolVars, frameVars, waitVars

LEMMA StartDoes ==
  ASSUME Inv, NEW e \in Executors, Start(e)
  PROVE  \E c \in Coroutines : Started(e, c)
<1>1. task[e] \in Tasks
  BY DEF Inv, Frames, Start, At
<1>2. PICK c \in Coroutines : Has(e, "start", c)
  BY <1>1, TaskParts DEF Inv, Start, At, Has
<1>3. task[e][3] = 1
  BY <1>2 DEF Inv, Armed, ArmedFor, Arming, Has, Wait
<1> QED
  BY <1>2, <1>3, SameTask
     DEF Start, Started, Goes, Goto, Has, wheelVars, poolVars, frameVars, waitVars

LEMMA SetCbDoes ==
  ASSUME Inv, NEW e \in Executors, SetCb(e)
  PROVE  \E c \in Coroutines, b \in Buffers : SetsCb(e, c, b)
<1>1. task[e] \in Tasks
  BY DEF Inv, Frames, SetCb, At
<1>2. PICK c \in Coroutines : Has(e, "setcb", c)
  BY <1>1, TaskParts DEF Inv, SetCb, At, Has
<1>3. buf[c] # None /\ buf[c] \in Buffers /\ twTask[c] = buf[c]
  BY <1>2 DEF Inv, Armed, ArmedFor, Arming, Has, Holding, TypeOK
<1> QED
  BY <1>2, <1>3, SameTask
     DEF SetCb, SetsCb, Goes, Goto, Has, wheelVars, poolVars, frameVars, waitVars

LEMMA AddDoes ==
  ASSUME Inv, NEW e \in Executors, AddTimer(e)
  PROVE  \E c \in Coroutines, b \in Buffers, s \in 0 .. Slots - 1 : Adds(e, c, b, s)
<1>1. task[e] \in Tasks
  BY DEF Inv, Frames, AddTimer, At
<1>2. PICK c \in Coroutines : Has(e, "add", c)
  BY <1>1, TaskParts DEF Inv, AddTimer, At, Has
<1>3. /\ buf[c] # None /\ buf[c] \in Buffers /\ twTask[c] = buf[c]
      /\ timer[buf[c]].interval = interval[c]
  BY <1>2 DEF Inv, Armed, ArmedFor, Arming, Has, Holding, TypeOK
<1>4. task[e][3] = 1
  BY <1>2 DEF Inv, Armed, ArmedFor, Arming, Has, Wait
<1>5. cursor \in 0 .. Slots - 1 /\ interval[c] \in 0 .. Slots - 1 /\ Slots \in Nat \ {0}
  BY IntervalsAssumption, SlotsAssumption DEF Inv, TypeOK
<1>6. PICK s \in 0 .. Slots - 1 : s = (cursor + interval[c]) % Slots
  BY <1>5
<1>7. wheel' = [wheel EXCEPT ![s] = Append(@, [co |-> c, buffer |-> buf[c], wait |-> 1])]
  BY <1>2, <1>3, <1>4, <1>6 DEF AddTimer, AddTask, Has
<1>8. task \in [Executors -> Tasks \cup {None}]
  BY DEF Inv, TypeOK
<1>9. Leaves(e)
  BY <1>8, SameTask DEF AddTimer, ToExecutor, Goto, Leaves
<1>10. UNCHANGED <<cursor, due, pool, timer, buf, twTask, isTimeout, result, suspended,
                   state, interval, waits, finished, age, pending, tasks, tickPc, wrecked>>
  BY DEF AddTimer, AddTask, poolVars, frameVars, waitVars
<1> QED
  BY <1>2, <1>3, <1>6, <1>7, <1>9, <1>10 DEF Adds

Completes(c) ==
    /\ <<c, 1>> \in pending
    /\ pending' = pending \ {<<c, 1>>}
    /\ result' = [result EXCEPT ![c] = "result"]
    /\ finished' = [finished EXCEPT ![c] = TRUE]
    /\ tasks' \in {tasks, tasks \cup {<<c, "done", 1>>}}
    /\ twTask[c] # None /\ waits[c] = 1
    /\ \A f \in Executors : Same(f)
    /\ UNCHANGED <<wheel, cursor, due, pool, timer, buf, twTask, isTimeout, suspended, state,
                   interval, waits, age, pc, task, tickPc, wrecked>>

LEMMA CompleteDoes ==
  ASSUME Inv, NEW c \in Coroutines, NEW w \in 1 .. Waits, Complete(c, w)
  PROVE  Completes(c)
<1>1. w = 1 /\ twTask[c] # None
  BY DEF Inv, Causes, Complete
<1>2. waits[c] \in 0 .. Waits /\ Waits \in Nat
  BY BoundsAssumption DEF Inv, TypeOK
<1>3. waits[c] = 1
  <2>1. waits[c] # 0 /\ waits[c] <= 1
    BY <1>1 DEF Inv, Waiting, InWait, FirstWaits
  <2> QED  BY <1>2, <2>1
<1>4. finished' = [finished EXCEPT ![c] = TRUE]
  BY <1>1, <1>3 DEF Complete, Inv, TypeOK
<1>5. tasks' \in {tasks, tasks \cup {<<c, "done", 1>>}}
  BY <1>1 DEF Complete
<1>6. \A f \in Executors : Same(f)
  BY SameTask DEF Complete, execVars
<1> QED
  BY <1>1, <1>3, <1>4, <1>5, <1>6 DEF Complete, Completes, wheelVars, poolVars, execVars

Fetched(e, c, k, w) ==
    /\ pc[e] = "idle" /\ <<c, k, w>> \in tasks /\ tasks' = tasks \ {<<c, k, w>>}
    /\ pc' = [pc EXCEPT ![e] = "check"] /\ task' = [task EXCEPT ![e] = <<c, k, w>>]
    /\ Co(e)' = c /\ Kind(e)' = k /\ Wait(e)' = w
    /\ \A f \in Executors \ {e} : Same(f)
    /\ UNCHANGED <<wheel, cursor, due, pool, timer, buf, twTask, isTimeout, result, suspended,
                   state, interval, waits, finished, age, pending, tickPc, wrecked>>

LEMMA FetchDoes ==
  ASSUME Inv, NEW e \in Executors, Fetch(e)
  PROVE  \E c \in Coroutines, k \in {"first", "done", "timeout"}, w \in 0 .. Waits : Fetched(e, c, k, w)
<1>1. task \in [Executors -> Tasks \cup {None}] /\ tasks \subseteq Tasks
  BY DEF Inv, TypeOK
<1>2. PICK t \in tasks : tasks' = tasks \ {t} /\ task' = [task EXCEPT ![e] = t]
  BY DEF Fetch
<1>3. PICK c \in Coroutines, k \in {"first", "done", "timeout"}, w \in 0 .. Waits : t = <<c, k, w>>
  BY <1>1, <1>2 DEF Tasks
<1>4. task'[e] = <<c, k, w>> /\ \A f \in Executors \ {e} : task'[f] = task[f]
  BY <1>1, <1>2, <1>3
<1>5. Co(e)' = c /\ Kind(e)' = k /\ Wait(e)' = w
  BY <1>4 DEF Co, Kind, Wait
<1> QED
  BY <1>2, <1>3, <1>4, <1>5, SameTask
     DEF Fetch, Fetched, At, Goto, wheelVars, poolVars, frameVars, waitVars

Enters(e, c) ==
    /\ Has(e, "check", c) /\ Kind(e) = "first" /\ Goes(e, "user") /\ suspended[c]
    /\ suspended' = [suspended EXCEPT ![c] = FALSE]
    /\ UNCHANGED <<wheel, cursor, due, pool, timer, buf, twTask, isTimeout, result,
                   state, interval, waits, finished, age, pending, tasks, tickPc, wrecked>>

Prepares(e, c) ==
    /\ Has(e, "check", c) /\ Kind(e) # "first" /\ Goes(e, "before")
    /\ UNCHANGED <<wheel, cursor, due, pool, timer, buf, twTask, isTimeout, result, suspended,
                   state, interval, waits, finished, age, pending, tasks, tickPc, wrecked>>

Drops(e, c) ==
    /\ Has(e, "check", c) /\ Leaves(e) /\ ~suspended[c]
    /\ UNCHANGED <<wheel, cursor, due, pool, timer, buf, twTask, isTimeout, result, suspended,
                   state, interval, waits, finished, age, pending, tasks, tickPc, wrecked>>

LEMMA CanResumeDoes ==
  ASSUME Inv, NEW e \in Executors, CanResume(e)
  PROVE  \E c \in Coroutines : Enters(e, c) \/ Prepares(e, c) \/ Drops(e, c)
<1>1. task[e] \in Tasks
  BY DEF Inv, Frames, CanResume, At
<1>2. PICK c \in Coroutines : Has(e, "check", c)
  BY <1>1, TaskParts DEF Inv, CanResume, At, Has
<1>3. task \in [Executors -> Tasks \cup {None}]
  BY DEF Inv, TypeOK
<1>4. UNCHANGED <<wheel, cursor, due, pool, timer, buf, twTask, isTimeout, result,
                  state, interval, waits, finished, age, pending, tasks, tickPc, wrecked>>
  BY DEF CanResume, wheelVars, poolVars, frameVars
<1>5. CASE /\ suspended[c] /\ Kind(e) = "first" /\ Goto(e, "user") /\ UNCHANGED task
           /\ suspended' = [suspended EXCEPT ![c] = FALSE]
  BY <1>2, <1>4, <1>5, SameTask DEF Enters, Goes, Goto
<1>6. CASE /\ Kind(e) # "first" /\ Goto(e, "before") /\ UNCHANGED <<suspended, task>>
  BY <1>2, <1>4, <1>6, SameTask DEF Prepares, Goes, Goto
<1>7. CASE ~suspended[c] /\ ToExecutor(e) /\ UNCHANGED suspended
  BY <1>2, <1>3, <1>4, <1>7, SameTask DEF Drops, Leaves, ToExecutor, Goto
<1> QED
  BY <1>2, <1>5, <1>6, <1>7 DEF CanResume, Has, Kind

Cancels(e, c) ==
    /\ Has(e, "before", c) /\ Kind(e) = "done" /\ Goes(e, "resume")
    /\ \/ buf[c] = None /\ UNCHANGED timer
       \/ buf[c] # None /\ timer' = [timer EXCEPT ![twTask[c]].canceled = TRUE]
    /\ UNCHANGED <<wheel, cursor, due, pool, buf, twTask, isTimeout, result, suspended,
                   state, interval, waits, finished, age, pending, tasks, tickPc, wrecked>>

TimesOut(e, c) ==
    /\ Has(e, "before", c) /\ Kind(e) = "timeout" /\ Goes(e, "resume")
    /\ isTimeout' = [isTimeout EXCEPT ![c] = TRUE]
    /\ UNCHANGED <<wheel, cursor, due, pool, timer, buf, twTask, result, suspended,
                   state, interval, waits, finished, age, pending, tasks, tickPc, wrecked>>

LEMMA BeforeDoes ==
  ASSUME Inv, NEW e \in Executors, Before(e)
  PROVE  \E c \in Coroutines : Cancels(e, c) \/ TimesOut(e, c)
<1>1. pc[e] = "before" /\ task[e] \in Tasks /\ Kind(e) # "first"
  BY DEF Inv, Frames, Before, At
<1>2. PICK c \in Coroutines : Has(e, "before", c)
  BY <1>1, TaskParts DEF Inv, Has
<1>3. Goes(e, "resume")
  BY SameTask DEF Before, Goes, Goto
<1>4. UNCHANGED <<wheel, cursor, due, pool, buf, twTask, result, suspended,
                  state, interval, waits, finished, age, pending, tasks, tickPc, wrecked>>
  BY DEF Before, wheelVars, waitVars
<1>5. CASE Kind(e) = "done"
  BY <1>2, <1>3, <1>4, <1>5 DEF Before, Cancels, Has, Kind
<1>6. CASE Kind(e) = "timeout"
  BY <1>2, <1>3, <1>4, <1>6 DEF Before, TimesOut, Has, Kind
<1> QED
  BY <1>1, <1>5, <1>6, TaskParts DEF Inv

Resumes(e, c) ==
    /\ Has(e, "resume", c) /\ Goes(e, "user") /\ suspended[c]
    /\ suspended' = [suspended EXCEPT ![c] = FALSE]
    /\ state' = [state EXCEPT ![c] = IF isTimeout[c] THEN "timeout" ELSE result[c]]
    /\ UNCHANGED <<wheel, cursor, due, pool, timer, buf, twTask, isTimeout, result,
                   interval, waits, finished, age, pending, tasks, tickPc, wrecked>>

Wrecks ==
    /\ wrecked' = TRUE /\ \A f \in Executors : Same(f)
    /\ UNCHANGED <<wheel, cursor, due, pool, timer, buf, twTask, isTimeout, result, suspended,
                   state, interval, waits, finished, age, pc, task, pending, tasks, tickPc>>

LEMMA ResumeCoDoes ==
  ASSUME Inv, NEW e \in Executors, ResumeCo(e)
  PROVE  Wrecks \/ \E c \in Coroutines : Resumes(e, c)
<1>1. task[e] \in Tasks
  BY DEF Inv, Frames, ResumeCo, At
<1>2. PICK c \in Coroutines : Has(e, "resume", c)
  BY <1>1, TaskParts DEF Inv, ResumeCo, At, Has
<1>3. UNCHANGED <<wheel, cursor, due, pool, timer, buf, twTask, isTimeout, result,
                  interval, waits, finished, age, task, pending, tasks, tickPc>>
  BY DEF ResumeCo, wheelVars, poolVars, frameVars
<1>4. CASE suspended[c]
  BY <1>2, <1>3, <1>4, SameTask DEF ResumeCo, Resumes, Goes, Goto, Has
<1>5. CASE ~suspended[c]
  BY <1>2, <1>3, <1>5, SameTask DEF ResumeCo, Wrecks, Has
<1> QED
  BY <1>4, <1>5

Ticks ==
    /\ tickPc = "idle" /\ due = <<>>
    /\ due' = wheel[cursor] /\ wheel' = [wheel EXCEPT ![cursor] = <<>>]
    /\ cursor' = (cursor + 1) % Slots
    /\ tickPc' = IF due' = <<>> THEN "idle" ELSE "fire"
    /\ age' = [c \in Coroutines |-> IF Turning(c) THEN age[c] + 1 ELSE age[c]]
    /\ \A f \in Executors : Same(f)
    /\ UNCHANGED <<pool, timer, buf, twTask, isTimeout, result, suspended, state, interval,
                   waits, finished, pc, task, pending, tasks, wrecked>>

LEMMA TickDoes == ASSUME Inv, Tick PROVE Ticks
<1>1. ASSUME NEW c \in Coroutines
      PROVE  (\E b \in Buffers : InWheel([co |-> c, buffer |-> b, wait |-> waits[c]])) <=> Turning(c)
  <2>1. ASSUME NEW s \in 0 .. Slots - 1, NEW i \in 1 .. Len(wheel[s]), wheel[s][i].co = c
        PROVE  \E b \in Buffers : wheel[s][i] = [co |-> c, buffer |-> b, wait |-> waits[c]]
    <3>1. wheel[s] \in Seq(Timers)
      BY DEF Inv, TypeOK
    <3>2. wheel[s][i] \in Timers
      BY <3>1, ElementOfSeq
    <3>3. buf[c] # None /\ wheel[s][i].wait = 1 /\ waits[c] = 1
      BY <2>1 DEF Inv, InRing, Its, Holding
    <3> QED  BY <2>1, <3>2, <3>3 DEF Timers
  <2>2. ASSUME NEW s \in 0 .. Slots - 1 PROVE DOMAIN wheel[s] = 1 .. Len(wheel[s])
    <3>1. wheel[s] \in Seq(Timers)
      BY DEF Inv, TypeOK
    <3> QED  BY <3>1, LenProperties
  <2>3. ASSUME NEW b \in Buffers, InWheel([co |-> c, buffer |-> b, wait |-> waits[c]])
        PROVE  Turning(c)
    <3>1. PICK s \in 0 .. Slots - 1 :
            \E i \in 1 .. Len(wheel[s]) : wheel[s][i] = [co |-> c, buffer |-> b, wait |-> waits[c]]
      BY <2>2, <2>3 DEF InWheel
    <3> QED  BY <3>1 DEF Turning
  <2>4. ASSUME Turning(c)
        PROVE  \E b \in Buffers : InWheel([co |-> c, buffer |-> b, wait |-> waits[c]])
    <3>1. PICK s \in 0 .. Slots - 1 : \E i \in 1 .. Len(wheel[s]) : wheel[s][i].co = c
      BY <2>4 DEF Turning
    <3> QED  BY <2>1, <2>2, <3>1 DEF InWheel
  <2> QED  BY <2>3, <2>4
<1>2. age' = [c \in Coroutines |-> IF Turning(c) THEN age[c] + 1 ELSE age[c]]
  BY <1>1 DEF Tick
<1> QED
  BY <1>2, SameTask DEF Inv, InDue, Tick, TakeSlot, Ticks, poolVars, frameVars, execVars

Fires(c) ==
    /\ tickPc = "fire" /\ tickPc' = "release" /\ due # <<>>
    /\ RunOut(c) /\ waits[c] = 1
    /\ tasks' \in {tasks, tasks \cup {<<c, "timeout", 1>>}}
    /\ \A f \in Executors : Same(f)
    /\ UNCHANGED <<wheel, cursor, due, pool, timer, buf, twTask, isTimeout, result, suspended,
                   state, interval, waits, finished, age, pc, task, pending, wrecked>>

Releases(c, b) ==
    /\ tickPc = "release" /\ due # <<>>
    /\ c = due[1].co /\ b = buf[c]
    /\ pool' = Append(pool, b) /\ buf' = [buf EXCEPT ![c] = None]
    /\ due' = Tail(due) /\ tickPc' = IF due' = <<>> THEN "idle" ELSE "fire"
    /\ \A f \in Executors : Same(f)
    /\ UNCHANGED <<wheel, cursor, timer, twTask, isTimeout, result, suspended, state, interval,
                   waits, finished, age, pc, task, pending, tasks, wrecked>>

LEMMA FirstDue ==
  ASSUME Inv, tickPc # "idle"
  PROVE  /\ due # <<>> /\ Head(due) = due[1] /\ 1 \in 1 .. Len(due)
         /\ due[1].co \in Coroutines /\ Its(due[1]) /\ buf[due[1].co] \in Buffers
         /\ age[due[1].co] = interval[due[1].co] + 1
<1>1. due \in Seq(Timers) /\ due # <<>>
  BY DEF Inv, TypeOK, InDue
<1>2. Head(due) = due[1] /\ 1 \in 1 .. Len(due) /\ due[1] \in Timers
  BY <1>1
<1>3. Its(due[1]) /\ age[due[1].co] = interval[due[1].co] + 1
  BY <1>2 DEF Inv, InDue
<1>4. due[1].co \in Coroutines /\ buf[due[1].co] \in Buffers
  BY <1>2, <1>3 DEF Timers, Its, Inv, TypeOK
<1> QED  BY <1>1, <1>2, <1>3, <1>4

LEMMA FireDoes == ASSUME Inv, Fire PROVE \E c \in Coroutines : Fires(c)
<1>1. tickPc # "idle"
  BY DEF Fire
<1>2. PICK c \in Coroutines : c = due[1].co
  BY <1>1, FirstDue
<1>3. timer[Head(due).buffer].callback = c /\ Head(due).wait = 1
  BY <1>1, <1>2, FirstDue DEF Its
<1>4. buf[c] # None /\ twTask[c] # None /\ waits[c] = 1
  BY <1>1, <1>2, FirstDue DEF Its, Inv, Holding
<1>5. age[c] > interval[c]
  <2>1. age[c] = interval[c] + 1
    BY <1>1, <1>2, FirstDue
  <2>2. PICK i \in Intervals : i = interval[c]
    BY DEF Inv, TypeOK
  <2>3. i \in Int
    BY IntervalsAssumption, SlotsAssumption
  <2> QED  BY <2>1, <2>2, <2>3
<1> QED
  BY <1>1, <1>2, <1>3, <1>4, <1>5, FirstDue, SameTask
  DEF Fire, Fires, RunOut, wheelVars, poolVars, frameVars, waitVars, execVars

LEMMA ReleaseDoes ==
  ASSUME Inv, Release PROVE \E c \in Coroutines, b \in Buffers : Releases(c, b)
<1>1. tickPc # "idle"
  BY DEF Release
<1>2. PICK c \in Coroutines, b \in Buffers : c = due[1].co /\ b = buf[c]
  BY <1>1, FirstDue
<1> QED
  BY <1>1, <1>2, FirstDue, SameTask DEF Release, Releases, NextTask, waitVars, execVars

LEMMA StuttersSame == ASSUME UNCHANGED vars PROVE \A f \in Executors : Same(f)
  BY SameTask DEF vars, execVars

\* What has come to pass stays so, as no coroutine begins a second wait.
PastStays ==
    \A c \in Coroutines :
        /\ twTask[c] # None => twTask'[c] # None
        /\ Ended(c) => Ended(c)'
        /\ RunOut(c) => RunOut(c)'

LEMMA Numbers ==
  ASSUME TypeOK, NEW c \in Coroutines
  PROVE  age[c] \in Nat /\ interval[c] \in 0 .. Slots - 1 /\ Slots \in Nat \ {0}
<1>1. PICK i \in Intervals : i = interval[c]
  BY DEF TypeOK
<1>2. i \in 0 .. Slots - 1
  BY IntervalsAssumption
<1>3. PICK n \in 0 .. Slots : n = age[c]
  BY DEF TypeOK
<1> QED  BY <1>1, <1>2, <1>3, SlotsAssumption

-----------------------------------------------------------------------------
(* The wheel, the timers and the pool.                                     *)

\* Its, for a timer of the next state.
ItsNext(t) == /\ buf'[t.co] # None /\ t.buffer = buf'[t.co] /\ t.wait = 1
              /\ timer'[t.buffer].callback = t.co

LEMMA Entries ==
  ASSUME TypeOK, NEW s \in 0 .. Slots - 1
  PROVE  /\ wheel[s] \in Seq(Timers)
         /\ \A i \in 1 .. Len(wheel[s]) : wheel[s][i] \in Timers /\ wheel[s][i].co \in Coroutines
<1>1. wheel[s] \in Seq(Timers)
  BY DEF TypeOK
<1>2. \A i \in 1 .. Len(wheel[s]) : wheel[s][i] \in Timers
  BY <1>1, ElementOfSeq
<1> QED  BY <1>1, <1>2 DEF Timers

LEMMA DueEntries ==
  ASSUME TypeOK
  PROVE  /\ due \in Seq(Timers)
         /\ \A i \in 1 .. Len(due) : due[i] \in Timers /\ due[i].co \in Coroutines
<1>1. due \in Seq(Timers)
  BY DEF TypeOK
<1>2. \A i \in 1 .. Len(due) : due[i] \in Timers
  BY <1>1, ElementOfSeq
<1> QED  BY <1>1, <1>2 DEF Timers

LEMMA PoolFacts ==
  ASSUME Inv
  PROVE  /\ pool \in Seq(Buffers \cup {None}) /\ Len(pool) \in Nat
         /\ \A i \in 1 .. Len(pool) : pool[i] \in Buffers
<1>1. pool \in Seq(Buffers \cup {None})
  BY DEF Inv, TypeOK
<1>2. \A i \in 1 .. Len(pool) : pool[i] \in Buffers \cup {None}
  BY <1>1, ElementOfSeq
<1> QED  BY <1>1, <1>2, LenProperties DEF Inv, Free

\* What a coroutine's timer relies on.
Kept(c) ==
    buf[c] # None =>
        /\ buf'[c] = buf[c] /\ age'[c] = age[c] /\ interval'[c] = interval[c]
        /\ timer[buf[c]].callback = c => timer'[buf[c]].callback = c

LEMMA BeginsKeeps ==
  ASSUME Inv, NEW e \in Executors, NEW c \in Coroutines, NEW i \in Intervals, Begins(e, c, i)
  PROVE  buf[c] = None /\ \A d \in Coroutines : Kept(d)
<1>1. waits[c] = 0
  BY DEF Begins
<1>2. buf[c] = None
  BY <1>1 DEF Inv, Waiting, InWait
<1> QED  BY <1>2 DEF Begins, Kept, Inv, TypeOK

LEMMA PoppedKeeps ==
  ASSUME Inv, NEW e \in Executors, NEW c \in Coroutines, NEW b \in Buffers, Popped(e, c, b)
  PROVE  /\ \A d \in Coroutines : Kept(d) /\ buf[d] # b
         /\ buf[c] = None /\ waits[c] = 1 /\ age[c] = 0
         /\ timer'[b].interval = interval[c] /\ \A x \in Buffers \ {b} : timer'[x] = timer[x]
<1>1. pool # <<>> /\ b = Head(pool)
  BY DEF Popped
<1>2. b = pool[1] /\ 1 \in 1 .. Len(pool)
  BY <1>1, PoolFacts
<1>3. \A d \in Coroutines : buf[d] # b
  BY <1>2 DEF Inv, Free
<1>4. waits[c] = 1 /\ twTask[c] = None
  BY DEF Popped, Has, Inv, Frames, Early, Calling
<1>5. buf[c] = None /\ age[c] = 0
  BY <1>4 DEF Inv, Waiting, InWait
<1>6. timer'[b].interval = interval[c] /\ \A x \in Buffers \ {b} : timer'[x] = timer[x]
  BY DEF Popped, NewTimer, Inv, TypeOK
<1>7. \A d \in Coroutines : buf[d] \in Buffers \cup {None}
  BY DEF Inv, TypeOK
<1>8. \A d \in Coroutines : Kept(d)
  BY <1>3, <1>5, <1>6, <1>7 DEF Kept, Popped, Inv, TypeOK
<1> QED  BY <1>3, <1>4, <1>5, <1>6, <1>8

LEMMA SetsCbKeeps ==
  ASSUME Inv, NEW e \in Executors, NEW c \in Coroutines, NEW b \in Buffers, SetsCb(e, c, b)
  PROVE  /\ \A d \in Coroutines : Kept(d)
         /\ timer'[b].callback = c /\ \A x \in Buffers : timer'[x].interval = timer[x].interval
<1>1. /\ \A x \in Buffers : timer'[x].interval = timer[x].interval
      /\ timer'[b].callback = c
      /\ \A x \in Buffers \ {b} : timer'[x].callback = timer[x].callback
  BY DEF SetsCb, Inv, TypeOK
<1>2. \A d \in Coroutines : buf[d] = b => d = c
  BY Names DEF SetsCb, Inv, Holding
<1>3. \A d \in Coroutines : buf[d] \in Buffers \cup {None}
  BY DEF Inv, TypeOK
<1>4. \A d \in Coroutines : Kept(d)
  BY <1>1, <1>2, <1>3 DEF Kept, SetsCb
<1> QED  BY <1>1, <1>4

LEMMA CancelsKeeps ==
  ASSUME Inv, NEW e \in Executors, NEW c \in Coroutines, Cancels(e, c)
  PROVE  /\ \A d \in Coroutines : Kept(d)
         /\ \A x \in Buffers : timer'[x].interval = timer[x].interval
<1>1. \A x \in Buffers : /\ timer'[x].interval = timer[x].interval
                        /\ timer'[x].callback = timer[x].callback
  <2>1. CASE UNCHANGED timer
    BY <2>1
  <2>2. CASE buf[c] # None /\ timer' = [timer EXCEPT ![twTask[c]].canceled = TRUE]
    <3>1. twTask[c] \in Buffers
      BY <2>2 DEF Inv, Holding, TypeOK
    <3> QED  BY <2>2, <3>1 DEF Inv, TypeOK
  <2> QED  BY <2>1, <2>2 DEF Cancels
<1>2. \A d \in Coroutines : buf[d] \in Buffers \cup {None}
  BY DEF Inv, TypeOK
<1>3. \A d \in Coroutines : Kept(d)
  BY <1>1, <1>2 DEF Kept, Cancels
<1> QED  BY <1>1, <1>3

LEMMA RingStays ==
  ASSUME Inv, UNCHANGED <<wheel, cursor>>, \A c \in Coroutines : Turning(c) => Kept(c)
  PROVE  InRing'
  BY Entries DEF Turning, Inv, InRing, Its, Kept

LEMMA DueStays ==
  ASSUME Inv, UNCHANGED due, tickPc' = "idle" <=> tickPc = "idle", \A c \in Coroutines : Kept(c)
  PROVE  InDue'
  BY DueEntries DEF Inv, InDue, Its, Kept

LEMMA ArmedStays ==
  ASSUME Inv, UNCHANGED <<wheel, due>>, \A c \in Coroutines : Kept(c),
         \A f \in Executors : pc'[f] \in {"start", "setcb", "add"} =>
            pc[f] \in {"start", "setcb", "add"} /\ Same(f) /\ (pc'[f] = "add" => pc[f] = "add")
  PROVE  Armed'
<1> SUFFICES ASSUME NEW e \in Executors, Arming(e)' PROVE ArmedFor(e, Co(e))'
  BY DEF Armed
<1>1. Arming(e) /\ Same(e) /\ (pc'[e] = "add" => pc[e] = "add")
  BY DEF Arming
<1>2. PICK c \in Coroutines : c = Co(e)
  BY <1>1, TaskParts DEF Arming, Inv, Frames
<1>3. ArmedFor(e, c)
  BY <1>1, <1>2 DEF Inv, Armed
<1>4. buf'[c] # None /\ age'[c] = 0 /\ Wait(e)' = 1 /\ (pc'[e] = "add" => timer'[buf'[c]].callback = c)
  BY <1>1, <1>3 DEF ArmedFor, Kept, Same
<1>5. ASSUME NEW f \in Executors, Arming(f)', Co(f)' = c PROVE e = f
  <2>1. Arming(f) /\ Co(f) = c
    BY <1>5 DEF Same, Arming
  <2> QED  BY <1>3, <2>1 DEF ArmedFor
<1>6. ~Turning(c)' /\ ~Falling(c)'
  BY <1>3 DEF ArmedFor, Turning, Falling
<1>7. ArmedFor(e, c)'
  BY <1>4, <1>5, <1>6 DEF ArmedFor
<1> QED  BY <1>1, <1>2, <1>7 DEF ArmedFor, Same

\* The slots of the wheel.
LEMMA SlotMod ==
  ASSUME NEW n \in Nat \ {0}, NEW x \in 0 .. n - 1, NEW k \in 0 .. n - 1
  PROVE  /\ (x + k) % n = IF x + k < n THEN x + k ELSE x + k - n
         /\ (x + k) % n \in 0 .. n - 1
<1>1. CASE x + k < n
  BY <1>1
<1>2. CASE x + k >= n
  <2>1. x + k = (x + k - n) + n /\ x + k - n \in 0 .. n - 1
    BY <1>2
  <2> QED  BY <1>2, <2>1
<1> QED  BY <1>1, <1>2

LEMMA OneSlotOn ==
  ASSUME NEW n \in Nat \ {0}, NEW x \in 0 .. n - 1, NEW k \in 0 .. n - 1
  PROVE  /\ (x + 1) % n \in 0 .. n - 1
         /\ k > 0 => (x + k) % n # x
         /\ k = 0 => (x + k) % n = x
<1>1. (x + k) % n = (IF x + k < n THEN x + k ELSE x + k - n)
  BY SlotMod
<1>2. (x + 1) % n \in 0 .. n - 1
  <2>1. CASE n = 1
    BY <2>1
  <2>2. CASE n # 1
    <3>1. 1 \in 0 .. n - 1
      BY <2>2
    <3> QED  BY <3>1, SlotMod
  <2> QED  BY <2>1, <2>2
<1> QED  BY <1>1, <1>2

LEMMA SameSlot ==
  ASSUME NEW n \in Nat \ {0}, NEW x \in 0 .. n - 1, NEW k \in 1 .. n - 1, NEW y, y = (x + 1) % n
  PROVE  (y + (k - 1)) % n = (x + k) % n
<1>1. 1 \in 0 .. n - 1 /\ k \in 0 .. n - 1
  OBVIOUS
<1>2. y \in 0 .. n - 1 /\ y = IF x + 1 < n THEN x + 1 ELSE x + 1 - n
  BY <1>1, SlotMod
<1>3. (x + k) % n = IF x + k < n THEN x + k ELSE x + k - n
  BY <1>1, SlotMod
<1>4. PICK j \in 0 .. n - 1 : j = k - 1
  OBVIOUS
<1>5. (y + j) % n = IF y + j < n THEN y + j ELSE y + j - n
  BY <1>2, SlotMod
<1> QED  BY <1>2, <1>3, <1>4, <1>5

\* A result, an end and a run-out timer are never taken back.
LEMMA ThePastStays == ASSUME Inv, FirstWaits', [Next]_vars PROVE PastStays
<1> USE DEF Inv, Has, Goes, Leaves, Same
<1>1. ASSUME NEW e \in Executors, Call(e) PROVE PastStays
  <2>1. ASSUME NEW c \in Coroutines, NEW i \in Intervals, Begins(e, c, i) PROVE PastStays
    <3>1. twTask[c] = None
      BY <2>1 DEF Begins, Frames, Early, Calling
    <3> QED  BY <2>1, <3>1, Names DEF Begins, PastStays, Ended, RunOut, TypeOK
  <2> QED  BY <1>1, <2>1, CallDoes
<1>2. ASSUME NEW e \in Executors, Alloc(e) PROVE PastStays
  <2>1. ASSUME NEW c \in Coroutines, Granted(e, c) PROVE PastStays
    BY <2>1 DEF Granted, PastStays, Ended, RunOut
  <2>2. ASSUME NEW c \in Coroutines, Refused(e, c) PROVE PastStays
    BY <2>2 DEF Refused, PastStays, Ended, RunOut
  <2> QED  BY <1>2, <2>1, <2>2, AllocDoes
<1>3. ASSUME NEW e \in Executors, Pop(e) PROVE PastStays
  <2>1. ASSUME NEW c \in Coroutines, NEW b \in Buffers, Popped(e, c, b) PROVE PastStays
    <3>1. twTask[c] = None
      BY <2>1 DEF Popped, Frames, Early, Calling
    <3> QED  BY <2>1, <3>1, Names DEF Popped, PastStays, Ended, RunOut, TypeOK
  <2> QED  BY <1>3, <2>1, PopDoes
<1>4. ASSUME NEW e \in Executors, Return(e) PROVE PastStays
  <2>1. ASSUME NEW c \in Coroutines, Returned(e, c) PROVE PastStays
    BY <2>1 DEF Returned, PastStays, Ended, RunOut
  <2> QED  BY <1>4, <2>1, ReturnDoes
<1>5. ASSUME NEW e \in Executors, Start(e) PROVE PastStays
  <2>1. ASSUME NEW c \in Coroutines, Started(e, c) PROVE PastStays
    BY <2>1 DEF Started, PastStays, Ended, RunOut
  <2> QED  BY <1>5, <2>1, StartDoes
<1>6. ASSUME NEW e \in Executors, SetCb(e) PROVE PastStays
  <2>1. ASSUME NEW c \in Coroutines, NEW b \in Buffers, SetsCb(e, c, b) PROVE PastStays
    BY <2>1 DEF SetsCb, PastStays, Ended, RunOut
  <2> QED  BY <1>6, <2>1, SetCbDoes
<1>7. ASSUME NEW e \in Executors, AddTimer(e) PROVE PastStays
  <2>1. ASSUME NEW c \in Coroutines, NEW b \in Buffers, NEW s \in 0 .. Slots - 1, Adds(e, c, b, s)
       PROVE PastStays
    BY <2>1 DEF Adds, PastStays, Ended, RunOut
  <2> QED  BY <1>7, <2>1, AddDoes
<1>8. ASSUME NEW c \in Coroutines, NEW w \in 1 .. Waits, Complete(c, w) PROVE PastStays
  <2>0. Completes(c)
    BY <1>8, CompleteDoes
  <2> QED  BY <2>0 DEF Completes, PastStays, Ended, RunOut, TypeOK
<1>9. ASSUME NEW e \in Executors, Fetch(e) PROVE PastStays
  <2>1. ASSUME NEW c \in Coroutines, NEW k \in {"first", "done", "timeout"}, NEW w \in 0 .. Waits, Fetched(e, c, k, w)
       PROVE PastStays
    BY <2>1 DEF Fetched, PastStays, Ended, RunOut
  <2> QED  BY <1>9, <2>1, FetchDoes
<1>10. ASSUME NEW e \in Executors, CanResume(e) PROVE PastStays
  <2>1. ASSUME NEW c \in Coroutines, Enters(e, c) PROVE PastStays
    BY <2>1 DEF Enters, PastStays, Ended, RunOut
  <2>2. ASSUME NEW c \in Coroutines, Prepares(e, c) PROVE PastStays
    BY <2>2 DEF Prepares, PastStays, Ended, RunOut
  <2>3. ASSUME NEW c \in Coroutines, Drops(e, c) PROVE PastStays
    BY <2>3 DEF Drops, PastStays, Ended, RunOut
  <2> QED  BY <1>10, <2>1, <2>2, <2>3, CanResumeDoes
<1>11. ASSUME NEW e \in Executors, Before(e) PROVE PastStays
  <2>1. ASSUME NEW c \in Coroutines, Cancels(e, c) PROVE PastStays
    BY <2>1 DEF Cancels, PastStays, Ended, RunOut
  <2>2. ASSUME NEW c \in Coroutines, TimesOut(e, c) PROVE PastStays
    BY <2>2 DEF TimesOut, PastStays, Ended, RunOut
  <2> QED  BY <1>11, <2>1, <2>2, BeforeDoes
<1>12. ASSUME NEW e \in Executors, ResumeCo(e) PROVE PastStays
  <2>1. CASE Wrecks
    BY <2>1 DEF Wrecks, PastStays, Ended, RunOut
  <2>2. ASSUME NEW c \in Coroutines, Resumes(e, c) PROVE PastStays
    BY <2>2 DEF Resumes, PastStays, Ended, RunOut
  <2> QED  BY <1>12, <2>1, <2>2, ResumeCoDoes
<1>13. CASE Tick
  <2>0. Ticks
    BY <1>13, TickDoes
  <2>2. \A c \in Coroutines : age[c] > interval[c] => age'[c] > interval'[c]
      BY <2>0, Numbers DEF Ticks
  <2> QED  BY <2>0, <2>2 DEF Ticks, PastStays, Ended, RunOut
<1>14. CASE Fire
  <2>1. ASSUME NEW c \in Coroutines, Fires(c) PROVE PastStays
    BY <2>1 DEF Fires, PastStays, Ended, RunOut
  <2> QED  BY <1>14, <2>1, FireDoes
<1>15. CASE Release
  <2>1. ASSUME NEW c \in Coroutines, NEW b \in Buffers, Releases(c, b) PROVE PastStays
    BY <2>1 DEF Releases, PastStays, Ended, RunOut
  <2> QED  BY <1>15, <2>1, ReleaseDoes
<1>16. CASE UNCHANGED vars
  BY <1>16, StuttersSame
     DEF vars, wheelVars, poolVars, frameVars, waitVars, execVars, PastStays, Ended, RunOut
<1> QED
  BY <1>1, <1>2, <1>3, <1>4, <1>5, <1>6, <1>7, <1>8, <1>9, <1>10, <1>11, <1>12, <1>13, <1>14, <1>15, <1>16
  DEF Next, Yield, Wrap, Execute, Clock

\* A place in the program goes with the coroutine that came to it.
LEMMA KeepsFrames == ASSUME Inv, FirstWaits', [Next]_vars PROVE Frames'
<1> USE DEF Inv, Has, Goes, Leaves, Same
<1>1. ASSUME NEW e \in Executors, Call(e) PROVE Frames'
  <2>1. ASSUME NEW c \in Coroutines, NEW i \in Intervals, Begins(e, c, i) PROVE Frames'
    <3>1. \A f \in Executors \ {e} : Early(f) => Co(f) # c
      BY <2>1 DEF Begins, OneEarly, Early, Calling
    <3>2. twTask[c] = None /\ <<c, "first", 0>> \notin tasks /\ ~suspended[c]
      BY <2>1 DEF Begins, Frames, Early
    <3>3. task'[e] \in Tasks
      <4>1. task'[e] = <<c, Kind(e), 1>>
        BY <2>1 DEF Begins, TypeOK
      <4>2. Kind(e) \in {"first", "done", "timeout"}
        BY <2>1, TaskParts DEF Begins
      <4>3. 1 \in 0 .. Waits
        BY BoundsAssumption
      <4> QED  BY <4>1, <4>2, <4>3 DEF Tasks
    <3> QED  BY <2>1, <3>1, <3>2, <3>3 DEF Begins, Frames, Early, Calling, TypeOK
  <2> QED  BY <1>1, <2>1, CallDoes
<1>2. ASSUME NEW e \in Executors, Alloc(e) PROVE Frames'
  <2>1. ASSUME NEW c \in Coroutines, Granted(e, c) PROVE Frames'
    BY <2>1 DEF Granted, Frames, Early, Calling, TypeOK
  <2>2. ASSUME NEW c \in Coroutines, Refused(e, c) PROVE Frames'
    <3>1. \A f \in Executors \ {e} : Early(f) => Co(f) # c
      BY <2>2 DEF Refused, OneEarly, Early, Calling
    <3> QED  BY <2>2, <3>1 DEF Refused, Frames, Early, Calling, TypeOK
  <2> QED  BY <1>2, <2>1, <2>2, AllocDoes
<1>3. ASSUME NEW e \in Executors, Pop(e) PROVE Frames'
  <2>1. ASSUME NEW c \in Coroutines, NEW b \in Buffers, Popped(e, c, b) PROVE Frames'
    <3>1. \A f \in Executors \ {e} : Early(f) => Co(f) # c
      BY <2>1 DEF Popped, OneEarly, Early, Calling
    <3>2. \A f \in Executors : pc[f] = "resume" => Co(f) # c
      <4>1. twTask[c] = None
        BY <2>1 DEF Popped, Frames, Early, Calling
      <4>2. ASSUME NEW f \in Executors, pc[f] = "resume" PROVE Co(f) # c
        <5>1. Kind(f) \in {"done", "timeout"}
          BY <4>2, TaskParts DEF Frames
        <5> QED  BY <4>1, <4>2, <5>1 DEF Causes, Running, Caused, Ended, RunOut
      <4> QED  BY <4>2
    <3> QED  BY <2>1, <3>1, <3>2 DEF Popped, Frames, Early, Calling, TypeOK
  <2> QED  BY <1>3, <2>1, PopDoes
<1>4. ASSUME NEW e \in Executors, Return(e) PROVE Frames'
  <2>1. ASSUME NEW c \in Coroutines, Returned(e, c) PROVE Frames'
    BY <2>1 DEF Returned, Frames, Early, Calling, TypeOK
  <2> QED  BY <1>4, <2>1, ReturnDoes
<1>5. ASSUME NEW e \in Executors, Start(e) PROVE Frames'
  <2>1. ASSUME NEW c \in Coroutines, Started(e, c) PROVE Frames'
    BY <2>1 DEF Started, Frames, Early, Calling, TypeOK
  <2> QED  BY <1>5, <2>1, StartDoes
<1>6. ASSUME NEW e \in Executors, SetCb(e) PROVE Frames'
  <2>1. ASSUME NEW c \in Coroutines, NEW b \in Buffers, SetsCb(e, c, b) PROVE Frames'
    BY <2>1 DEF SetsCb, Frames, Early, Calling, TypeOK
  <2> QED  BY <1>6, <2>1, SetCbDoes
<1>7. ASSUME NEW e \in Executors, AddTimer(e) PROVE Frames'
  <2>1. ASSUME NEW c \in Coroutines, NEW b \in Buffers, NEW s \in 0 .. Slots - 1, Adds(e, c, b, s)
       PROVE Frames'
    BY <2>1 DEF Adds, Frames, Early, Calling, TypeOK
  <2> QED  BY <1>7, <2>1, AddDoes
<1>8. ASSUME NEW c \in Coroutines, NEW w \in 1 .. Waits, Complete(c, w) PROVE Frames'
  <2>0. Completes(c)
    BY <1>8, CompleteDoes
  <2> QED  BY <2>0 DEF Completes, Frames, Early, Calling, TypeOK
<1>9. ASSUME NEW e \in Executors, Fetch(e) PROVE Frames'
  <2>1. ASSUME NEW c \in Coroutines, NEW k \in {"first", "done", "timeout"}, NEW w \in 0 .. Waits, Fetched(e, c, k, w)
       PROVE Frames'
    <3>1. k = "first" =>
            /\ w = 0 /\ waits[c] = 0 /\ twTask[c] = None
            /\ \A f \in Executors : Early(f) => Co(f) # c
      BY <2>1 DEF Fetched, Waiting, InWait, Frames
    <3> QED  BY <2>1, <3>1 DEF Fetched, Frames, Tasks, Early, Calling, TypeOK
  <2> QED  BY <1>9, <2>1, FetchDoes
<1>10. ASSUME NEW e \in Executors, CanResume(e) PROVE Frames'
  <2>1. ASSUME NEW c \in Coroutines, Enters(e, c) PROVE Frames'
    BY <2>1 DEF Enters, Frames, Early, Calling, TypeOK
  <2>2. ASSUME NEW c \in Coroutines, Prepares(e, c) PROVE Frames'
    BY <2>2 DEF Prepares, Frames, Early, Calling, TypeOK
  <2>3. ASSUME NEW c \in Coroutines, Drops(e, c) PROVE Frames'
    BY <2>3 DEF Drops, Frames, Early, Calling, TypeOK
  <2> QED  BY <1>10, <2>1, <2>2, <2>3, CanResumeDoes
<1>11. ASSUME NEW e \in Executors, Before(e) PROVE Frames'
  <2>1. ASSUME NEW c \in Coroutines, Cancels(e, c) PROVE Frames'
    <3>1. result[c] = "result"
      BY <2>1 DEF Cancels, Causes, Running, Caused, Ended
    <3> QED  BY <2>1, <3>1 DEF Cancels, Frames, Early, Calling, TypeOK
  <2>2. ASSUME NEW c \in Coroutines, TimesOut(e, c) PROVE Frames'
    BY <2>2 DEF TimesOut, Frames, Early, Calling, TypeOK
  <2> QED  BY <1>11, <2>1, <2>2, BeforeDoes
<1>12. ASSUME NEW e \in Executors, ResumeCo(e) PROVE Frames'
  <2>1. CASE Wrecks
    BY <2>1 DEF Wrecks, Frames, Early, Calling, TypeOK
  <2>2. ASSUME NEW c \in Coroutines, Resumes(e, c) PROVE Frames'
    <3>1. Kind(e) \in {"done", "timeout"}
      BY <2>2, TaskParts DEF Resumes, Frames
    <3>2. twTask[c] # None
      BY <2>2, <3>1 DEF Resumes, Causes, Running, Caused, Ended, RunOut
    <3>3. waits[c] # 0
      BY <3>2 DEF Waiting, InWait
    <3>4. \A f \in Executors : Early(f) => Co(f) # c
      BY <3>2 DEF Frames
    <3> QED  BY <2>2, <3>3, <3>4 DEF Resumes, Frames, Early, Calling, TypeOK
  <2> QED  BY <1>12, <2>1, <2>2, ResumeCoDoes
<1>13. CASE Tick
  <2>0. Ticks
    BY <1>13, TickDoes
  <2> QED  BY <2>0 DEF Ticks, Frames, Early, Calling, TypeOK
<1>14. CASE Fire
  <2>1. ASSUME NEW c \in Coroutines, Fires(c) PROVE Frames'
    BY <2>1 DEF Fires, Frames, Early, Calling, TypeOK
  <2> QED  BY <1>14, <2>1, FireDoes
<1>15. CASE Release
  <2>1. ASSUME NEW c \in Coroutines, NEW b \in Buffers, Releases(c, b) PROVE Frames'
    BY <2>1 DEF Releases, Frames, Early, Calling, TypeOK
  <2> QED  BY <1>15, <2>1, ReleaseDoes
<1>16. CASE UNCHANGED vars
  BY <1>16, StuttersSame
     DEF vars, wheelVars, poolVars, frameVars, waitVars, execVars, Frames, Early, Calling, TypeOK
<1> QED
  BY <1>1, <1>2, <1>3, <1>4, <1>5, <1>6, <1>7, <1>8, <1>9, <1>10, <1>11, <1>12, <1>13, <1>14, <1>15, <1>16
  DEF Next, Yield, Wrap, Execute, Clock

\* A coroutine's first task is in line once, and gone when it is taken.
LEMMA KeepsOneEarly == ASSUME Inv, FirstWaits', [Next]_vars PROVE OneEarly'
<1> USE DEF Inv, Has, Goes, Leaves, Same
<1>1. ASSUME NEW e \in Executors, Call(e) PROVE OneEarly'
  <2>1. ASSUME NEW c \in Coroutines, NEW i \in Intervals, Begins(e, c, i) PROVE OneEarly'
    BY <2>1 DEF Begins, OneEarly, Frames, Early, Calling, TypeOK
  <2> QED  BY <1>1, <2>1, CallDoes
<1>2. ASSUME NEW e \in Executors, Alloc(e) PROVE OneEarly'
  <2>1. ASSUME NEW c \in Coroutines, Granted(e, c) PROVE OneEarly'
    BY <2>1 DEF Granted, OneEarly, Frames, Early, Calling, TypeOK
  <2>2. ASSUME NEW c \in Coroutines, Refused(e, c) PROVE OneEarly'
    BY <2>2 DEF Refused, OneEarly, Frames, Early, Calling, TypeOK
  <2> QED  BY <1>2, <2>1, <2>2, AllocDoes
<1>3. ASSUME NEW e \in Executors, Pop(e) PROVE OneEarly'
  <2>1. ASSUME NEW c \in Coroutines, NEW b \in Buffers, Popped(e, c, b) PROVE OneEarly'
    BY <2>1 DEF Popped, OneEarly, Frames, Early, Calling, TypeOK
  <2> QED  BY <1>3, <2>1, PopDoes
<1>4. ASSUME NEW e \in Executors, Return(e) PROVE OneEarly'
  <2>1. ASSUME NEW c \in Coroutines, Returned(e, c) PROVE OneEarly'
    BY <2>1 DEF Returned, OneEarly, Frames, Early, Calling, TypeOK
  <2> QED  BY <1>4, <2>1, ReturnDoes
<1>5. ASSUME NEW e \in Executors, Start(e) PROVE OneEarly'
  <2>1. ASSUME NEW c \in Coroutines, Started(e, c) PROVE OneEarly'
    BY <2>1 DEF Started, OneEarly, Frames, Early, Calling, TypeOK
  <2> QED  BY <1>5, <2>1, StartDoes
<1>6. ASSUME NEW e \in Executors, SetCb(e) PROVE OneEarly'
  <2>1. ASSUME NEW c \in Coroutines, NEW b \in Buffers, SetsCb(e, c, b) PROVE OneEarly'
    BY <2>1 DEF SetsCb, OneEarly, Frames, Early, Calling, TypeOK
  <2> QED  BY <1>6, <2>1, SetCbDoes
<1>7. ASSUME NEW e \in Executors, AddTimer(e) PROVE OneEarly'
  <2>1. ASSUME NEW c \in Coroutines, NEW b \in Buffers, NEW s \in 0 .. Slots - 1, Adds(e, c, b, s)
       PROVE OneEarly'
    BY <2>1 DEF Adds, OneEarly, Frames, Early, Calling, TypeOK
  <2> QED  BY <1>7, <2>1, AddDoes
<1>8. ASSUME NEW c \in Coroutines, NEW w \in 1 .. Waits, Complete(c, w) PROVE OneEarly'
  <2>0. Completes(c)
    BY <1>8, CompleteDoes
  <2> QED  BY <2>0 DEF Completes, OneEarly, Frames, Early, Calling, TypeOK
<1>9. ASSUME NEW e \in Executors, Fetch(e) PROVE OneEarly'
  <2>1. ASSUME NEW c \in Coroutines, NEW k \in {"first", "done", "timeout"}, NEW w \in 0 .. Waits, Fetched(e, c, k, w)
       PROVE OneEarly'
    <3>1. k = "first" =>
            /\ w = 0 /\ waits[c] = 0 /\ twTask[c] = None
            /\ \A f \in Executors : Early(f) => Co(f) # c
      BY <2>1 DEF Fetched, Waiting, InWait, Frames
    <3> QED  BY <2>1, <3>1 DEF Fetched, OneEarly, Early, Calling, TypeOK
  <2> QED  BY <1>9, <2>1, FetchDoes
<1>10. ASSUME NEW e \in Executors, CanResume(e) PROVE OneEarly'
  <2>1. ASSUME NEW c \in Coroutines, Enters(e, c) PROVE OneEarly'
    BY <2>1 DEF Enters, OneEarly, Frames, Early, Calling, TypeOK
  <2>2. ASSUME NEW c \in Coroutines, Prepares(e, c) PROVE OneEarly'
    BY <2>2 DEF Prepares, OneEarly, Frames, Early, Calling, TypeOK
  <2>3. ASSUME NEW c \in Coroutines, Drops(e, c) PROVE OneEarly'
    BY <2>3 DEF Drops, OneEarly, Frames, Early, Calling, TypeOK
  <2> QED  BY <1>10, <2>1, <2>2, <2>3, CanResumeDoes
<1>11. ASSUME NEW e \in Executors, Before(e) PROVE OneEarly'
  <2>1. ASSUME NEW c \in Coroutines, Cancels(e, c) PROVE OneEarly'
    BY <2>1 DEF Cancels, OneEarly, Frames, Early, Calling, TypeOK
  <2>2. ASSUME NEW c \in Coroutines, TimesOut(e, c) PROVE OneEarly'
    BY <2>2 DEF TimesOut, OneEarly, Frames, Early, Calling, TypeOK
  <2> QED  BY <1>11, <2>1, <2>2, BeforeDoes
<1>12. ASSUME NEW e \in Executors, ResumeCo(e) PROVE OneEarly'
  <2>1. CASE Wrecks
    BY <2>1 DEF Wrecks, OneEarly, Frames, Early, Calling, TypeOK
  <2>2. ASSUME NEW c \in Coroutines, Resumes(e, c) PROVE OneEarly'
    <3>1. Kind(e) \in {"done", "timeout"}
      BY <2>2, TaskParts DEF Resumes, Frames
    <3>2. twTask[c] # None
      BY <2>2, <3>1 DEF Resumes, Causes, Running, Caused, Ended, RunOut
    <3>3. waits[c] # 0
      BY <3>2 DEF Waiting, InWait
    <3>4. \A f \in Executors : Early(f) => Co(f) # c
      BY <3>2 DEF Frames
    <3> QED  BY <2>2, <3>3, <3>4 DEF Resumes, OneEarly, Early, Calling, TypeOK
  <2> QED  BY <1>12, <2>1, <2>2, ResumeCoDoes
<1>13. CASE Tick
  <2>0. Ticks
    BY <1>13, TickDoes
  <2> QED  BY <2>0 DEF Ticks, OneEarly, Frames, Early, Calling, TypeOK
<1>14. CASE Fire
  <2>1. ASSUME NEW c \in Coroutines, Fires(c) PROVE OneEarly'
    BY <2>1 DEF Fires, OneEarly, Frames, Early, Calling, TypeOK
  <2> QED  BY <1>14, <2>1, FireDoes
<1>15. CASE Release
  <2>1. ASSUME NEW c \in Coroutines, NEW b \in Buffers, Releases(c, b) PROVE OneEarly'
    BY <2>1 DEF Releases, OneEarly, Frames, Early, Calling, TypeOK
  <2> QED  BY <1>15, <2>1, ReleaseDoes
<1>16. CASE UNCHANGED vars
  BY <1>16, StuttersSame
     DEF vars, wheelVars, poolVars, frameVars, waitVars, execVars, OneEarly, Frames, Early,
         Calling, TypeOK
<1> QED
  BY <1>1, <1>2, <1>3, <1>4, <1>5, <1>6, <1>7, <1>8, <1>9, <1>10, <1>11, <1>12, <1>13, <1>14, <1>15, <1>16
  DEF Next, Yield, Wrap, Execute, Clock

LEMMA CausesStay ==
  ASSUME Inv, FirstWaits', [Next]_vars,
         \A c \in Coroutines, k \in {"done", "timeout"}, w \in 0 .. Waits :
            <<c, k, w>> \in tasks' => <<c, k, w>> \in tasks \/ Caused(c, k)',
         \A f \in Executors :
            Running(f)' => \/ Running(f) /\ Co(f)' = Co(f) /\ Kind(f)' = Kind(f)
                         \/ Caused(Co(f), Kind(f))',
         \A c \in Coroutines, w \in 1 .. Waits :
            <<c, w>> \in pending' => <<c, w>> \in pending \/ (w = 1 /\ twTask[c] # None)
  PROVE  Causes'
<1>1. \A c \in Coroutines, k \in {"first", "done", "timeout"} : Caused(c, k) => Caused(c, k)'
  BY ThePastStays DEF Caused, PastStays
<1>2. \A f \in Executors : Running(f) => Co(f) \in Coroutines /\ Kind(f) \in {"first", "done", "timeout"}
  BY TaskParts DEF Inv, Frames, Running
<1>3. \A f \in Executors : Running(f)' => Caused(Co(f), Kind(f))'
  <2> SUFFICES ASSUME NEW f \in Executors, Running(f)', Running(f), Co(f)' = Co(f) /\ Kind(f)' = Kind(f)
               PROVE  Caused(Co(f), Kind(f))'
    OBVIOUS
  <2>1. PICK c \in Coroutines, k \in {"first", "done", "timeout"} : c = Co(f) /\ k = Kind(f)
    BY <1>2
  <2>2. Caused(c, k)
    BY <2>1 DEF Inv, Causes
  <2>3. Caused(c, k)'
    BY <1>1, <2>2
  <2> QED  BY <2>1, <2>3 DEF Caused
<1>4. \A c \in Coroutines, k \in {"done", "timeout"}, w \in 0 .. Waits :
        <<c, k, w>> \in tasks' => Caused(c, k)'
  BY <1>1 DEF Inv, Causes
<1>5. \A c \in Coroutines, w \in 1 .. Waits : <<c, w>> \in pending' => w = 1 /\ twTask'[c] # None
  BY ThePastStays DEF PastStays, Inv, Causes
<1> QED  BY <1>3, <1>4, <1>5 DEF Causes

\* Complete and Fire put a task in line for a cause that stays.
LEMMA KeepsCauses == ASSUME Inv, FirstWaits', [Next]_vars PROVE Causes'
<1> USE DEF Inv, Has, Goes, Leaves, Same
<1>1. ASSUME NEW e \in Executors, Call(e) PROVE Causes'
  <2>1. ASSUME NEW c \in Coroutines, NEW i \in Intervals, Begins(e, c, i) PROVE Causes'
    <3>1. tasks' \subseteq tasks /\ pending' \subseteq pending
      BY <2>1 DEF Begins
    <3>2. \A f \in Executors : Running(f)' => Running(f) /\ Co(f)' = Co(f) /\ Kind(f)' = Kind(f)
      BY <2>1 DEF Begins, Running, TypeOK
    <3> QED  BY <3>1, <3>2, CausesStay
  <2> QED  BY <1>1, <2>1, CallDoes
<1>2. ASSUME NEW e \in Executors, Alloc(e) PROVE Causes'
  <2>1. ASSUME NEW c \in Coroutines, Granted(e, c) PROVE Causes'
    <3>1. tasks' \subseteq tasks /\ pending' \subseteq pending
      BY <2>1 DEF Granted
    <3>2. \A f \in Executors : Running(f)' => Running(f) /\ Co(f)' = Co(f) /\ Kind(f)' = Kind(f)
      BY <2>1 DEF Granted, Running, TypeOK
    <3> QED  BY <3>1, <3>2, CausesStay
  <2>2. ASSUME NEW c \in Coroutines, Refused(e, c) PROVE Causes'
    <3>1. tasks' \subseteq tasks /\ pending' \subseteq pending
      BY <2>2 DEF Refused
    <3>2. \A f \in Executors : Running(f)' => Running(f) /\ Co(f)' = Co(f) /\ Kind(f)' = Kind(f)
      BY <2>2 DEF Refused, Running, TypeOK
    <3> QED  BY <3>1, <3>2, CausesStay
  <2> QED  BY <1>2, <2>1, <2>2, AllocDoes
<1>3. ASSUME NEW e \in Executors, Pop(e) PROVE Causes'
  <2>1. ASSUME NEW c \in Coroutines, NEW b \in Buffers, Popped(e, c, b) PROVE Causes'
    <3>1. tasks' \subseteq tasks /\ pending' \subseteq pending
      BY <2>1 DEF Popped
    <3>2. \A f \in Executors : Running(f)' => Running(f) /\ Co(f)' = Co(f) /\ Kind(f)' = Kind(f)
      BY <2>1 DEF Popped, Running, TypeOK
    <3> QED  BY <3>1, <3>2, CausesStay
  <2> QED  BY <1>3, <2>1, PopDoes
<1>4. ASSUME NEW e \in Executors, Return(e) PROVE Causes'
  <2>1. ASSUME NEW c \in Coroutines, Returned(e, c) PROVE Causes'
    <3>1. tasks' \subseteq tasks /\ pending' \subseteq pending
      BY <2>1 DEF Returned
    <3>2. \A f \in Executors : Running(f)' => Running(f) /\ Co(f)' = Co(f) /\ Kind(f)' = Kind(f)
      BY <2>1 DEF Returned, Running, TypeOK
    <3> QED  BY <3>1, <3>2, CausesStay
  <2> QED  BY <1>4, <2>1, ReturnDoes
<1>5. ASSUME NEW e \in Executors, Start(e) PROVE Causes'
  <2>1. ASSUME NEW c \in Coroutines, Started(e, c) PROVE Causes'
    <3>1. twTask[c] # None
      BY <2>1 DEF Started, Has, Armed, ArmedFor, Arming, Holding, TypeOK
    <3>2. \A f \in Executors : Running(f)' => Running(f) /\ Co(f)' = Co(f) /\ Kind(f)' = Kind(f)
      BY <2>1 DEF Started, Running, TypeOK
    <3> QED  BY <2>1, <3>1, <3>2, CausesStay DEF Started
  <2> QED  BY <1>5, <2>1, StartDoes
<1>6. ASSUME NEW e \in Executors, SetCb(e) PROVE Causes'
  <2>1. ASSUME NEW c \in Coroutines, NEW b \in Buffers, SetsCb(e, c, b) PROVE Causes'
    <3>1. tasks' \subseteq tasks /\ pending' \subseteq pending
      BY <2>1 DEF SetsCb
    <3>2. \A f \in Executors : Running(f)' => Running(f) /\ Co(f)' = Co(f) /\ Kind(f)' = Kind(f)
      BY <2>1 DEF SetsCb, Running, TypeOK
    <3> QED  BY <3>1, <3>2, CausesStay
  <2> QED  BY <1>6, <2>1, SetCbDoes
<1>7. ASSUME NEW e \in Executors, AddTimer(e) PROVE Causes'
  <2>1. ASSUME NEW c \in Coroutines, NEW b \in Buffers, NEW s \in 0 .. Slots - 1, Adds(e, c, b, s)
       PROVE Causes'
    <3>1. tasks' \subseteq tasks /\ pending' \subseteq pending
      BY <2>1 DEF Adds
    <3>2. \A f \in Executors : Running(f)' => Running(f) /\ Co(f)' = Co(f) /\ Kind(f)' = Kind(f)
      BY <2>1 DEF Adds, Running, TypeOK
    <3> QED  BY <3>1, <3>2, CausesStay
  <2> QED  BY <1>7, <2>1, AddDoes
<1>8. ASSUME NEW c \in Coroutines, NEW w \in 1 .. Waits, Complete(c, w) PROVE Causes'
  <2>0. Completes(c)
    BY <1>8, CompleteDoes
  <2>1. Caused(c, "done")'
      BY <2>0 DEF Completes, Caused, Ended, TypeOK
  <2>2. \A f \in Executors : Running(f)' => Running(f) /\ Co(f)' = Co(f) /\ Kind(f)' = Kind(f)
      BY <2>0 DEF Completes, Running, TypeOK
  <2> QED  BY <2>0, <2>1, <2>2, CausesStay DEF Completes
<1>9. ASSUME NEW e \in Executors, Fetch(e) PROVE Causes'
  <2>1. ASSUME NEW c \in Coroutines, NEW k \in {"first", "done", "timeout"}, NEW w \in 0 .. Waits, Fetched(e, c, k, w)
       PROVE Causes'
    <3>1. Caused(c, k)
      BY <2>1 DEF Fetched, Causes, Caused
    <3>2. Caused(c, k)'
      BY <3>1, ThePastStays DEF PastStays, Caused
    <3>3. Caused(Co(e), Kind(e))'
      BY <2>1, <3>2 DEF Fetched, Caused
    <3>4. \A f \in Executors \ {e} : Running(f)' => Running(f) /\ Co(f)' = Co(f) /\ Kind(f)' = Kind(f)
      BY <2>1 DEF Fetched, Running, TypeOK
    <3>5. tasks' \subseteq tasks /\ pending' = pending
      BY <2>1 DEF Fetched
    <3> QED  BY <3>3, <3>4, <3>5, CausesStay
  <2> QED  BY <1>9, <2>1, FetchDoes
<1>10. ASSUME NEW e \in Executors, CanResume(e) PROVE Causes'
  <2>1. ASSUME NEW c \in Coroutines, Enters(e, c) PROVE Causes'
    <3>1. tasks' \subseteq tasks /\ pending' \subseteq pending
      BY <2>1 DEF Enters
    <3>2. \A f \in Executors : Running(f)' => Running(f) /\ Co(f)' = Co(f) /\ Kind(f)' = Kind(f)
      BY <2>1 DEF Enters, Running, TypeOK
    <3> QED  BY <3>1, <3>2, CausesStay
  <2>2. ASSUME NEW c \in Coroutines, Prepares(e, c) PROVE Causes'
    <3>1. tasks' \subseteq tasks /\ pending' \subseteq pending
      BY <2>2 DEF Prepares
    <3>2. \A f \in Executors : Running(f)' => Running(f) /\ Co(f)' = Co(f) /\ Kind(f)' = Kind(f)
      BY <2>2 DEF Prepares, Running, TypeOK
    <3> QED  BY <3>1, <3>2, CausesStay
  <2>3. ASSUME NEW c \in Coroutines, Drops(e, c) PROVE Causes'
    <3>1. tasks' \subseteq tasks /\ pending' \subseteq pending
      BY <2>3 DEF Drops
    <3>2. \A f \in Executors : Running(f)' => Running(f) /\ Co(f)' = Co(f) /\ Kind(f)' = Kind(f)
      BY <2>3 DEF Drops, Running, TypeOK
    <3> QED  BY <3>1, <3>2, CausesStay
  <2> QED  BY <1>10, <2>1, <2>2, <2>3, CanResumeDoes
<1>11. ASSUME NEW e \in Executors, Before(e) PROVE Causes'
  <2>1. ASSUME NEW c \in Coroutines, Cancels(e, c) PROVE Causes'
    <3>1. tasks' \subseteq tasks /\ pending' \subseteq pending
      BY <2>1 DEF Cancels
    <3>2. \A f \in Executors : Running(f)' => Running(f) /\ Co(f)' = Co(f) /\ Kind(f)' = Kind(f)
      BY <2>1 DEF Cancels, Running, TypeOK
    <3> QED  BY <3>1, <3>2, CausesStay
  <2>2. ASSUME NEW c \in Coroutines, TimesOut(e, c) PROVE Causes'
    <3>1. tasks' \subseteq tasks /\ pending' \subseteq pending
      BY <2>2 DEF TimesOut
    <3>2. \A f \in Executors : Running(f)' => Running(f) /\ Co(f)' = Co(f) /\ Kind(f)' = Kind(f)
      BY <2>2 DEF TimesOut, Running, TypeOK
    <3> QED  BY <3>1, <3>2, CausesStay
  <2> QED  BY <1>11, <2>1, <2>2, BeforeDoes
<1>12. ASSUME NEW e \in Executors, ResumeCo(e) PROVE Causes'
  <2>1. CASE Wrecks
    <3>1. tasks' \subseteq tasks /\ pending' \subseteq pending
      BY <2>1 DEF Wrecks
    <3>2. \A f \in Executors : Running(f)' => Running(f) /\ Co(f)' = Co(f) /\ Kind(f)' = Kind(f)
      BY <2>1 DEF Wrecks, Running, TypeOK
    <3> QED  BY <3>1, <3>2, CausesStay
  <2>2. ASSUME NEW c \in Coroutines, Resumes(e, c) PROVE Causes'
    <3>1. tasks' \subseteq tasks /\ pending' \subseteq pending
      BY <2>2 DEF Resumes
    <3>2. \A f \in Executors : Running(f)' => Running(f) /\ Co(f)' = Co(f) /\ Kind(f)' = Kind(f)
      BY <2>2 DEF Resumes, Running, TypeOK
    <3> QED  BY <3>1, <3>2, CausesStay
  <2> QED  BY <1>12, <2>1, <2>2, ResumeCoDoes
<1>13. CASE Tick
  <2>0. Ticks
    BY <1>13, TickDoes
  <2>1. tasks' \subseteq tasks /\ pending' \subseteq pending
      BY <2>0 DEF Ticks
  <2>2. \A f \in Executors : Running(f)' => Running(f) /\ Co(f)' = Co(f) /\ Kind(f)' = Kind(f)
      BY <2>0 DEF Ticks, Running, TypeOK
  <2> QED  BY <2>1, <2>2, CausesStay
<1>14. CASE Fire
  <2>1. ASSUME NEW c \in Coroutines, Fires(c) PROVE Causes'
    <3>1. Caused(c, "timeout")'
      BY <2>1 DEF Fires, Caused, RunOut
    <3>2. \A f \in Executors : Running(f)' => Running(f) /\ Co(f)' = Co(f) /\ Kind(f)' = Kind(f)
      BY <2>1 DEF Fires, Running, TypeOK
    <3> QED  BY <2>1, <3>1, <3>2, CausesStay DEF Fires
  <2> QED  BY <1>14, <2>1, FireDoes
<1>15. CASE Release
  <2>1. ASSUME NEW c \in Coroutines, NEW b \in Buffers, Releases(c, b) PROVE Causes'
    <3>1. tasks' \subseteq tasks /\ pending' \subseteq pending
      BY <2>1 DEF Releases
    <3>2. \A f \in Executors : Running(f)' => Running(f) /\ Co(f)' = Co(f) /\ Kind(f)' = Kind(f)
      BY <2>1 DEF Releases, Running, TypeOK
    <3> QED  BY <3>1, <3>2, CausesStay
  <2> QED  BY <1>15, <2>1, ReleaseDoes
<1>16. CASE UNCHANGED vars
  <2>1. \A f \in Executors : Running(f)' => Running(f) /\ Co(f)' = Co(f) /\ Kind(f)' = Kind(f)
    BY <1>16, StuttersSame DEF vars, execVars, Running
  <2> QED  BY <1>16, <2>1, CausesStay DEF vars
<1> QED
  BY <1>1, <1>2, <1>3, <1>4, <1>5, <1>6, <1>7, <1>8, <1>9, <1>10, <1>11, <1>12, <1>13, <1>14, <1>15, <1>16
  DEF Next, Yield, Wrap, Execute, Clock

\* A step that is no business of a coroutine's leaves it where it was.
LEMMA WaitStays ==
  ASSUME Inv, FirstWaits', [Next]_vars, NEW c \in Coroutines,
         waits'[c] = waits[c], state'[c] = state[c], twTask'[c] = twTask[c],
         buf'[c] \in {buf[c], None}, finished'[c] = finished[c], age[c] = 0 => twTask[c] # None \/ age'[c] = 0,
         isTimeout'[c] = isTimeout[c], result'[c] = result[c],
         suspended'[c] => suspended[c],
         \A w \in 0 .. Waits : <<c, "first", w>> \in tasks' => <<c, "first", w>> \in tasks
  PROVE  InWait(c)'
<1>1. (RunOut(c) => RunOut(c)') /\ (Ended(c) => Ended(c)')
  BY ThePastStays DEF PastStays
<1>2. InWait(c)
  BY DEF Inv, Waiting
<1> QED  BY <1>1, <1>2 DEF InWait

\* A wait is begun once, and resumed by a task that has its cause.
LEMMA KeepsWaiting == ASSUME Inv, FirstWaits', [Next]_vars PROVE Waiting'
<1> USE DEF Inv, Has, Goes, Leaves, Same
<1>1. ASSUME NEW e \in Executors, Call(e) PROVE Waiting'
  <2>1. ASSUME NEW c \in Coroutines, NEW i \in Intervals, Begins(e, c, i) PROVE Waiting'
    <3>1. ASSUME NEW d \in Coroutines \ {c} PROVE InWait(d)'
      BY <2>1, WaitStays DEF Begins, TypeOK
    <3>2. InWait(c)
      BY DEF Waiting
    <3>3. Early(e)
      BY <2>1 DEF Begins, Early
    <3>4. twTask[c] = None /\ ~suspended[c] /\ <<c, "first", 0>> \notin tasks
      BY <2>1, <3>3 DEF Begins, Frames
    <3>5. ~isTimeout[c] /\ result[c] # "result" /\ buf[c] = None
      BY <3>2, <3>4 DEF InWait, RunOut, Ended
    <3>6. /\ waits'[c] = 1 /\ state'[c] = "waiting" /\ ~finished'[c] /\ age'[c] = 0
          /\ UNCHANGED <<twTask, buf, isTimeout, result, suspended, tasks>>
      BY <2>1 DEF Begins, TypeOK
    <3>7. \A w \in 0 .. Waits : <<c, "first", w>> \notin tasks
      BY <3>2, <3>4 DEF InWait
    <3>8. InWait(c)'
      BY <3>4, <3>5, <3>6, <3>7 DEF InWait
    <3> QED  BY <3>1, <3>8 DEF Waiting
  <2> QED  BY <1>1, <2>1, CallDoes
<1>2. ASSUME NEW e \in Executors, Alloc(e) PROVE Waiting'
  <2>1. ASSUME NEW c \in Coroutines, Granted(e, c) PROVE Waiting'
    <3>1. ASSUME NEW d \in Coroutines PROVE InWait(d)'
      BY <2>1, WaitStays DEF Granted, TypeOK
    <3> QED  BY <3>1 DEF Waiting
  <2>2. ASSUME NEW c \in Coroutines, Refused(e, c) PROVE Waiting'
    <3>1. ASSUME NEW d \in Coroutines \ {c} PROVE InWait(d)'
      BY <2>2, WaitStays DEF Refused, TypeOK
    <3>2. InWait(c)
      BY DEF Waiting
    <3>3. Early(e)
      BY <2>2 DEF Refused, Early, Calling
    <3>4. ~suspended[c] /\ waits[c] = 1
      BY <2>2, <3>3 DEF Refused, Frames, Calling
    <3>5. InWait(c)'
      BY <2>2, <3>2, <3>3, <3>4 DEF Refused, InWait, RunOut, Ended, TypeOK
    <3> QED  BY <3>1, <3>5 DEF Waiting
  <2> QED  BY <1>2, <2>1, <2>2, AllocDoes
<1>3. ASSUME NEW e \in Executors, Pop(e) PROVE Waiting'
  <2>1. ASSUME NEW c \in Coroutines, NEW b \in Buffers, Popped(e, c, b) PROVE Waiting'
    <3>1. ASSUME NEW d \in Coroutines \ {c} PROVE InWait(d)'
      BY <2>1, WaitStays DEF Popped, TypeOK
    <3>2. InWait(c)
      BY DEF Waiting
    <3>3. Early(e)
      BY <2>1 DEF Popped, Early, Calling
    <3>4. waits[c] = 1 /\ state[c] = "waiting" /\ <<c, "first", 0>> \notin tasks
      BY <2>1, <3>3 DEF Popped, Frames, Calling
    <3>5. /\ twTask'[c] = b /\ ~isTimeout'[c] /\ result'[c] = "error"
          /\ UNCHANGED <<waits, state, tasks>>
      BY <2>1 DEF Popped, TypeOK
    <3>6. \A w \in 0 .. Waits : <<c, "first", w>> \notin tasks
      BY <3>2, <3>4 DEF InWait
    <3>7. InWait(c)'
      BY <3>4, <3>5, <3>6, Names DEF InWait
    <3> QED  BY <3>1, <3>7 DEF Waiting
  <2> QED  BY <1>3, <2>1, PopDoes
<1>4. ASSUME NEW e \in Executors, Return(e) PROVE Waiting'
  <2>1. ASSUME NEW c \in Coroutines, Returned(e, c) PROVE Waiting'
    <3>1. ASSUME NEW d \in Coroutines PROVE InWait(d)'
      BY <2>1, WaitStays DEF Returned, TypeOK
    <3> QED  BY <3>1 DEF Waiting
  <2> QED  BY <1>4, <2>1, ReturnDoes
<1>5. ASSUME NEW e \in Executors, Start(e) PROVE Waiting'
  <2>1. ASSUME NEW c \in Coroutines, Started(e, c) PROVE Waiting'
    <3>1. ASSUME NEW d \in Coroutines PROVE InWait(d)'
      BY <2>1, WaitStays DEF Started, TypeOK
    <3> QED  BY <3>1 DEF Waiting
  <2> QED  BY <1>5, <2>1, StartDoes
<1>6. ASSUME NEW e \in Executors, SetCb(e) PROVE Waiting'
  <2>1. ASSUME NEW c \in Coroutines, NEW b \in Buffers, SetsCb(e, c, b) PROVE Waiting'
    <3>1. ASSUME NEW d \in Coroutines PROVE InWait(d)'
      BY <2>1, WaitStays DEF SetsCb, TypeOK
    <3> QED  BY <3>1 DEF Waiting
  <2> QED  BY <1>6, <2>1, SetCbDoes
<1>7. ASSUME NEW e \in Executors, AddTimer(e) PROVE Waiting'
  <2>1. ASSUME NEW c \in Coroutines, NEW b \in Buffers, NEW s \in 0 .. Slots - 1, Adds(e, c, b, s)
       PROVE Waiting'
    <3>1. ASSUME NEW d \in Coroutines PROVE InWait(d)'
      BY <2>1, WaitStays DEF Adds, TypeOK
    <3> QED  BY <3>1 DEF Waiting
  <2> QED  BY <1>7, <2>1, AddDoes
<1>8. ASSUME NEW c \in Coroutines, NEW w \in 1 .. Waits, Complete(c, w) PROVE Waiting'
  <2>0. Completes(c)
    BY <1>8, CompleteDoes
  <2>1. ASSUME NEW d \in Coroutines \ {c} PROVE InWait(d)'
      BY <2>0, WaitStays DEF Completes, TypeOK
  <2>2. InWait(c)
      BY DEF Waiting
  <2>3. RunOut(c) => RunOut(c)'
      BY ThePastStays DEF PastStays
  <2>4. InWait(c)'
      BY <2>0, <2>2, <2>3 DEF Completes, InWait, RunOut, Ended, TypeOK
  <2> QED  BY <2>1, <2>4 DEF Waiting
<1>9. ASSUME NEW e \in Executors, Fetch(e) PROVE Waiting'
  <2>1. ASSUME NEW c \in Coroutines, NEW k \in {"first", "done", "timeout"}, NEW w \in 0 .. Waits, Fetched(e, c, k, w)
       PROVE Waiting'
    <3>1. ASSUME NEW d \in Coroutines PROVE InWait(d)'
      BY <2>1, WaitStays DEF Fetched, TypeOK
    <3> QED  BY <3>1 DEF Waiting
  <2> QED  BY <1>9, <2>1, FetchDoes
<1>10. ASSUME NEW e \in Executors, CanResume(e) PROVE Waiting'
  <2>1. ASSUME NEW c \in Coroutines, Enters(e, c) PROVE Waiting'
    <3>1. ASSUME NEW d \in Coroutines PROVE InWait(d)'
      BY <2>1, WaitStays DEF Enters, TypeOK
    <3> QED  BY <3>1 DEF Waiting
  <2>2. ASSUME NEW c \in Coroutines, Prepares(e, c) PROVE Waiting'
    <3>1. ASSUME NEW d \in Coroutines PROVE InWait(d)'
      BY <2>2, WaitStays DEF Prepares, TypeOK
    <3> QED  BY <3>1 DEF Waiting
  <2>3. ASSUME NEW c \in Coroutines, Drops(e, c) PROVE Waiting'
    <3>1. ASSUME NEW d \in Coroutines PROVE InWait(d)'
      BY <2>3, WaitStays DEF Drops, TypeOK
    <3> QED  BY <3>1 DEF Waiting
  <2> QED  BY <1>10, <2>1, <2>2, <2>3, CanResumeDoes
<1>11. ASSUME NEW e \in Executors, Before(e) PROVE Waiting'
  <2>1. ASSUME NEW c \in Coroutines, Cancels(e, c) PROVE Waiting'
    <3>1. ASSUME NEW d \in Coroutines PROVE InWait(d)'
      BY <2>1, WaitStays DEF Cancels, TypeOK
    <3> QED  BY <3>1 DEF Waiting
  <2>2. ASSUME NEW c \in Coroutines, TimesOut(e, c) PROVE Waiting'
    <3>1. ASSUME NEW d \in Coroutines \ {c} PROVE InWait(d)'
      BY <2>2, WaitStays DEF TimesOut, TypeOK
    <3>2. InWait(c)
      BY DEF Waiting
    <3>3. RunOut(c)
      BY <2>2 DEF TimesOut, Causes, Running, Caused
    <3>4. InWait(c)'
      BY <2>2, <3>2, <3>3 DEF TimesOut, InWait, RunOut, Ended, TypeOK
    <3> QED  BY <3>1, <3>4 DEF Waiting
  <2> QED  BY <1>11, <2>1, <2>2, BeforeDoes
<1>12. ASSUME NEW e \in Executors, ResumeCo(e) PROVE Waiting'
  <2>1. CASE Wrecks
    <3>1. ASSUME NEW d \in Coroutines PROVE InWait(d)'
      BY <2>1, WaitStays DEF Wrecks, TypeOK
    <3> QED  BY <3>1 DEF Waiting
  <2>2. ASSUME NEW c \in Coroutines, Resumes(e, c) PROVE Waiting'
    <3>1. ASSUME NEW d \in Coroutines \ {c} PROVE InWait(d)'
      BY <2>2, WaitStays DEF Resumes, TypeOK
    <3>2. InWait(c)
      BY DEF Waiting
    <3>3. Kind(e) \in {"done", "timeout"}
      BY <2>2, TaskParts DEF Resumes, Frames
    <3>4. twTask[c] # None
      BY <2>2, <3>3 DEF Resumes, Causes, Running, Caused, Ended, RunOut
    <3>5. InWait(c)'
      BY <2>2, <3>2, <3>3, <3>4 DEF Resumes, InWait, RunOut, Ended, TypeOK
    <3> QED  BY <3>1, <3>5 DEF Waiting
  <2> QED  BY <1>12, <2>1, <2>2, ResumeCoDoes
<1>13. CASE Tick
  <2>0. Ticks
    BY <1>13, TickDoes
  <2>1. ASSUME NEW d \in Coroutines PROVE InWait(d)'
      <3>1. age'[d] = 0 \/ twTask[d] # None \/ age[d] # 0
        BY <2>0 DEF Ticks, Turning, InRing, Its, Waiting, InWait
      <3> QED  BY <2>0, <3>1, WaitStays DEF Ticks
  <2> QED  BY <2>1 DEF Waiting
<1>14. CASE Fire
  <2>1. ASSUME NEW c \in Coroutines, Fires(c) PROVE Waiting'
    <3>1. ASSUME NEW d \in Coroutines PROVE InWait(d)'
      BY <2>1, WaitStays DEF Fires, TypeOK
    <3> QED  BY <3>1 DEF Waiting
  <2> QED  BY <1>14, <2>1, FireDoes
<1>15. CASE Release
  <2>1. ASSUME NEW c \in Coroutines, NEW b \in Buffers, Releases(c, b) PROVE Waiting'
    <3>1. ASSUME NEW d \in Coroutines PROVE InWait(d)'
      BY <2>1, WaitStays DEF Releases, TypeOK
    <3> QED  BY <3>1 DEF Waiting
  <2> QED  BY <1>15, <2>1, ReleaseDoes
<1>16. CASE UNCHANGED vars
  <2>1. ASSUME NEW d \in Coroutines PROVE InWait(d)'
    BY <1>16, WaitStays DEF vars, frameVars, waitVars
  <2> QED  BY <2>1 DEF Waiting
<1> QED
  BY <1>1, <1>2, <1>3, <1>4, <1>5, <1>6, <1>7, <1>8, <1>9, <1>10, <1>11, <1>12, <1>13, <1>14, <1>15, <1>16
  DEF Next, Yield, Wrap, Execute, Clock

\* A buffer taken out of the pool is nobody else's.
LEMMA KeepsHolding == ASSUME Inv, FirstWaits', [Next]_vars PROVE Holding'
<1> USE DEF Inv, Has, Goes, Leaves, Same
<1>1. ASSUME NEW e \in Executors, Call(e) PROVE Holding'
  <2>1. ASSUME NEW c \in Coroutines, NEW i \in Intervals, Begins(e, c, i) PROVE Holding'
    BY <2>1 DEF Begins, Holding
  <2> QED  BY <1>1, <2>1, CallDoes
<1>2. ASSUME NEW e \in Executors, Alloc(e) PROVE Holding'
  <2>1. ASSUME NEW c \in Coroutines, Granted(e, c) PROVE Holding'
    BY <2>1 DEF Granted, Holding
  <2>2. ASSUME NEW c \in Coroutines, Refused(e, c) PROVE Holding'
    BY <2>2 DEF Refused, Holding
  <2> QED  BY <1>2, <2>1, <2>2, AllocDoes
<1>3. ASSUME NEW e \in Executors, Pop(e) PROVE Holding'
  <2>1. ASSUME NEW c \in Coroutines, NEW b \in Buffers, Popped(e, c, b) PROVE Holding'
    <3>1. /\ \A d \in Coroutines : buf[d] # b
          /\ waits[c] = 1 /\ timer'[b].interval = interval[c]
          /\ \A x \in Buffers \ {b} : timer'[x] = timer[x]
      BY <2>1, PoppedKeeps
    <3>2. /\ buf'[c] = b /\ twTask'[c] = b /\ UNCHANGED <<waits, interval>>
          /\ \A d \in Coroutines \ {c} : buf'[d] = buf[d] /\ twTask'[d] = twTask[d]
      BY <2>1 DEF Popped, TypeOK
    <3>3. \A d \in Coroutines : buf[d] # None => buf[d] \in Buffers
      BY DEF TypeOK
    <3> QED  BY <3>1, <3>2, <3>3 DEF Holding
  <2> QED  BY <1>3, <2>1, PopDoes
<1>4. ASSUME NEW e \in Executors, Return(e) PROVE Holding'
  <2>1. ASSUME NEW c \in Coroutines, Returned(e, c) PROVE Holding'
    BY <2>1 DEF Returned, Holding
  <2> QED  BY <1>4, <2>1, ReturnDoes
<1>5. ASSUME NEW e \in Executors, Start(e) PROVE Holding'
  <2>1. ASSUME NEW c \in Coroutines, Started(e, c) PROVE Holding'
    BY <2>1 DEF Started, Holding
  <2> QED  BY <1>5, <2>1, StartDoes
<1>6. ASSUME NEW e \in Executors, SetCb(e) PROVE Holding'
  <2>1. ASSUME NEW c \in Coroutines, NEW b \in Buffers, SetsCb(e, c, b) PROVE Holding'
    BY <2>1 DEF SetsCb, Holding
  <2> QED  BY <1>6, <2>1, SetCbDoes
<1>7. ASSUME NEW e \in Executors, AddTimer(e) PROVE Holding'
  <2>1. ASSUME NEW c \in Coroutines, NEW b \in Buffers, NEW s \in 0 .. Slots - 1, Adds(e, c, b, s)
       PROVE Holding'
    BY <2>1 DEF Adds, Holding
  <2> QED  BY <1>7, <2>1, AddDoes
<1>8. ASSUME NEW c \in Coroutines, NEW w \in 1 .. Waits, Complete(c, w) PROVE Holding'
  <2>0. Completes(c)
    BY <1>8, CompleteDoes
  <2> QED  BY <2>0 DEF Completes, Holding
<1>9. ASSUME NEW e \in Executors, Fetch(e) PROVE Holding'
  <2>1. ASSUME NEW c \in Coroutines, NEW k \in {"first", "done", "timeout"}, NEW w \in 0 .. Waits, Fetched(e, c, k, w)
       PROVE Holding'
    BY <2>1 DEF Fetched, Holding
  <2> QED  BY <1>9, <2>1, FetchDoes
<1>10. ASSUME NEW e \in Executors, CanResume(e) PROVE Holding'
  <2>1. ASSUME NEW c \in Coroutines, Enters(e, c) PROVE Holding'
    BY <2>1 DEF Enters, Holding
  <2>2. ASSUME NEW c \in Coroutines, Prepares(e, c) PROVE Holding'
    BY <2>2 DEF Prepares, Holding
  <2>3. ASSUME NEW c \in Coroutines, Drops(e, c) PROVE Holding'
    BY <2>3 DEF Drops, Holding
  <2> QED  BY <1>10, <2>1, <2>2, <2>3, CanResumeDoes
<1>11. ASSUME NEW e \in Executors, Before(e) PROVE Holding'
  <2>1. ASSUME NEW c \in Coroutines, Cancels(e, c) PROVE Holding'
    <3>1. \A x \in Buffers : timer'[x].interval = timer[x].interval
      BY <2>1, CancelsKeeps
    <3>2. \A d \in Coroutines : buf[d] # None => buf[d] \in Buffers
      BY DEF TypeOK
    <3> QED  BY <2>1, <3>1, <3>2 DEF Cancels, Holding
  <2>2. ASSUME NEW c \in Coroutines, TimesOut(e, c) PROVE Holding'
    BY <2>2 DEF TimesOut, Holding
  <2> QED  BY <1>11, <2>1, <2>2, BeforeDoes
<1>12. ASSUME NEW e \in Executors, ResumeCo(e) PROVE Holding'
  <2>1. CASE Wrecks
    BY <2>1 DEF Wrecks, Holding
  <2>2. ASSUME NEW c \in Coroutines, Resumes(e, c) PROVE Holding'
    BY <2>2 DEF Resumes, Holding
  <2> QED  BY <1>12, <2>1, <2>2, ResumeCoDoes
<1>13. CASE Tick
  <2>0. Ticks
    BY <1>13, TickDoes
  <2> QED  BY <2>0 DEF Ticks, Holding
<1>14. CASE Fire
  <2>1. ASSUME NEW c \in Coroutines, Fires(c) PROVE Holding'
    BY <2>1 DEF Fires, Holding
  <2> QED  BY <1>14, <2>1, FireDoes
<1>15. CASE Release
  <2>1. ASSUME NEW c \in Coroutines, NEW b \in Buffers, Releases(c, b) PROVE Holding'
    BY <2>1 DEF Releases, Holding
  <2> QED  BY <1>15, <2>1, ReleaseDoes
<1>16. CASE UNCHANGED vars
  BY <1>16, StuttersSame DEF vars, wheelVars, poolVars, frameVars, waitVars, execVars, Holding
<1> QED
  BY <1>1, <1>2, <1>3, <1>4, <1>5, <1>6, <1>7, <1>8, <1>9, <1>10, <1>11, <1>12, <1>13, <1>14, <1>15, <1>16
  DEF Next, Yield, Wrap, Execute, Clock

\* A buffer that is released is its coroutine's last reference to it.
LEMMA KeepsFree == ASSUME Inv, FirstWaits', [Next]_vars PROVE Free'
<1> USE DEF Inv, Has, Goes, Leaves, Same
<1>1. ASSUME NEW e \in Executors, Call(e) PROVE Free'
  <2>1. ASSUME NEW c \in Coroutines, NEW i \in Intervals, Begins(e, c, i) PROVE Free'
    BY <2>1 DEF Begins, Free
  <2> QED  BY <1>1, <2>1, CallDoes
<1>2. ASSUME NEW e \in Executors, Alloc(e) PROVE Free'
  <2>1. ASSUME NEW c \in Coroutines, Granted(e, c) PROVE Free'
    BY <2>1 DEF Granted, Free
  <2>2. ASSUME NEW c \in Coroutines, Refused(e, c) PROVE Free'
    BY <2>2 DEF Refused, Free
  <2> QED  BY <1>2, <2>1, <2>2, AllocDoes
<1>3. ASSUME NEW e \in Executors, Pop(e) PROVE Free'
  <2>1. ASSUME NEW c \in Coroutines, NEW b \in Buffers, Popped(e, c, b) PROVE Free'
    BY <2>1 DEF Popped, Free
  <2> QED  BY <1>3, <2>1, PopDoes
<1>4. ASSUME NEW e \in Executors, Return(e) PROVE Free'
  <2>1. ASSUME NEW c \in Coroutines, Returned(e, c) PROVE Free'
    BY <2>1 DEF Returned, Free
  <2> QED  BY <1>4, <2>1, ReturnDoes
<1>5. ASSUME NEW e \in Executors, Start(e) PROVE Free'
  <2>1. ASSUME NEW c \in Coroutines, Started(e, c) PROVE Free'
    BY <2>1 DEF Started, Free
  <2> QED  BY <1>5, <2>1, StartDoes
<1>6. ASSUME NEW e \in Executors, SetCb(e) PROVE Free'
  <2>1. ASSUME NEW c \in Coroutines, NEW b \in Buffers, SetsCb(e, c, b) PROVE Free'
    BY <2>1 DEF SetsCb, Free
  <2> QED  BY <1>6, <2>1, SetCbDoes
<1>7. ASSUME NEW e \in Executors, AddTimer(e) PROVE Free'
  <2>1. ASSUME NEW c \in Coroutines, NEW b \in Buffers, NEW s \in 0 .. Slots - 1, Adds(e, c, b, s)
       PROVE Free'
    BY <2>1 DEF Adds, Free
  <2> QED  BY <1>7, <2>1, AddDoes
<1>8. ASSUME NEW c \in Coroutines, NEW w \in 1 .. Waits, Complete(c, w) PROVE Free'
  <2>0. Completes(c)
    BY <1>8, CompleteDoes
  <2> QED  BY <2>0 DEF Completes, Free
<1>9. ASSUME NEW e \in Executors, Fetch(e) PROVE Free'
  <2>1. ASSUME NEW c \in Coroutines, NEW k \in {"first", "done", "timeout"}, NEW w \in 0 .. Waits, Fetched(e, c, k, w)
       PROVE Free'
    BY <2>1 DEF Fetched, Free
  <2> QED  BY <1>9, <2>1, FetchDoes
<1>10. ASSUME NEW e \in Executors, CanResume(e) PROVE Free'
  <2>1. ASSUME NEW c \in Coroutines, Enters(e, c) PROVE Free'
    BY <2>1 DEF Enters, Free
  <2>2. ASSUME NEW c \in Coroutines, Prepares(e, c) PROVE Free'
    BY <2>2 DEF Prepares, Free
  <2>3. ASSUME NEW c \in Coroutines, Drops(e, c) PROVE Free'
    BY <2>3 DEF Drops, Free
  <2> QED  BY <1>10, <2>1, <2>2, <2>3, CanResumeDoes
<1>11. ASSUME NEW e \in Executors, Before(e) PROVE Free'
  <2>1. ASSUME NEW c \in Coroutines, Cancels(e, c) PROVE Free'
    BY <2>1 DEF Cancels, Free
  <2>2. ASSUME NEW c \in Coroutines, TimesOut(e, c) PROVE Free'
    BY <2>2 DEF TimesOut, Free
  <2> QED  BY <1>11, <2>1, <2>2, BeforeDoes
<1>12. ASSUME NEW e \in Executors, ResumeCo(e) PROVE Free'
  <2>1. CASE Wrecks
    BY <2>1 DEF Wrecks, Free
  <2>2. ASSUME NEW c \in Coroutines, Resumes(e, c) PROVE Free'
    BY <2>2 DEF Resumes, Free
  <2> QED  BY <1>12, <2>1, <2>2, ResumeCoDoes
<1>13. CASE Tick
  <2>0. Ticks
    BY <1>13, TickDoes
  <2> QED  BY <2>0 DEF Ticks, Free
<1>14. CASE Fire
  <2>1. ASSUME NEW c \in Coroutines, Fires(c) PROVE Free'
    BY <2>1 DEF Fires, Free
  <2> QED  BY <1>14, <2>1, FireDoes
<1>15. CASE Release
  <2>1. ASSUME NEW c \in Coroutines, NEW b \in Buffers, Releases(c, b) PROVE Free'
    <3>1. /\ pool' \in Seq(Buffers \cup {None}) /\ Len(pool') = Len(pool) + 1 /\ Len(pool) \in Nat
          /\ pool'[Len(pool) + 1] = b /\ \A i \in 1 .. Len(pool) : pool'[i] = pool[i]
      BY <2>1, PoolFacts DEF Releases
    <3>2. /\ \A d \in Coroutines \ {c} : buf'[d] = buf[d] /\ buf[d] # b
          /\ buf'[c] = None
      BY <2>1, Names DEF Releases, Holding, TypeOK
    <3>3. \A i \in 1 .. Len(pool) : pool[i] # b /\ pool[i] # None
      BY <2>1 DEF Releases, Free
    <3>4. \A i, j \in 1 .. Len(pool) + 1 : pool'[i] = pool'[j] => i = j
      BY <3>1, <3>3 DEF Free
    <3>5. \A i \in 1 .. Len(pool) + 1 : pool'[i] # None /\ \A d \in Coroutines : pool'[i] # buf'[d]
      BY <3>1, <3>2, <3>3, Names DEF Free
    <3> QED  BY <3>1, <3>4, <3>5 DEF Free
  <2> QED  BY <1>15, <2>1, ReleaseDoes
<1>16. CASE UNCHANGED vars
  BY <1>16, StuttersSame DEF vars, wheelVars, poolVars, frameVars, waitVars, execVars, Free
<1> QED
  BY <1>1, <1>2, <1>3, <1>4, <1>5, <1>6, <1>7, <1>8, <1>9, <1>10, <1>11, <1>12, <1>13, <1>14, <1>15, <1>16
  DEF Next, Yield, Wrap, Execute, Clock

\* A step that is none of the wheel's.
Quiet == /\ UNCHANGED <<wheel, cursor, due>> /\ (tickPc' = "idle" <=> tickPc = "idle")
         /\ \A c \in Coroutines : Kept(c)

\* What a step does to the wheel.
Moves ==
    \/ Quiet
    \/ Ticks
    \/ \E e \in Executors, c \in Coroutines, b \in Buffers, s \in 0 .. Slots - 1 : Adds(e, c, b, s)
    \/ \E c \in Coroutines, b \in Buffers : Releases(c, b)

\* Three actions move timers.
LEMMA TheMoves == ASSUME Inv, FirstWaits', [Next]_vars PROVE Moves
<1> USE DEF Inv, Has, Goes, Leaves, Same
<1>1. ASSUME NEW e \in Executors, Call(e) PROVE Moves
  <2>1. ASSUME NEW c \in Coroutines, NEW i \in Intervals, Begins(e, c, i) PROVE Moves
    <3>1. \A d \in Coroutines : Kept(d)
      BY <2>1, BeginsKeeps
    <3> QED  BY <2>1, <3>1 DEF Begins, Quiet, Moves
  <2> QED  BY <1>1, <2>1, CallDoes
<1>2. ASSUME NEW e \in Executors, Alloc(e) PROVE Moves
  <2>1. ASSUME NEW c \in Coroutines, Granted(e, c) PROVE Moves
    <3> QED  BY <2>1 DEF Granted, Kept, Quiet, Moves
  <2>2. ASSUME NEW c \in Coroutines, Refused(e, c) PROVE Moves
    <3> QED  BY <2>2 DEF Refused, Kept, Quiet, Moves
  <2> QED  BY <1>2, <2>1, <2>2, AllocDoes
<1>3. ASSUME NEW e \in Executors, Pop(e) PROVE Moves
  <2>1. ASSUME NEW c \in Coroutines, NEW b \in Buffers, Popped(e, c, b) PROVE Moves
    <3>1. \A d \in Coroutines : Kept(d)
      BY <2>1, PoppedKeeps
    <3> QED  BY <2>1, <3>1 DEF Popped, Quiet, Moves
  <2> QED  BY <1>3, <2>1, PopDoes
<1>4. ASSUME NEW e \in Executors, Return(e) PROVE Moves
  <2>1. ASSUME NEW c \in Coroutines, Returned(e, c) PROVE Moves
    <3> QED  BY <2>1 DEF Returned, Kept, Quiet, Moves
  <2> QED  BY <1>4, <2>1, ReturnDoes
<1>5. ASSUME NEW e \in Executors, Start(e) PROVE Moves
  <2>1. ASSUME NEW c \in Coroutines, Started(e, c) PROVE Moves
    <3> QED  BY <2>1 DEF Started, Kept, Quiet, Moves
  <2> QED  BY <1>5, <2>1, StartDoes
<1>6. ASSUME NEW e \in Executors, SetCb(e) PROVE Moves
  <2>1. ASSUME NEW c \in Coroutines, NEW b \in Buffers, SetsCb(e, c, b) PROVE Moves
    <3>1. \A d \in Coroutines : Kept(d)
      BY <2>1, SetsCbKeeps
    <3> QED  BY <2>1, <3>1 DEF SetsCb, Quiet, Moves
  <2> QED  BY <1>6, <2>1, SetCbDoes
<1>7. ASSUME NEW e \in Executors, AddTimer(e) PROVE Moves
  <2>1. ASSUME NEW c \in Coroutines, NEW b \in Buffers, NEW s \in 0 .. Slots - 1, Adds(e, c, b, s)
       PROVE Moves
    <3> QED  BY <2>1 DEF Moves
  <2> QED  BY <1>7, <2>1, AddDoes
<1>8. ASSUME NEW c \in Coroutines, NEW w \in 1 .. Waits, Complete(c, w) PROVE Moves
  <2>0. Completes(c)
    BY <1>8, CompleteDoes
  <2> QED  BY <2>0 DEF Completes, Kept, Quiet, Moves
<1>9. ASSUME NEW e \in Executors, Fetch(e) PROVE Moves
  <2>1. ASSUME NEW c \in Coroutines, NEW k \in {"first", "done", "timeout"}, NEW w \in 0 .. Waits, Fetched(e, c, k, w)
       PROVE Moves
    <3> QED  BY <2>1 DEF Fetched, Kept, Quiet, Moves
  <2> QED  BY <1>9, <2>1, FetchDoes
<1>10. ASSUME NEW e \in Executors, CanResume(e) PROVE Moves
  <2>1. ASSUME NEW c \in Coroutines, Enters(e, c) PROVE Moves
    <3> QED  BY <2>1 DEF Enters, Kept, Quiet, Moves
  <2>2. ASSUME NEW c \in Coroutines, Prepares(e, c) PROVE Moves
    <3> QED  BY <2>2 DEF Prepares, Kept, Quiet, Moves
  <2>3. ASSUME NEW c \in Coroutines, Drops(e, c) PROVE Moves
    <3> QED  BY <2>3 DEF Drops, Kept, Quiet, Moves
  <2> QED  BY <1>10, <2>1, <2>2, <2>3, CanResumeDoes
<1>11. ASSUME NEW e \in Executors, Before(e) PROVE Moves
  <2>1. ASSUME NEW c \in Coroutines, Cancels(e, c) PROVE Moves
    <3>1. \A d \in Coroutines : Kept(d)
      BY <2>1, CancelsKeeps
    <3> QED  BY <2>1, <3>1 DEF Cancels, Quiet, Moves
  <2>2. ASSUME NEW c \in Coroutines, TimesOut(e, c) PROVE Moves
    <3> QED  BY <2>2 DEF TimesOut, Kept, Quiet, Moves
  <2> QED  BY <1>11, <2>1, <2>2, BeforeDoes
<1>12. ASSUME NEW e \in Executors, ResumeCo(e) PROVE Moves
  <2>1. CASE Wrecks
    <3> QED  BY <2>1 DEF Wrecks, Kept, Quiet, Moves
  <2>2. ASSUME NEW c \in Coroutines, Resumes(e, c) PROVE Moves
    <3> QED  BY <2>2 DEF Resumes, Kept, Quiet, Moves
  <2> QED  BY <1>12, <2>1, <2>2, ResumeCoDoes
<1>13. CASE Tick
  <2>0. Ticks
    BY <1>13, TickDoes
  <2> QED  BY <2>0 DEF Moves
<1>14. CASE Fire
  <2>1. ASSUME NEW c \in Coroutines, Fires(c) PROVE Moves
    <3> QED  BY <2>1 DEF Fires, Kept, Quiet, Moves
  <2> QED  BY <1>14, <2>1, FireDoes
<1>15. CASE Release
  <2>1. ASSUME NEW c \in Coroutines, NEW b \in Buffers, Releases(c, b) PROVE Moves
    <3> QED  BY <2>1 DEF Moves
  <2> QED  BY <1>15, <2>1, ReleaseDoes
<1>16. CASE UNCHANGED vars
  BY <1>16 DEF vars, wheelVars, poolVars, frameVars, waitVars, Kept, Quiet, Moves
<1> QED
  BY <1>1, <1>2, <1>3, <1>4, <1>5, <1>6, <1>7, <1>8, <1>9, <1>10, <1>11, <1>12, <1>13, <1>14, <1>15, <1>16
  DEF Next, Yield, Wrap, Execute, Clock

\* A timer's slot, the cursor and the timer's age keep their relation.
LEMMA KeepsInRing == ASSUME Inv, FirstWaits', [Next]_vars PROVE InRing'
<1> USE DEF Has, Goes, Leaves, Same
<1>1. CASE Quiet
  <2> QED  BY <1>1, RingStays DEF Quiet
<1>2. ASSUME NEW e \in Executors, NEW c \in Coroutines, NEW b \in Buffers, NEW s \in 0 .. Slots - 1, Adds(e, c, b, s)
     PROVE InRing'
  <2>1. wheel[s] \in Seq(Timers) /\ Len(wheel[s]) \in Nat
    BY Entries, LenProperties DEF Inv
  <2>2. /\ Len(wheel'[s]) = Len(wheel[s]) + 1
        /\ wheel'[s][Len(wheel[s]) + 1] = [co |-> c, buffer |-> b, wait |-> 1]
        /\ \A i \in 1 .. Len(wheel[s]) : wheel'[s][i] = wheel[s][i]
        /\ \A x \in (0 .. Slots - 1) \ {s} : wheel'[x] = wheel[x]
    BY <1>2, <2>1 DEF Inv, Adds, TypeOK
  <2>3. buf[c] # None /\ age[c] = 0 /\ timer[b].callback = c /\ ~Turning(c)
    BY <1>2 DEF Inv, Adds, Has, Armed, ArmedFor, Arming
  <2>4. /\ interval[c] \in 0 .. Slots - 1
        /\ s = (cursor + (interval[c] - age[c])) % Slots /\ age[c] <= interval[c]
    BY <1>2, <2>3, Numbers DEF Adds, Inv
  <2>5. UNCHANGED <<buf, timer, age, interval, cursor>> /\ b = buf[c]
    BY <1>2 DEF Adds
  <2>6. ASSUME NEW i \in 1 .. Len(wheel[s])
        PROVE  wheel[s][i].co # c
    BY <2>3 DEF Turning
  <2>7. ASSUME NEW i \in 1 .. Len(wheel'[s])
        PROVE  /\ ItsNext(wheel'[s][i])
               /\ age'[wheel'[s][i].co] <= interval'[wheel'[s][i].co]
               /\ s = (cursor' + (interval'[wheel'[s][i].co] - age'[wheel'[s][i].co])) % Slots
               /\ \A j \in 1 .. Len(wheel'[s]) : wheel'[s][j].co = wheel'[s][i].co => i = j
    <3>1. CASE i \in 1 .. Len(wheel[s])
      <4>1. wheel'[s][i] = wheel[s][i] /\ wheel[s][i].co # c
        BY <2>2, <2>6, <3>1
      <4>2. \A j \in 1 .. Len(wheel'[s]) : wheel'[s][j].co = wheel[s][i].co => i = j
        <5>1. ASSUME NEW j \in 1 .. Len(wheel'[s]), wheel'[s][j].co = wheel[s][i].co PROVE i = j
          <6>1. j # Len(wheel[s]) + 1
            BY <2>2, <4>1, <5>1
          <6>2. j \in 1 .. Len(wheel[s])
            BY <2>1, <2>2, <6>1
          <6> QED  BY <2>2, <3>1, <5>1, <6>2 DEF Inv, InRing
        <5> QED  BY <5>1
      <4>3. /\ Its(wheel[s][i]) /\ age[wheel[s][i].co] <= interval[wheel[s][i].co]
            /\ s = (cursor + (interval[wheel[s][i].co] - age[wheel[s][i].co])) % Slots
        BY <3>1 DEF Inv, InRing
      <4>4. ItsNext(wheel[s][i])
        BY <2>5, <4>3 DEF Its, ItsNext
      <4> QED  BY <2>5, <4>1, <4>2, <4>3, <4>4
    <3>2. CASE i = Len(wheel[s]) + 1
      <4>1. PICK t : t = wheel'[s][i] /\ t = [co |-> c, buffer |-> b, wait |-> 1]
        BY <2>2, <3>2
      <4>2. ItsNext(t)
        BY <2>3, <2>5, <4>1 DEF ItsNext
      <4>3. \A j \in 1 .. Len(wheel'[s]) : wheel'[s][j].co = c => i = j
        BY <2>1, <2>2, <2>6, <3>2
      <4>4. t.co = c
        BY <4>1
      <4>5. age'[c] <= interval'[c] /\ s = (cursor' + (interval'[c] - age'[c])) % Slots
        BY <2>4, <2>5
      <4> QED  BY <4>1, <4>2, <4>3, <4>4, <4>5
    <3> QED  BY <2>1, <2>2, <3>1, <3>2
  <2>8. ASSUME NEW x \in (0 .. Slots - 1) \ {s}, NEW i \in 1 .. Len(wheel'[x])
        PROVE  /\ ItsNext(wheel'[x][i])
               /\ age'[wheel'[x][i].co] <= interval'[wheel'[x][i].co]
               /\ x = (cursor' + (interval'[wheel'[x][i].co] - age'[wheel'[x][i].co])) % Slots
               /\ \A j \in 1 .. Len(wheel'[x]) : wheel'[x][j].co = wheel'[x][i].co => i = j
    BY <2>2, <2>5 DEF Inv, InRing, Its, ItsNext
  <2> QED  BY <2>7, <2>8 DEF Inv, InRing, Its, ItsNext
<1>3. CASE Ticks
  <2>0. Slots \in Nat \ {0} /\ cursor \in 0 .. Slots - 1
    BY SlotsAssumption DEF Inv, TypeOK
  <2>1. /\ Len(wheel'[cursor]) = 0
        /\ \A x \in (0 .. Slots - 1) \ {cursor} : wheel'[x] = wheel[x]
    BY <1>3, SlotsAssumption DEF Inv, Ticks, TypeOK
  <2>2. cursor' = (cursor + 1) % Slots /\ UNCHANGED <<buf, timer, interval>>
    BY <1>3 DEF Ticks
  <2>3. ASSUME NEW x \in (0 .. Slots - 1) \ {cursor}, NEW j \in 1 .. Len(wheel[x]),
               NEW c \in Coroutines, c = wheel[x][j].co
        PROVE  age'[c] <= interval[c] /\ x = (cursor' + (interval[c] - age'[c])) % Slots
    <3>1. age'[c] = age[c] + 1
      BY <1>3, <2>3 DEF Ticks, Turning
    <3>2. age[c] \in Nat /\ interval[c] \in 0 .. Slots - 1
      BY Numbers DEF Inv
    <3>3. age[c] <= interval[c] /\ x = (cursor + (interval[c] - age[c])) % Slots
      BY <2>3 DEF Inv, InRing
    <3>4. x # cursor
      BY <2>3
    <3>5. PICK a \in Nat, i \in 0 .. Slots - 1 : a = age[c] /\ i = interval[c]
      BY <3>2
    <3>6. a <= i /\ x = (cursor + (i - a)) % Slots
      BY <3>3, <3>5
    <3>7. PICK k \in 0 .. Slots - 1 : k = i - a
      BY <2>0, <3>6
    <3>8. k # 0
      <4>1. x = (cursor + k) % Slots
        BY <3>6, <3>7
      <4>2. k = 0 => (cursor + k) % Slots = cursor
        BY <2>0, OneSlotOn
      <4> QED  BY <3>4, <4>1, <4>2
    <3>9. k \in 1 .. Slots - 1
      BY <3>8
    <3>10. (cursor' + (k - 1)) % Slots = (cursor + k) % Slots
      BY <2>0, <2>2, <3>9, SameSlot
    <3>11. k - 1 = i - (a + 1) /\ a + 1 <= i
      BY <3>7, <3>9
    <3> QED  BY <3>1, <3>5, <3>6, <3>7, <3>10, <3>11
  <2>4. ASSUME NEW x \in 0 .. Slots - 1, NEW i \in 1 .. Len(wheel'[x])
        PROVE  /\ ItsNext(wheel'[x][i])
               /\ age'[wheel'[x][i].co] <= interval'[wheel'[x][i].co]
               /\ x = (cursor' + (interval'[wheel'[x][i].co] - age'[wheel'[x][i].co])) % Slots
               /\ \A j \in 1 .. Len(wheel'[x]) : wheel'[x][j].co = wheel'[x][i].co => i = j
    <3>1. x # cursor /\ wheel'[x] = wheel[x] /\ i \in 1 .. Len(wheel[x])
      BY <2>0, <2>1, <2>4
    <3>2. PICK c \in Coroutines : c = wheel[x][i].co
      BY <3>1, Entries DEF Inv
    <3>3. age'[c] <= interval[c] /\ x = (cursor' + (interval[c] - age'[c])) % Slots
      BY <2>3, <3>1, <3>2
    <3>4. Its(wheel[x][i]) /\ \A j \in 1 .. Len(wheel[x]) : wheel[x][j].co = c => i = j
      BY <3>1, <3>2 DEF Inv, InRing
    <3>5. ItsNext(wheel[x][i])
      BY <2>2, <3>4 DEF Its, ItsNext
    <3>6. PICK t : t = wheel[x][i] /\ t = wheel'[x][i]
      BY <3>1
    <3>7. t.co = c /\ ItsNext(t)
      BY <3>2, <3>5, <3>6
    <3>8. \A j \in 1 .. Len(wheel'[x]) : wheel'[x][j].co = c => i = j
      BY <3>1, <3>4
    <3>9. age'[c] <= interval'[c] /\ x = (cursor' + (interval'[c] - age'[c])) % Slots
      BY <2>2, <3>3
    <3> QED  BY <3>6, <3>7, <3>8, <3>9
  <2> QED  BY <2>4 DEF Inv, InRing, Its, ItsNext
<1>4. ASSUME NEW c \in Coroutines, NEW b \in Buffers, Releases(c, b) PROVE InRing'
  <2>1. age[c] = interval[c] + 1
    BY <1>4, FirstDue DEF Releases
  <2>2. ASSUME NEW d \in Coroutines, Turning(d) PROVE d # c
    <3>1. age[d] <= interval[d]
      BY <2>2 DEF Inv, Turning, InRing
    <3> QED  BY <2>1, <3>1, Numbers DEF Inv
  <2>3. \A d \in Coroutines : Turning(d) => Kept(d)
    BY <1>4, <2>2 DEF Inv, Releases, Kept, TypeOK
  <2> QED  BY <1>4, <2>3, RingStays DEF Releases
<1> QED
  BY <1>1, <1>2, <1>3, <1>4, TheMoves DEF Moves

\* What a tick takes out has run its time.
LEMMA KeepsInDue == ASSUME Inv, FirstWaits', [Next]_vars PROVE InDue'
<1> USE DEF Has, Goes, Leaves, Same
<1>1. CASE Quiet
  <2> QED  BY <1>1, DueStays DEF Quiet
<1>2. ASSUME NEW e \in Executors, NEW c \in Coroutines, NEW b \in Buffers, NEW s \in 0 .. Slots - 1, Adds(e, c, b, s)
     PROVE InDue'
  <2>1. \A d \in Coroutines : Kept(d)
    BY <1>2 DEF Adds, Kept
  <2> QED  BY <1>2, <2>1, DueStays DEF Adds
<1>3. CASE Ticks
  <2>1. /\ Slots \in Nat \ {0} /\ cursor \in 0 .. Slots - 1
        /\ due' = wheel[cursor] /\ wheel[cursor] \in Seq(Timers)
    BY <1>3, SlotsAssumption, Entries DEF Inv, Ticks, TypeOK
  <2>2. UNCHANGED <<buf, timer, interval>> /\ (tickPc' = "idle" <=> due' = <<>>)
    BY <1>3 DEF Ticks
  <2>3. ASSUME NEW j \in 1 .. Len(wheel[cursor]), NEW c \in Coroutines, c = wheel[cursor][j].co
        PROVE  age'[c] = interval[c] + 1
    <3>1. age'[c] = age[c] + 1
      BY <1>3, <2>1, <2>3 DEF Ticks, Turning
    <3>2. age[c] \in Nat /\ interval[c] \in 0 .. Slots - 1
      BY Numbers DEF Inv
    <3>3. age[c] <= interval[c] /\ cursor = (cursor + (interval[c] - age[c])) % Slots
      BY <2>1, <2>3 DEF Inv, InRing
    <3>4. PICK a \in Nat, i \in 0 .. Slots - 1 : a = age[c] /\ i = interval[c]
      BY <3>2
    <3>5. a <= i /\ (cursor + (i - a)) % Slots = cursor
      BY <3>3, <3>4
    <3>6. PICK k \in 0 .. Slots - 1 : k = i - a
      BY <2>1, <3>5
    <3>7. k = 0
      BY <2>1, <3>5, <3>6, OneSlotOn
    <3> QED  BY <3>1, <3>4, <3>6, <3>7
  <2>4. ASSUME NEW i \in 1 .. Len(due')
        PROVE  /\ ItsNext(due'[i]) /\ age'[due'[i].co] = interval'[due'[i].co] + 1
               /\ \A j \in 1 .. Len(due') : due'[j].co = due'[i].co => i = j
    <3>1. PICK c \in Coroutines : c = wheel[cursor][i].co
      BY <2>1, Entries DEF Inv
    <3>2. Its(wheel[cursor][i]) /\ \A j \in 1 .. Len(wheel[cursor]) : wheel[cursor][j].co = c => i = j
      BY <2>1, <3>1 DEF Inv, InRing
    <3> QED  BY <2>1, <2>2, <2>3, <3>1, <3>2 DEF Its, ItsNext
  <2> QED  BY <2>2, <2>4 DEF Inv, InDue, Its, ItsNext
<1>4. ASSUME NEW c \in Coroutines, NEW b \in Buffers, Releases(c, b) PROVE InDue'
  <2> QED  BY <1>4 DEF Inv, Releases, InDue, Its
<1> QED
  BY <1>1, <1>2, <1>3, <1>4, TheMoves DEF Moves

\* An executor that goes on with its timer still has it to put in the wheel.
LEMMA ArmedOn ==
  ASSUME Inv, NEW f \in Executors, NEW d \in Coroutines, Arming(f), Co(f) = d,
         pc'[f] \in {"start", "setcb", "add"}, Same(f),
         buf'[d] = buf[d], age'[d] = age[d],
         pc'[f] = "add" => timer'[buf[d]].callback = d,
         \A g \in Executors : pc'[g] \in {"start", "setcb", "add"} => Arming(g) /\ Same(g),
         Turning(d)' => Turning(d), Falling(d)' => Falling(d) \/ Turning(d)
  PROVE  ArmedFor(f, Co(f))'
<1>1. ArmedFor(f, d)
  BY DEF Inv, Armed
<1>2. buf'[d] # None /\ age'[d] = 0 /\ Wait(f)' = 1 /\ (pc'[f] = "add" => timer'[buf'[d]].callback = d)
  BY <1>1 DEF ArmedFor, Same
<1>3. ASSUME NEW g \in Executors, Arming(g)', Co(g)' = d PROVE f = g
  <2>1. Arming(g) /\ Co(g) = d
    BY <1>3 DEF Same, Arming
  <2> QED  BY <1>1, <2>1 DEF ArmedFor
<1>4. ~Turning(d)' /\ ~Falling(d)'
  BY <1>1 DEF ArmedFor
<1>5. ArmedFor(f, d)'
  BY <1>2, <1>3, <1>4 DEF ArmedFor
<1> QED  BY <1>5 DEF ArmedFor, Same

\* A coroutine's timer is put in the wheel once.
LEMMA KeepsArmed == ASSUME Inv, FirstWaits', [Next]_vars PROVE Armed'
<1> USE DEF Inv, Has, Goes, Leaves, Same
<1>1. ASSUME NEW e \in Executors, Call(e) PROVE Armed'
  <2>1. ASSUME NEW c \in Coroutines, NEW i \in Intervals, Begins(e, c, i) PROVE Armed'
    <3>1. \A d \in Coroutines : Kept(d)
      BY <2>1, BeginsKeeps
    <3>2. \A f \in Executors : pc'[f] \in {"start", "setcb", "add"} =>
            pc[f] \in {"start", "setcb", "add"} /\ Same(f) /\ (pc'[f] = "add" => pc[f] = "add")
      BY <2>1 DEF Begins, TypeOK
    <3> QED  BY <2>1, <3>1, <3>2, ArmedStays DEF Begins
  <2> QED  BY <1>1, <2>1, CallDoes
<1>2. ASSUME NEW e \in Executors, Alloc(e) PROVE Armed'
  <2>1. ASSUME NEW c \in Coroutines, Granted(e, c) PROVE Armed'
    <3>1. \A d \in Coroutines : Kept(d)
      BY <2>1 DEF Granted, Kept
    <3>2. \A f \in Executors : pc'[f] \in {"start", "setcb", "add"} =>
            pc[f] \in {"start", "setcb", "add"} /\ Same(f) /\ (pc'[f] = "add" => pc[f] = "add")
      BY <2>1 DEF Granted, TypeOK
    <3> QED  BY <2>1, <3>1, <3>2, ArmedStays DEF Granted
  <2>2. ASSUME NEW c \in Coroutines, Refused(e, c) PROVE Armed'
    <3>1. \A d \in Coroutines : Kept(d)
      BY <2>2 DEF Refused, Kept
    <3>2. \A f \in Executors : pc'[f] \in {"start", "setcb", "add"} =>
            pc[f] \in {"start", "setcb", "add"} /\ Same(f) /\ (pc'[f] = "add" => pc[f] = "add")
      BY <2>2 DEF Refused, TypeOK
    <3> QED  BY <2>2, <3>1, <3>2, ArmedStays DEF Refused
  <2> QED  BY <1>2, <2>1, <2>2, AllocDoes
<1>3. ASSUME NEW e \in Executors, Pop(e) PROVE Armed'
  <2>1. ASSUME NEW c \in Coroutines, NEW b \in Buffers, Popped(e, c, b) PROVE Armed'
    <3>1. /\ \A d \in Coroutines : Kept(d)
          /\ buf[c] = None /\ age[c] = 0
      BY <2>1, PoppedKeeps
    <3>2. /\ pc'[e] = "start" /\ \A f \in Executors \ {e} : pc'[f] = pc[f]
          /\ \A f \in Executors : Same(f)
          /\ buf'[c] = b /\ UNCHANGED <<wheel, due, age>> /\ Co(e) = c /\ pc[e] = "pop"
      BY <2>1 DEF Popped, Has, TypeOK
    <3>3. ASSUME NEW f \in Executors \ {e}, Arming(f)
          PROVE  Co(f) \in Coroutines /\ Co(f) # c
      <4>1. Co(f) \in Coroutines
        BY <3>3, TaskParts DEF Frames, Arming
      <4>2. buf[Co(f)] # None
        BY <3>3 DEF Armed, ArmedFor
      <4> QED  BY <3>1, <4>1, <4>2
    <3>4. ASSUME NEW f \in Executors \ {e}, Arming(f)' PROVE ArmedFor(f, Co(f))'
      <4>1. Arming(f) /\ Same(f) /\ (pc'[f] = "add" => pc[f] = "add")
        BY <3>2, <3>4 DEF Arming
      <4>2. PICK d \in Coroutines : d = Co(f) /\ d # c
        BY <3>3, <4>1
      <4>3. ArmedFor(f, d)
        BY <4>1, <4>2 DEF Armed
      <4>4. buf'[d] # None /\ age'[d] = 0 /\ Wait(f)' = 1 /\ (pc'[f] = "add" => timer'[buf'[d]].callback = d)
        BY <3>1, <4>1, <4>3 DEF ArmedFor, Kept, Same
      <4>5. ASSUME NEW g \in Executors, Arming(g)', Co(g)' = d PROVE f = g
        <5>1. Co(g) = d
          BY <3>2, <4>5 DEF Same
        <5>2. g # e
          BY <3>2, <4>2, <5>1
        <5>3. Arming(g)
          BY <3>2, <4>5, <5>2 DEF Arming
        <5> QED  BY <4>3, <5>1, <5>3 DEF ArmedFor
      <4>6. ~Turning(d)' /\ ~Falling(d)'
        BY <3>2, <4>3 DEF ArmedFor, Turning, Falling
      <4>7. ArmedFor(f, d)'
        BY <4>4, <4>5, <4>6 DEF ArmedFor
      <4> QED  BY <4>1, <4>2, <4>7 DEF ArmedFor, Same
    <3>5. ArmedFor(e, c)'
      <4>1. buf'[c] # None /\ age'[c] = 0 /\ Wait(e)' = 1 /\ pc'[e] = "start"
        <5>1. Wait(e) = 1
          BY <3>2 DEF Frames, Calling
        <5> QED  BY <3>1, <3>2, <5>1, Names DEF Same
      <4>2. ASSUME NEW g \in Executors, Arming(g)', Co(g)' = c PROVE e = g
        <5>1. Co(g) = c
          BY <3>2, <4>2 DEF Same
        <5>2. ASSUME g # e PROVE FALSE
          <6>1. Arming(g)
            BY <3>2, <4>2, <5>2 DEF Arming
          <6> QED  BY <3>3, <5>1, <5>2, <6>1
        <5> QED  BY <5>2
      <4>3. ~Turning(c) /\ ~Falling(c)
        BY <3>1 DEF Turning, Falling, InRing, InDue, Its
      <4>4. ~Turning(c)' /\ ~Falling(c)'
        BY <3>2, <4>3 DEF Turning, Falling
      <4> QED  BY <4>1, <4>2, <4>4 DEF ArmedFor
    <3>6. Co(e)' = c
      BY <3>2 DEF Same
    <3>7. ArmedFor(e, Co(e))'
      BY <3>5, <3>6 DEF ArmedFor
    <3> QED  BY <3>4, <3>7 DEF Armed
  <2> QED  BY <1>3, <2>1, PopDoes
<1>4. ASSUME NEW e \in Executors, Return(e) PROVE Armed'
  <2>1. ASSUME NEW c \in Coroutines, Returned(e, c) PROVE Armed'
    <3>1. \A d \in Coroutines : Kept(d)
      BY <2>1 DEF Returned, Kept
    <3>2. \A f \in Executors : pc'[f] \in {"start", "setcb", "add"} =>
            pc[f] \in {"start", "setcb", "add"} /\ Same(f) /\ (pc'[f] = "add" => pc[f] = "add")
      BY <2>1 DEF Returned, TypeOK
    <3> QED  BY <2>1, <3>1, <3>2, ArmedStays DEF Returned
  <2> QED  BY <1>4, <2>1, ReturnDoes
<1>5. ASSUME NEW e \in Executors, Start(e) PROVE Armed'
  <2>1. ASSUME NEW c \in Coroutines, Started(e, c) PROVE Armed'
    <3>1. \A d \in Coroutines : Kept(d)
      BY <2>1 DEF Started, Kept
    <3>2. \A f \in Executors : pc'[f] \in {"start", "setcb", "add"} =>
            pc[f] \in {"start", "setcb", "add"} /\ Same(f) /\ (pc'[f] = "add" => pc[f] = "add")
      BY <2>1 DEF Started, TypeOK
    <3> QED  BY <2>1, <3>1, <3>2, ArmedStays DEF Started
  <2> QED  BY <1>5, <2>1, StartDoes
<1>6. ASSUME NEW e \in Executors, SetCb(e) PROVE Armed'
  <2>1. ASSUME NEW c \in Coroutines, NEW b \in Buffers, SetsCb(e, c, b) PROVE Armed'
    <3>1. \A g \in Executors : pc'[g] \in {"start", "setcb", "add"} => Arming(g) /\ Same(g)
      BY <2>1 DEF SetsCb, Has, Arming, TypeOK
    <3>2. ASSUME NEW f \in Executors, Arming(f)' PROVE ArmedFor(f, Co(f))'
      <4>1. Arming(f) /\ Same(f) /\ pc'[f] \in {"start", "setcb", "add"}
        BY <3>1, <3>2 DEF Arming
      <4>2. PICK d \in Coroutines : d = Co(f)
        BY <4>1, TaskParts DEF Frames, Arming
      <4>3. ArmedFor(f, d)
        BY <4>1, <4>2 DEF Armed
      <4>4. buf'[d] = buf[d] /\ age'[d] = age[d] /\ UNCHANGED <<wheel, due>>
        BY <2>1 DEF SetsCb
      <4>5. ASSUME pc'[f] = "add" PROVE timer'[buf[d]].callback = d
        <5>1. CASE f = e
          <6>1. timer'[b].callback = c
            BY <2>1, SetsCbKeeps
          <6>2. b = buf[c] /\ Co(e) = c
            BY <2>1 DEF SetsCb, Has
          <6> QED  BY <4>2, <5>1, <6>1, <6>2
        <5>2. CASE f # e
          <6>1. pc[f] = "add"
            BY <2>1, <4>5, <5>2 DEF SetsCb, TypeOK
          <6> QED  BY <2>1, <4>3, <6>1, SetsCbKeeps DEF ArmedFor, Kept
        <5> QED  BY <5>1, <5>2
      <4>6. (Turning(d)' => Turning(d)) /\ (Falling(d)' => Falling(d))
        BY <4>4 DEF Turning, Falling
      <4> QED  BY <3>1, <4>1, <4>2, <4>4, <4>5, <4>6, ArmedOn
    <3> QED  BY <3>2 DEF Armed
  <2> QED  BY <1>6, <2>1, SetCbDoes
<1>7. ASSUME NEW e \in Executors, AddTimer(e) PROVE Armed'
  <2>1. ASSUME NEW c \in Coroutines, NEW b \in Buffers, NEW s \in 0 .. Slots - 1, Adds(e, c, b, s)
       PROVE Armed'
    <3>1. \A g \in Executors : pc'[g] \in {"start", "setcb", "add"} => Arming(g) /\ Same(g)
      BY <2>1 DEF Adds, Has, Arming, TypeOK
    <3>2. ASSUME NEW f \in Executors, Arming(f)' PROVE ArmedFor(f, Co(f))'
      <4>1. Arming(f) /\ Same(f) /\ pc'[f] \in {"start", "setcb", "add"}
        BY <3>1, <3>2 DEF Arming
      <4>2. PICK d \in Coroutines : d = Co(f)
        BY <4>1, TaskParts DEF Frames, Arming
      <4>3. ArmedFor(f, d)
        BY <4>1, <4>2 DEF Armed
      <4>4. /\ buf'[d] = buf[d] /\ age'[d] = age[d] /\ UNCHANGED <<due, timer>>
            /\ (pc'[f] = "add" => pc[f] = "add")
        BY <2>1, <4>1 DEF Adds, TypeOK
      <4>5. d # c
        <5>1. f # e
          BY <2>1, <4>1 DEF Adds, Leaves, TypeOK
        <5>2. ArmedFor(e, c)
          BY <2>1 DEF Adds, Has, Arming, Armed
        <5> QED  BY <4>1, <4>2, <5>1, <5>2 DEF ArmedFor
      <4>6. Turning(d)' => Turning(d)
        <5>1. wheel[s] \in Seq(Timers) /\ Len(wheel[s]) \in Nat
          BY Entries, LenProperties
        <5>2. /\ Len(wheel'[s]) = Len(wheel[s]) + 1
              /\ wheel'[s][Len(wheel[s]) + 1].co = c
              /\ \A i \in 1 .. Len(wheel[s]) : wheel'[s][i] = wheel[s][i]
              /\ \A x \in (0 .. Slots - 1) \ {s} : wheel'[x] = wheel[x]
          BY <2>1, <5>1 DEF Adds, TypeOK
        <5>3. \A i \in 1 .. Len(wheel'[s]) : wheel'[s][i].co = d => i \in 1 .. Len(wheel[s])
          BY <4>5, <5>1, <5>2
        <5> QED  BY <5>2, <5>3 DEF Turning
      <4>7. Falling(d)' => Falling(d)
        BY <4>4 DEF Falling
      <4> QED  BY <3>1, <4>1, <4>2, <4>3, <4>4, <4>6, <4>7, ArmedOn DEF ArmedFor
    <3> QED  BY <3>2 DEF Armed
  <2> QED  BY <1>7, <2>1, AddDoes
<1>8. ASSUME NEW c \in Coroutines, NEW w \in 1 .. Waits, Complete(c, w) PROVE Armed'
  <2>0. Completes(c)
    BY <1>8, CompleteDoes
  <2>1. \A d \in Coroutines : Kept(d)
      BY <2>0 DEF Completes, Kept
  <2>2. \A f \in Executors : pc'[f] \in {"start", "setcb", "add"} =>
            pc[f] \in {"start", "setcb", "add"} /\ Same(f) /\ (pc'[f] = "add" => pc[f] = "add")
      BY <2>0 DEF Completes, TypeOK
  <2> QED  BY <2>0, <2>1, <2>2, ArmedStays DEF Completes
<1>9. ASSUME NEW e \in Executors, Fetch(e) PROVE Armed'
  <2>1. ASSUME NEW c \in Coroutines, NEW k \in {"first", "done", "timeout"}, NEW w \in 0 .. Waits, Fetched(e, c, k, w)
       PROVE Armed'
    <3>1. \A d \in Coroutines : Kept(d)
      BY <2>1 DEF Fetched, Kept
    <3>2. \A f \in Executors : pc'[f] \in {"start", "setcb", "add"} =>
            pc[f] \in {"start", "setcb", "add"} /\ Same(f) /\ (pc'[f] = "add" => pc[f] = "add")
      BY <2>1 DEF Fetched, TypeOK
    <3> QED  BY <2>1, <3>1, <3>2, ArmedStays DEF Fetched
  <2> QED  BY <1>9, <2>1, FetchDoes
<1>10. ASSUME NEW e \in Executors, CanResume(e) PROVE Armed'
  <2>1. ASSUME NEW c \in Coroutines, Enters(e, c) PROVE Armed'
    <3>1. \A d \in Coroutines : Kept(d)
      BY <2>1 DEF Enters, Kept
    <3>2. \A f \in Executors : pc'[f] \in {"start", "setcb", "add"} =>
            pc[f] \in {"start", "setcb", "add"} /\ Same(f) /\ (pc'[f] = "add" => pc[f] = "add")
      BY <2>1 DEF Enters, TypeOK
    <3> QED  BY <2>1, <3>1, <3>2, ArmedStays DEF Enters
  <2>2. ASSUME NEW c \in Coroutines, Prepares(e, c) PROVE Armed'
    <3>1. \A d \in Coroutines : Kept(d)
      BY <2>2 DEF Prepares, Kept
    <3>2. \A f \in Executors : pc'[f] \in {"start", "setcb", "add"} =>
            pc[f] \in {"start", "setcb", "add"} /\ Same(f) /\ (pc'[f] = "add" => pc[f] = "add")
      BY <2>2 DEF Prepares, TypeOK
    <3> QED  BY <2>2, <3>1, <3>2, ArmedStays DEF Prepares
  <2>3. ASSUME NEW c \in Coroutines, Drops(e, c) PROVE Armed'
    <3>1. \A d \in Coroutines : Kept(d)
      BY <2>3 DEF Drops, Kept
    <3>2. \A f \in Executors : pc'[f] \in {"start", "setcb", "add"} =>
            pc[f] \in {"start", "setcb", "add"} /\ Same(f) /\ (pc'[f] = "add" => pc[f] = "add")
      BY <2>3 DEF Drops, TypeOK
    <3> QED  BY <2>3, <3>1, <3>2, ArmedStays DEF Drops
  <2> QED  BY <1>10, <2>1, <2>2, <2>3, CanResumeDoes
<1>11. ASSUME NEW e \in Executors, Before(e) PROVE Armed'
  <2>1. ASSUME NEW c \in Coroutines, Cancels(e, c) PROVE Armed'
    <3>1. \A d \in Coroutines : Kept(d)
      BY <2>1, CancelsKeeps
    <3>2. \A f \in Executors : pc'[f] \in {"start", "setcb", "add"} =>
            pc[f] \in {"start", "setcb", "add"} /\ Same(f) /\ (pc'[f] = "add" => pc[f] = "add")
      BY <2>1 DEF Cancels, TypeOK
    <3> QED  BY <2>1, <3>1, <3>2, ArmedStays DEF Cancels
  <2>2. ASSUME NEW c \in Coroutines, TimesOut(e, c) PROVE Armed'
    <3>1. \A d \in Coroutines : Kept(d)
      BY <2>2 DEF TimesOut, Kept
    <3>2. \A f \in Executors : pc'[f] \in {"start", "setcb", "add"} =>
            pc[f] \in {"start", "setcb", "add"} /\ Same(f) /\ (pc'[f] = "add" => pc[f] = "add")
      BY <2>2 DEF TimesOut, TypeOK
    <3> QED  BY <2>2, <3>1, <3>2, ArmedStays DEF TimesOut
  <2> QED  BY <1>11, <2>1, <2>2, BeforeDoes
<1>12. ASSUME NEW e \in Executors, ResumeCo(e) PROVE Armed'
  <2>1. CASE Wrecks
    <3>1. \A d \in Coroutines : Kept(d)
      BY <2>1 DEF Wrecks, Kept
    <3>2. \A f \in Executors : pc'[f] \in {"start", "setcb", "add"} =>
            pc[f] \in {"start", "setcb", "add"} /\ Same(f) /\ (pc'[f] = "add" => pc[f] = "add")
      BY <2>1 DEF Wrecks, TypeOK
    <3> QED  BY <2>1, <3>1, <3>2, ArmedStays DEF Wrecks
  <2>2. ASSUME NEW c \in Coroutines, Resumes(e, c) PROVE Armed'
    <3>1. \A d \in Coroutines : Kept(d)
      BY <2>2 DEF Resumes, Kept
    <3>2. \A f \in Executors : pc'[f] \in {"start", "setcb", "add"} =>
            pc[f] \in {"start", "setcb", "add"} /\ Same(f) /\ (pc'[f] = "add" => pc[f] = "add")
      BY <2>2 DEF Resumes, TypeOK
    <3> QED  BY <2>2, <3>1, <3>2, ArmedStays DEF Resumes
  <2> QED  BY <1>12, <2>1, <2>2, ResumeCoDoes
<1>13. CASE Tick
  <2>0. Ticks
    BY <1>13, TickDoes
  <2>1. \A g \in Executors : pc'[g] \in {"start", "setcb", "add"} => Arming(g) /\ Same(g)
      BY <2>0 DEF Ticks, Has, Arming, TypeOK
  <2>2. ASSUME NEW f \in Executors, Arming(f)' PROVE ArmedFor(f, Co(f))'
      <3>1. Arming(f) /\ Same(f) /\ pc'[f] \in {"start", "setcb", "add"}
        BY <2>1, <2>2 DEF Arming
      <3>2. PICK d \in Coroutines : d = Co(f)
        BY <3>1, TaskParts DEF Frames, Arming
      <3>3. ArmedFor(f, d)
        BY <3>1, <3>2 DEF Armed
      <3>4. buf'[d] = buf[d] /\ UNCHANGED <<timer, pc>> /\ age'[d] = age[d]
        BY <2>0, <3>3 DEF Ticks, ArmedFor
      <3>5. Turning(d)' => Turning(d)
        <5>1. \A x \in 0 .. Slots - 1 : Len(wheel'[x]) = 0 \/ wheel'[x] = wheel[x]
          BY <2>0 DEF Ticks, TypeOK
        <5> QED  BY <5>1 DEF Turning
      <3>6. Falling(d)' => Turning(d)
        BY <2>0 DEF Ticks, Falling, Turning, TypeOK
      <3> QED  BY <2>1, <3>1, <3>2, <3>3, <3>4, <3>5, <3>6, ArmedOn DEF ArmedFor
  <2> QED  BY <2>2 DEF Armed
<1>14. CASE Fire
  <2>1. ASSUME NEW c \in Coroutines, Fires(c) PROVE Armed'
    <3>1. \A d \in Coroutines : Kept(d)
      BY <2>1 DEF Fires, Kept
    <3>2. \A f \in Executors : pc'[f] \in {"start", "setcb", "add"} =>
            pc[f] \in {"start", "setcb", "add"} /\ Same(f) /\ (pc'[f] = "add" => pc[f] = "add")
      BY <2>1 DEF Fires, TypeOK
    <3> QED  BY <2>1, <3>1, <3>2, ArmedStays DEF Fires
  <2> QED  BY <1>14, <2>1, FireDoes
<1>15. CASE Release
  <2>1. ASSUME NEW c \in Coroutines, NEW b \in Buffers, Releases(c, b) PROVE Armed'
    <3>1. \A g \in Executors : pc'[g] \in {"start", "setcb", "add"} => Arming(g) /\ Same(g)
      BY <2>1 DEF Releases, Has, Arming, TypeOK
    <3>2. ASSUME NEW f \in Executors, Arming(f)' PROVE ArmedFor(f, Co(f))'
      <4>1. Arming(f) /\ Same(f) /\ pc'[f] \in {"start", "setcb", "add"}
        BY <3>1, <3>2 DEF Arming
      <4>2. PICK d \in Coroutines : d = Co(f)
        BY <4>1, TaskParts DEF Frames, Arming
      <4>3. ArmedFor(f, d)
        BY <4>1, <4>2 DEF Armed
      <4>4. Falling(c)
        BY <2>1, FirstDue DEF Releases, Falling, InDue
      <4>5. d # c
        BY <4>3, <4>4 DEF ArmedFor
      <4>6. buf'[d] = buf[d] /\ UNCHANGED <<timer, pc, age, wheel>>
        BY <2>1, <4>5 DEF Releases, TypeOK
      <4>7. Turning(d)' => Turning(d)
        BY <4>6 DEF Turning
      <4>8. Falling(d)' => Falling(d)
        <5>1. due \in Seq(Timers) /\ due # <<>> /\ due' = Tail(due)
          BY <2>1, DueEntries DEF Releases
        <5>2. \A i \in 1 .. Len(due') : i + 1 \in 1 .. Len(due) /\ due'[i] = due[i + 1]
          BY <5>1
        <5> QED  BY <5>2 DEF Falling
      <4> QED  BY <3>1, <4>1, <4>2, <4>3, <4>6, <4>7, <4>8, ArmedOn DEF ArmedFor
    <3> QED  BY <3>2 DEF Armed
  <2> QED  BY <1>15, <2>1, ReleaseDoes
<1>16. CASE UNCHANGED vars
  <2>1. \A d \in Coroutines : Kept(d)
    BY <1>16 DEF vars, frameVars, waitVars, poolVars, Kept
  <2>2. \A f \in Executors : pc'[f] \in {"start", "setcb", "add"} =>
          pc[f] \in {"start", "setcb", "add"} /\ Same(f) /\ (pc'[f] = "add" => pc[f] = "add")
    BY <1>16, StuttersSame DEF vars, execVars
  <2> QED  BY <1>16, <2>1, <2>2, ArmedStays DEF vars, wheelVars
<1> QED
  BY <1>1, <1>2, <1>3, <1>4, <1>5, <1>6, <1>7, <1>8, <1>9, <1>10, <1>11, <1>12, <1>13, <1>14, <1>15, <1>16
  DEF Next, Yield, Wrap, Execute, Clock

LEMMA Bounds == 1 \in 0 .. Waits /\ 1 \in 1 .. Waits /\ Cardinality(Buffers) \in Nat
  BY BoundsAssumption, FS_CardinalityType

\* A pool in which every buffer is once has no more of them than there are.
LEMMA PoolFits ==
  ASSUME NEW p \in Seq(Buffers \cup {None}),
         \A i \in 1 .. Len(p) : p[i] # None /\ \A j \in 1 .. Len(p) : p[i] = p[j] => i = j
  PROVE  Len(p) <= Cardinality(Buffers)
<1>1. Len(p) \in Nat /\ DOMAIN p = 1 .. Len(p)
  BY LenProperties
<1>2. \A i \in 1 .. Len(p) : p[i] \in Buffers
  BY ElementOfSeq
<1> DEFINE f == [i \in 1 .. Len(p) |-> p[i]]
<1>3. f \in Injection(1 .. Len(p), Buffers)
  BY <1>2 DEF Injection, IsInjective
<1>4. IsFiniteSet(1 .. Len(p)) /\ Cardinality(1 .. Len(p)) = Len(p)
  BY <1>1, FS_Interval
<1>5. Cardinality(1 .. Len(p)) <= Cardinality(Buffers)
  BY <1>3, BoundsAssumption, FS_Injection DEF ExistsInjection
<1> QED  BY <1>4, <1>5

\* Only a timer of a wait is lost.
LEMMA LostStays ==
  ASSUME Inv, FirstWaits', [Next]_vars PROVE lost' \subseteq Coroutines \X (1 .. Waits)
<1> USE DEF Inv
<1>1. lost \subseteq Coroutines \X (1 .. Waits)
  BY DEF TypeOK
<1>2. CASE Fire
  <2>1. tickPc # "idle"
    BY <1>2 DEF Fire
  <2>2. timer[Head(due).buffer].callback \in Coroutines /\ Head(due).wait = 1
    BY <2>1, FirstDue DEF Its, InDue
  <2> QED  BY <1>1, <1>2, <2>2, Bounds DEF Fire
<1>3. CASE lost' = lost
  BY <1>1, <1>3
<1>4. ASSUME NEW e \in Executors, Yield(e) \/ Wrap(e) \/ Execute(e) PROVE lost' = lost
  BY <1>4 DEF Yield, Call, Alloc, Pop, Return, Wrap, Start, SetCb, AddTimer,
              Execute, Fetch, CanResume, Before, ResumeCo
<1>5. ASSUME NEW c \in Coroutines, NEW w \in 1 .. Waits, Complete(c, w) PROVE lost' = lost
  BY <1>5 DEF Complete
<1>6. CASE Tick \/ Release \/ UNCHANGED vars
  BY <1>3, <1>6 DEF Tick, Release, vars
<1> QED
  BY <1>2, <1>3, <1>4, <1>5, <1>6 DEF Next, Clock

\* The bounds of the pool and of the ages need the other parts.
LEMMA KeepsTypeOK == ASSUME Inv, FirstWaits', [Next]_vars PROVE TypeOK'
<1>0. lost' \subseteq Coroutines \X (1 .. Waits)
  BY LostStays
<1> USE <1>0 DEF Inv, Has, Goes, Leaves, Same
<1>1. ASSUME NEW e \in Executors, Call(e) PROVE TypeOK'
  <2>1. ASSUME NEW c \in Coroutines, NEW i \in Intervals, Begins(e, c, i) PROVE TypeOK'
    <3>1. <<c, Kind(e), 1>> \in Tasks
      BY <2>1, Bounds, TaskParts DEF Begins, Has, Tasks
    <3>2. 1 \in 0 .. Waits /\ 0 \in 0 .. Slots
      BY Bounds, SlotsAssumption
    <3> QED  BY <2>1, <3>1, <3>2 DEF Begins, TypeOK
  <2> QED  BY <1>1, <2>1, CallDoes
<1>2. ASSUME NEW e \in Executors, Alloc(e) PROVE TypeOK'
  <2>1. ASSUME NEW c \in Coroutines, Granted(e, c) PROVE TypeOK'
    BY <2>1 DEF Granted, TypeOK
  <2>2. ASSUME NEW c \in Coroutines, Refused(e, c) PROVE TypeOK'
    BY <2>2 DEF Refused, TypeOK
  <2> QED  BY <1>2, <2>1, <2>2, AllocDoes
<1>3. ASSUME NEW e \in Executors, Pop(e) PROVE TypeOK'
  <2>1. ASSUME NEW c \in Coroutines, NEW b \in Buffers, Popped(e, c, b) PROVE TypeOK'
    <3>1. pool' \in Seq(Buffers \cup {None}) /\ Len(pool') <= Cardinality(Buffers)
      <4>1. pool \in Seq(Buffers \cup {None}) /\ pool # <<>> /\ pool' = Tail(pool)
        BY <2>1 DEF Popped, TypeOK
      <4>2. pool' \in Seq(Buffers \cup {None}) /\ Len(pool') = Len(pool) - 1 /\ Len(pool) \in Nat
        BY <4>1
      <4>3. Len(pool) <= Cardinality(Buffers)
        BY DEF TypeOK
      <4> QED  BY <4>2, <4>3, Bounds
    <3>2. NewTimer(interval[c]) \in [canceled : BOOLEAN, callback : Coroutines \cup {None}, interval : Intervals]
      BY DEF NewTimer, TypeOK
    <3> QED  BY <2>1, <3>1, <3>2 DEF Popped, TypeOK
  <2> QED  BY <1>3, <2>1, PopDoes
<1>4. ASSUME NEW e \in Executors, Return(e) PROVE TypeOK'
  <2>1. ASSUME NEW c \in Coroutines, Returned(e, c) PROVE TypeOK'
    BY <2>1 DEF Returned, TypeOK
  <2> QED  BY <1>4, <2>1, ReturnDoes
<1>5. ASSUME NEW e \in Executors, Start(e) PROVE TypeOK'
  <2>1. ASSUME NEW c \in Coroutines, Started(e, c) PROVE TypeOK'
    <3>1. <<c, 1>> \in Coroutines \X (1 .. Waits)
      BY Bounds
    <3> QED  BY <2>1, <3>1 DEF Started, TypeOK
  <2> QED  BY <1>5, <2>1, StartDoes
<1>6. ASSUME NEW e \in Executors, SetCb(e) PROVE TypeOK'
  <2>1. ASSUME NEW c \in Coroutines, NEW b \in Buffers, SetsCb(e, c, b) PROVE TypeOK'
    <3>1. timer' \in [Buffers -> [canceled : BOOLEAN, callback : Coroutines \cup {None}, interval : Intervals]]
      <4>1. timer[b] \in [canceled : BOOLEAN, callback : Coroutines \cup {None}, interval : Intervals]
        BY DEF TypeOK
      <4>2. [timer[b] EXCEPT !.callback = c] \in [canceled : BOOLEAN, callback : Coroutines \cup {None}, interval : Intervals]
        BY <4>1
      <4> QED  BY <2>1, <4>2 DEF SetsCb, TypeOK
    <3> QED  BY <2>1, <3>1 DEF SetsCb, TypeOK
  <2> QED  BY <1>6, <2>1, SetCbDoes
<1>7. ASSUME NEW e \in Executors, AddTimer(e) PROVE TypeOK'
  <2>1. ASSUME NEW c \in Coroutines, NEW b \in Buffers, NEW s \in 0 .. Slots - 1, Adds(e, c, b, s)
       PROVE TypeOK'
    <3>1. [co |-> c, buffer |-> b, wait |-> 1] \in Timers
      BY Bounds DEF Timers
    <3>2. wheel' \in [0 .. Slots - 1 -> Seq(Timers)]
      <4>1. wheel[s] \in Seq(Timers)
        BY Entries
      <4>2. Append(wheel[s], [co |-> c, buffer |-> b, wait |-> 1]) \in Seq(Timers)
        BY <3>1, <4>1
      <4> QED  BY <2>1, <4>2 DEF Adds, TypeOK
    <3> QED  BY <2>1, <3>1, <3>2 DEF Adds, TypeOK
  <2> QED  BY <1>7, <2>1, AddDoes
<1>8. ASSUME NEW c \in Coroutines, NEW w \in 1 .. Waits, Complete(c, w) PROVE TypeOK'
  <2>0. Completes(c)
    BY <1>8, CompleteDoes
  <2>1. <<c, "done", 1>> \in Tasks
      BY Bounds DEF Tasks
  <2> QED  BY <2>0, <2>1 DEF Completes, TypeOK
<1>9. ASSUME NEW e \in Executors, Fetch(e) PROVE TypeOK'
  <2>1. ASSUME NEW c \in Coroutines, NEW k \in {"first", "done", "timeout"}, NEW w \in 0 .. Waits, Fetched(e, c, k, w)
       PROVE TypeOK'
    BY <2>1 DEF Fetched, TypeOK
  <2> QED  BY <1>9, <2>1, FetchDoes
<1>10. ASSUME NEW e \in Executors, CanResume(e) PROVE TypeOK'
  <2>1. ASSUME NEW c \in Coroutines, Enters(e, c) PROVE TypeOK'
    BY <2>1 DEF Enters, TypeOK
  <2>2. ASSUME NEW c \in Coroutines, Prepares(e, c) PROVE TypeOK'
    BY <2>2 DEF Prepares, TypeOK
  <2>3. ASSUME NEW c \in Coroutines, Drops(e, c) PROVE TypeOK'
    BY <2>3 DEF Drops, TypeOK
  <2> QED  BY <1>10, <2>1, <2>2, <2>3, CanResumeDoes
<1>11. ASSUME NEW e \in Executors, Before(e) PROVE TypeOK'
  <2>1. ASSUME NEW c \in Coroutines, Cancels(e, c) PROVE TypeOK'
    <3>1. timer' \in [Buffers -> [canceled : BOOLEAN, callback : Coroutines \cup {None}, interval : Intervals]]
      <4>1. CASE UNCHANGED timer
        BY <4>1 DEF TypeOK
      <4>2. CASE buf[c] # None /\ timer' = [timer EXCEPT ![twTask[c]].canceled = TRUE]
        <5>1. twTask[c] \in Buffers
          BY <4>2 DEF Holding, TypeOK
        <5>2. timer[twTask[c]] \in [canceled : BOOLEAN, callback : Coroutines \cup {None}, interval : Intervals]
          BY <5>1 DEF TypeOK
        <5>3. [timer[twTask[c]] EXCEPT !.canceled = TRUE] \in [canceled : BOOLEAN, callback : Coroutines \cup {None}, interval : Intervals]
          BY <5>2
        <5> QED  BY <4>2, <5>1, <5>3 DEF TypeOK
      <4> QED  BY <2>1, <4>1, <4>2 DEF Cancels
    <3> QED  BY <2>1, <3>1 DEF Cancels, TypeOK
  <2>2. ASSUME NEW c \in Coroutines, TimesOut(e, c) PROVE TypeOK'
    BY <2>2 DEF TimesOut, TypeOK
  <2> QED  BY <1>11, <2>1, <2>2, BeforeDoes
<1>12. ASSUME NEW e \in Executors, ResumeCo(e) PROVE TypeOK'
  <2>1. CASE Wrecks
    BY <2>1 DEF Wrecks, TypeOK
  <2>2. ASSUME NEW c \in Coroutines, Resumes(e, c) PROVE TypeOK'
    BY <2>2 DEF Resumes, TypeOK
  <2> QED  BY <1>12, <2>1, <2>2, ResumeCoDoes
<1>13. CASE Tick
  <2>0. Ticks
    BY <1>13, TickDoes
  <2>1. Slots \in Nat \ {0} /\ cursor \in 0 .. Slots - 1
      BY SlotsAssumption DEF TypeOK
  <2>2. cursor' \in 0 .. Slots - 1
      BY <2>0, <2>1, OneSlotOn DEF Ticks
  <2>3. due' \in Seq(Timers)
      BY <2>0, <2>1, Entries DEF Ticks
  <2>4. wheel' \in [0 .. Slots - 1 -> Seq(Timers)]
      BY <2>0 DEF Ticks, TypeOK
  <2>5. \A c \in Coroutines : age'[c] \in 0 .. Slots
      <3> TAKE c \in Coroutines
      <3>1. age[c] \in 0 .. Slots /\ interval[c] \in 0 .. Slots - 1
        BY Numbers DEF TypeOK
      <3>2. CASE Turning(c)
        <5>1. age[c] <= interval[c]
          BY <3>2 DEF Turning, InRing
        <5> QED  BY <2>0, <2>1, <3>1, <3>2, <5>1 DEF Ticks
      <3>3. CASE ~Turning(c)
        BY <2>0, <3>1, <3>3 DEF Ticks
      <3> QED  BY <3>2, <3>3
  <2>6. age' \in [Coroutines -> 0 .. Slots]
      BY <2>0, <2>5 DEF Ticks
  <2> QED  BY <2>0, <2>1, <2>2, <2>3, <2>4, <2>5, <2>6 DEF Ticks, TypeOK
<1>14. CASE Fire
  <2>1. ASSUME NEW c \in Coroutines, Fires(c) PROVE TypeOK'
    <3>1. <<c, "timeout", 1>> \in Tasks
      BY Bounds DEF Tasks
    <3> QED  BY <2>1, <3>1 DEF Fires, TypeOK
  <2> QED  BY <1>14, <2>1, FireDoes
<1>15. CASE Release
  <2>1. ASSUME NEW c \in Coroutines, NEW b \in Buffers, Releases(c, b) PROVE TypeOK'
    <3>1. pool' \in Seq(Buffers \cup {None})
      BY <2>1, PoolFacts DEF Releases
    <3>2. Free'
      BY KeepsFree
    <3>3. Len(pool') <= Cardinality(Buffers)
      BY <3>1, <3>2, PoolFits DEF Free
    <3>4. due' \in Seq(Timers)
      BY <2>1, DueEntries DEF Releases
    <3> QED  BY <2>1, <3>1, <3>2, <3>3, <3>4 DEF Releases, TypeOK
  <2> QED  BY <1>15, <2>1, ReleaseDoes
<1>16. CASE UNCHANGED vars
  BY <1>16, StuttersSame DEF vars, wheelVars, poolVars, frameVars, waitVars, execVars, TypeOK
<1> QED
  BY <1>1, <1>2, <1>3, <1>4, <1>5, <1>6, <1>7, <1>8, <1>9, <1>10, <1>11, <1>12, <1>13, <1>14, <1>15, <1>16
  DEF Next, Yield, Wrap, Execute, Clock

-----------------------------------------------------------------------------
(* The theorems.                                                           *)

\* Inv is inductive, up to a second wait.
LEMMA KeepsInv == ASSUME Inv, FirstWaits', [Next]_vars PROVE Inv'
  BY KeepsFrames, KeepsOneEarly, KeepsCauses, KeepsWaiting, KeepsHolding, KeepsFree, KeepsInRing,
     KeepsInDue, KeepsArmed, KeepsTypeOK DEF Inv

\* The full pool holds every buffer once.
LEMMA FullPool ==
  ASSUME NEW n \in 1 .. Cardinality(Buffers), NEW p, p = SubSeq(SetToSeq(Buffers), 1, n)
  PROVE  /\ p \in Seq(Buffers) /\ Len(p) = n
         /\ \A i, j \in 1 .. n : p[i] = p[j] => i = j
<1>1. Cardinality(Buffers) \in Nat
  BY Bounds
<1>2. PICK g : g \in Bijection(1 .. Cardinality(Buffers), Buffers)
  BY BoundsAssumption, FS_CardinalityType DEF ExistsBijection
<1>3. /\ SetToSeq(Buffers) \in [1 .. Cardinality(Buffers) -> Buffers]
      /\ \A i, j \in 1 .. Cardinality(Buffers) : SetToSeq(Buffers)[i] = SetToSeq(Buffers)[j] => i = j
  BY <1>2 DEF Bijection, Injection, IsInjective, SetToSeq
<1>4. PICK q : q = SetToSeq(Buffers)
  OBVIOUS
<1>5. q \in Seq(Buffers) /\ Len(q) = Cardinality(Buffers)
  BY <1>1, <1>3, <1>4
<1>6. p = SubSeq(q, 1, n) /\ n \in Nat /\ n <= Len(q)
  BY <1>1, <1>4, <1>5
<1>7. Len(p) = n /\ p \in Seq(Buffers) /\ \A i \in 1 .. n : p[i] = q[i]
  BY <1>5, <1>6
<1>8. 1 .. n \subseteq 1 .. Cardinality(Buffers)
  BY <1>1
<1> QED  BY <1>3, <1>4, <1>7, <1>8

LEMMA InitInv == Init => Inv
<1> SUFFICES ASSUME Init PROVE Inv
  OBVIOUS
<1>1. PICK n \in 1 .. Cardinality(Buffers) : pool = SubSeq(SetToSeq(Buffers), 1, n)
  BY DEF Init
<1>2. /\ pool \in Seq(Buffers) /\ Len(pool) = n /\ n <= Cardinality(Buffers)
      /\ \A i, j \in 1 .. n : pool[i] = pool[j] => i = j
  BY <1>1, FullPool, Bounds
<1> USE DEF Init, WheelInit
<1>3. AnyInterval \in Intervals /\ Slots \in Nat \ {0} /\ 0 \in 0 .. Waits /\ 0 \in 0 .. Slots - 1
      /\ 0 \in 0 .. Slots
  BY IntervalsAssumption, SlotsAssumption, BoundsAssumption DEF AnyInterval
<1>4. pool \in Seq(Buffers \cup {None}) /\ \A i \in 1 .. n : pool[i] \in Buffers
  BY <1>2, ElementOfSeq
<1>5. TypeOK
  <2>1. <<>> \in Seq(Timers)
    OBVIOUS
  <2>2. tasks \subseteq Tasks
    BY <1>3 DEF Tasks
  <2>3. NewTimer(AnyInterval) \in [canceled : BOOLEAN, callback : Coroutines \cup {None}, interval : Intervals]
    BY <1>3 DEF NewTimer
  <2>4. lost \subseteq Coroutines \X (1 .. Waits)
    OBVIOUS
  <2> QED  BY <1>3, <1>2, <1>4, <2>1, <2>2, <2>3, <2>4 DEF TypeOK
<1>6. FirstWaits
  BY DEF FirstWaits
<1>7. Frames /\ OneEarly /\ Armed
  BY DEF Frames, OneEarly, Early, Calling, Armed, Arming
<1>8. Causes
  BY DEF Causes, Running
<1>9. Waiting
  <2>1. ASSUME NEW c \in Coroutines PROVE InWait(c)
    BY DEF InWait
  <2> QED  BY <2>1 DEF Waiting
<1>10. Holding /\ Free
  BY <1>2, <1>4, Names DEF Holding, Free
<1>11. InRing /\ InDue
  BY DEF InRing, InDue
<1> QED  BY <1>5, <1>6, <1>7, <1>8, <1>9, <1>10, <1>11 DEF Inv

\* The waits are counted, and never forgotten.
Counted == waits \in [Coroutines -> Nat]

LEMMA WaitsCounted == ASSUME Counted, [Next]_vars PROVE Counted' /\ (FirstWaits' => FirstWaits)
<1>1. ASSUME NEW e \in Executors, Call(e) PROVE Counted' /\ (FirstWaits' => FirstWaits)
  <2>1. waits' = [waits EXCEPT ![Co(e)] = @ + 1]
    BY <1>1 DEF Call
  <2>2. \A c \in Coroutines : waits'[c] \in Nat /\ waits[c] <= waits'[c]
    BY <2>1 DEF Counted
  <2>3. Counted'
    BY <2>1, <2>2 DEF Counted
  <2>4. ASSUME FirstWaits', NEW c \in Coroutines PROVE waits[c] <= 1
    <3>1. waits'[c] <= 1 /\ waits'[c] \in Nat /\ waits[c] \in Nat /\ waits[c] <= waits'[c]
      BY <2>2, <2>4 DEF FirstWaits, Counted
    <3> QED  BY <3>1
  <2> QED  BY <2>3, <2>4 DEF FirstWaits
<1>2. CASE UNCHANGED waits
  BY <1>2 DEF Counted, FirstWaits
<1> QED
  BY <1>1, <1>2
  DEF Next, Yield, Wrap, Execute, Clock, Alloc, Pop, Return, Start, SetCb, AddTimer, Complete, Fetch,
      CanResume, Before, ResumeCo, Tick, Fire, Release, vars, waitVars

LEMMA AlwaysInv == Spec => [](Counted /\ (FirstWaits => Inv))
<1>1. Init => Counted /\ (FirstWaits => Inv)
  BY InitInv DEF Init, Counted
<1>2. Counted /\ (FirstWaits => Inv) /\ [Next]_vars => (Counted /\ (FirstWaits => Inv))'
  BY WaitsCounted, KeepsInv
<1> QED  BY <1>1, <1>2, PTL DEF Spec

\* While no coroutine waits a second time, every variable keeps to its type: no
\* null buffer is put in use, and no timer is older than the wheel is long.
THEOREM TypeCorrect == Spec => [](FirstWaits => TypeOK)
<1>1. (FirstWaits => Inv) => (FirstWaits => TypeOK)
  BY DEF Inv
<1> QED  BY <1>1, AlwaysInv, PTL

\* While no coroutine waits a second time, a tick takes a timer out when it is due
\* and never before, though timers are added while the wheel turns
\* (time_wheel_t::add_tw_task and tick).
THEOREM TimersFireWhenDue == Spec => [](FirstWaits => FiresWhenDue)
<1>1. Inv => FiresWhenDue
  <2> SUFFICES ASSUME Inv PROVE FiresWhenDue
    OBVIOUS
  <2>1. DOMAIN due = 1 .. Len(due)
    BY DueEntries, LenProperties DEF Inv
  <2> QED  BY <2>1 DEF Inv, InDue, FiresWhenDue
<1> QED  BY <1>1, AlwaysInv, PTL

\* While no coroutine waits a second time, a buffer of the pool has one user: it is
\* in the pool once, or one coroutine's timer is in it (mempool::alloc, release_cb).
THEOREM BuffersAreNotShared == Spec => [](FirstWaits => BuffersHaveOneUser)
<1>1. Inv => BuffersHaveOneUser
  <2> SUFFICES ASSUME Inv PROVE BuffersHaveOneUser
    OBVIOUS
  <2>1. DOMAIN due = 1 .. Len(due) /\ DOMAIN pool = 1 .. Len(pool)
    BY DueEntries, PoolFacts, LenProperties DEF Inv
  <2>2. \A s \in 0 .. Slots - 1 : DOMAIN wheel[s] = 1 .. Len(wheel[s])
    BY Entries, LenProperties DEF Inv
  <2>3. ASSUME NEW b \in UsedBuffers PROVE \E c \in Coroutines : b = buf[c]
    <3>1. CASE \E i \in 1 .. Len(due) : b = due[i].buffer
      <4>1. PICK i \in 1 .. Len(due) : b = due[i].buffer
        BY <3>1
      <4> QED  BY <4>1, DueEntries DEF Inv, InDue, Its
    <3>2. CASE \E s \in 0 .. Slots - 1 : \E i \in 1 .. Len(wheel[s]) : b = wheel[s][i].buffer
      <4>1. PICK s \in 0 .. Slots - 1 : \E i \in 1 .. Len(wheel[s]) : b = wheel[s][i].buffer
        BY <3>2
      <4>2. PICK i \in 1 .. Len(wheel[s]) : b = wheel[s][i].buffer
        BY <4>1
      <4> QED  BY <4>2, Entries DEF Inv, InRing, Its
    <3>3. CASE \E c \in Coroutines : b = buf[c]
      BY <3>3
    <3>4. \/ b \in {due[i].buffer : i \in DOMAIN due}
          \/ b \in UNION {{wheel[s][i].buffer : i \in DOMAIN wheel[s]} : s \in 0 .. Slots - 1}
          \/ b \in {buf[c] : c \in Coroutines}
      <4> DEFINE D == {due[i].buffer : i \in DOMAIN due}
                 W == UNION {{wheel[s][i].buffer : i \in DOMAIN wheel[s]} : s \in 0 .. Slots - 1}
                 F == {buf[c] : c \in Coroutines}
      <4>1. UsedBuffers = D \cup W \cup (F \ {None})
        BY DEF UsedBuffers
      <4> HIDE DEF D, W, F
      <4>2. b \in D \/ b \in W \/ b \in F
        BY <4>1
      <4> QED  BY <4>2 DEF D, W, F
    <3>5. CASE b \in UNION {{wheel[s][i].buffer : i \in DOMAIN wheel[s]} : s \in 0 .. Slots - 1}
      <4>1. PICK s \in 0 .. Slots - 1 : b \in {wheel[s][i].buffer : i \in DOMAIN wheel[s]}
        BY <3>5
      <4> QED  BY <2>2, <3>2, <4>1
    <3> QED  BY <2>1, <3>1, <3>3, <3>4, <3>5
  <2>4. \A b \in UsedBuffers : \A i \in DOMAIN pool : pool[i] # b
    BY <2>1, <2>3 DEF Inv, Free
  <2>5. \A i, j \in DOMAIN pool : pool[i] = pool[j] => i = j
    BY <2>1 DEF Inv, Free
  <2>6. \A c, d \in Coroutines : buf[c] # None /\ buf[c] = buf[d] => c = d
    BY DEF Inv, Holding
  <2> QED  BY <2>4, <2>5, <2>6 DEF BuffersHaveOneUser
<1> QED  BY <1>1, AlwaysInv, PTL

-----------------------------------------------------------------------------
(* The promise.                                                            *)

LEMMA OneWait == ASSUME Waits = 1, Inv, [Next]_vars PROVE FirstWaits'
<1>1. ASSUME NEW e \in Executors, Call(e) PROVE FirstWaits'
  <2>1. waits' = [waits EXCEPT ![Co(e)] = @ + 1] /\ waits[Co(e)] < 1
    BY <1>1 DEF Call
  <2>2. waits \in [Coroutines -> 0 .. 1]
    BY DEF Inv, TypeOK
  <2>3. ASSUME NEW c \in Coroutines PROVE waits'[c] <= 1
    <3>1. CASE c = Co(e)
      <4>1. waits[c] = 0
        BY <2>1, <2>2, <3>1
      <4> QED  BY <2>1, <2>2, <3>1, <4>1
    <3>2. CASE c # Co(e)
      <4>1. waits'[c] = waits[c] /\ waits[c] \in 0 .. 1
        BY <2>1, <2>2, <3>2
      <4> QED  BY <4>1
    <3> QED  BY <3>1, <3>2
  <2> QED  BY <2>3 DEF FirstWaits
<1>2. CASE UNCHANGED waits
  BY <1>2 DEF Inv, FirstWaits
<1> QED
  BY <1>1, <1>2
  DEF Next, Yield, Wrap, Execute, Clock, Alloc, Pop, Return, Start, SetCb, AddTimer, Complete, Fetch,
      CanResume, Before, ResumeCo, Tick, Fire, Release, vars, waitVars

LEMMA InitPromises == Init => Promise!Init
  BY IntervalsAssumption DEF Init, Promise!Init, AnyInterval

\* A step that leaves the waits alone is none of the promise's.
LEMMA OwnStep ==
  ASSUME UNCHANGED <<state, interval, finished, age>> PROVE [Promise!Next]_(Promise!vars)
  BY DEF Promise!vars

LEMMA StepPromises ==
  ASSUME Inv, FirstWaits', [Next]_vars PROVE [Promise!Next]_(Promise!vars)
<1>1. ASSUME NEW e \in Executors, Call(e) PROVE Promise!Next
  <2>1. PICK c \in Coroutines, i \in Intervals : Begins(e, c, i)
    BY <1>1, CallDoes
  <2>2. state[c] # "waiting"
    BY <2>1 DEF Begins, Inv, Waiting, InWait
  <2>3. Promise!Begin(c)
    BY <2>1, <2>2 DEF Begins, Promise!Begin
  <2> QED  BY <2>3 DEF Promise!Next
<1>2. ASSUME NEW e \in Executors, Alloc(e) PROVE [Promise!Next]_(Promise!vars)
  <2>1. PICK c \in Coroutines : Granted(e, c) \/ Refused(e, c)
    BY <1>2, AllocDoes
  <2>2. CASE Granted(e, c)
    BY <2>2, OwnStep DEF Granted
  <2>3. CASE Refused(e, c)
    <3>1. twTask[c] = None /\ state[c] = "waiting"
      BY <2>3 DEF Refused, Has, Inv, Frames, Early, Calling
    <3>2. ~finished[c] /\ age[c] = 0
      BY <3>1 DEF Inv, Waiting, InWait
    <3>3. Promise!Fail(c)
      BY <2>3, <3>1, <3>2 DEF Refused, Promise!Fail, Promise!End
    <3> QED  BY <3>3 DEF Promise!Next
  <2> QED  BY <2>1, <2>2, <2>3
<1>3. ASSUME NEW e \in Executors, Pop(e) PROVE [Promise!Next]_(Promise!vars)
  BY <1>3, PopDoes, OwnStep DEF Popped
<1>4. ASSUME NEW e \in Executors, Return(e) \/ Wrap(e) \/ Fetch(e) \/ CanResume(e) \/ Before(e)
      PROVE  [Promise!Next]_(Promise!vars)
  BY <1>4, OwnStep DEF Return, Wrap, Start, SetCb, AddTimer, Fetch, CanResume, Before, waitVars
<1>5. ASSUME NEW e \in Executors, ResumeCo(e) PROVE [Promise!Next]_(Promise!vars)
  <2>1. CASE Wrecks
    BY <2>1, OwnStep DEF Wrecks
  <2>2. ASSUME NEW c \in Coroutines, Resumes(e, c) PROVE Promise!Next
    <3>1. isTimeout[c] \/ result[c] = "result"
      BY <2>2 DEF Resumes, Has, Inv, Frames
    <3>2. (isTimeout[c] => RunOut(c)) /\ (result[c] = "result" => Ended(c))
      BY DEF Inv, Waiting, InWait
    <3>3. waits[c] = 1
      <4>1. waits[c] # 0
        BY <3>1, <3>2 DEF RunOut, Ended, Inv, Waiting, InWait
      <4>2. waits[c] \in 0 .. Waits /\ waits[c] <= 1 /\ Waits \in Nat
        BY BoundsAssumption DEF Inv, TypeOK, FirstWaits
      <4> QED  BY <4>1, <4>2
    <3>4. state[c] = "waiting"
      BY <2>2, <3>3 DEF Resumes, Inv, Waiting, InWait
    <3>5. CASE isTimeout[c]
      <4>1. Promise!Timeout(c)
        BY <2>2, <3>2, <3>4, <3>5 DEF Resumes, RunOut, Promise!Timeout, Promise!End
      <4> QED  BY <4>1 DEF Promise!Next
    <3>6. CASE ~isTimeout[c]
      <4>1. Promise!Result(c)
        BY <2>2, <3>1, <3>2, <3>4, <3>6 DEF Resumes, Ended, Promise!Result, Promise!End
      <4> QED  BY <4>1 DEF Promise!Next
    <3> QED  BY <3>5, <3>6
  <2> QED  BY <1>5, <2>1, <2>2, ResumeCoDoes
<1>6. ASSUME NEW c \in Coroutines, NEW w \in 1 .. Waits, Complete(c, w) PROVE Promise!Next
  <2>1. Promise!Finish(c)
    BY <1>6, CompleteDoes DEF Completes, Promise!Finish
  <2> QED  BY <2>1 DEF Promise!Next
<1>7. CASE Tick
  <2>1. Ticks
    BY <1>7, TickDoes
  <2>2. PICK W \in SUBSET Coroutines : W = {c \in Coroutines : Turning(c)}
    OBVIOUS
  <2>3. ASSUME NEW c \in W PROVE age[c] < Slots
    <3>1. age[c] <= interval[c]
      BY <2>2 DEF Turning, Inv, InRing
    <3> QED  BY <3>1, Numbers DEF Inv
  <2>4. age' = [c \in Coroutines |-> IF c \in W /\ age[c] < Slots THEN age[c] + 1 ELSE age[c]]
    BY <2>1, <2>2, <2>3 DEF Ticks
  <2>5. Promise!Elapse
    BY <2>1, <2>4 DEF Ticks, Promise!Elapse
  <2> QED  BY <2>5 DEF Promise!Next
<1>8. CASE Fire \/ Release \/ UNCHANGED vars
  BY <1>8, OwnStep DEF Fire, Release, vars, waitVars
<1> QED
  BY <1>1, <1>2, <1>3, <1>4, <1>5, <1>6, <1>7, <1>8 DEF Next, Yield, Execute, Clock

\* When every coroutine waits once, cor_yield with a timeout does what it promises,
\* for any number of executors, coroutines, buffers and slots: a wait ends once,
\* with the operation's result after the operation has ended or with a timeout
\* after its time, or fails at once for want of a timer.
THEOREM YieldKeepsPromise == ASSUME Waits = 1 PROVE Spec => KeepsPromise
<1>1. Init => Inv
  BY InitInv
<1>2. Inv /\ [Next]_vars => Inv' /\ [Promise!Next]_(Promise!vars)
  BY OneWait, KeepsInv, StepPromises
<1>3. Init => Promise!Init
  BY InitPromises
<1> QED  BY <1>1, <1>2, <1>3, PTL DEF Spec, KeepsPromise, Promise!Spec
==============================================================================
