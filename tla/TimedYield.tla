------------------------------ MODULE TimedYield -----------------------------
(***************************************************************************)
(* cor_yield with a timeout, on the time wheel and the pool of timers.     *)
(*                                                                         *)
(* A coroutine takes a timer from the pool and switches out.  Its executor *)
(* then runs wrap_func: it starts the operation, sets the timer's callback *)
(* and puts the timer in the wheel.  The operation's completion and the    *)
(* timer each put a task for the coroutine in line, with a function to run *)
(* before the coroutine: the one cancels the timer, the other notes the    *)
(* timeout and cancels the operation.  Whichever task comes second finds   *)
(* no coroutine to resume and is dropped.  The timer goes back to the pool *)
(* when the wheel comes to it, canceled or not.                            *)
(*                                                                         *)
(* All these functions refer to variables of the coroutine's stack frame,  *)
(* which may be gone by then.  A coroutine's waits have their frame at one *)
(* place in its stack, as successive calls of one function do: a function  *)
(* that comes late reads and writes the variables of the wait that is      *)
(* there now, and while there is none it finds what the last one left.     *)
(* That is the mildest thing the build can do.                             *)
(*                                                                         *)
(* A ready task can be run by any executor (module Scheduler has the       *)
(* queues).  A task queue that is full drops the task it is given; it can  *)
(* be full at any time, of other coroutines' tasks.  A definition named    *)
(* Slip... is a likely mistake in the definition that follows it; no       *)
(* behaviour of the module uses it.                                        *)
(***************************************************************************)
EXTENDS TimeWheel, FiniteSets, SequencesExt

CONSTANTS
    Executors,
    Coroutines,
    Buffers,        \* the elements of gs_tw_task_pool, which has one at least
    Timeouts,       \* the values of timeout_ms / 1000 in each coroutine's calls
    Waits,          \* bound: how many timed yields a coroutine makes
    None            \* no coroutine, no buffer

ASSUME NoneAssumption == None \notin Coroutines \cup Buffers

Intervals == UNION {Timeouts[c] : c \in Coroutines}

\* Bound: no interval is longer than the wheel, as the callers' are not (3 of 60).
ASSUME IntervalsAssumption == Intervals # {} /\ Intervals \subseteq 0 .. Slots - 1
ASSUME BoundsAssumption == Waits \in Nat \ {0} /\ IsFiniteSet(Buffers)

VARIABLES
    pool,           \* m_q of the pool, oldest first
    timer,          \* the time_wheel_task_t in each buffer
    buf,            \* tw_task_buf in each coroutine's frame, which is nulled
    twTask,         \* tw_task, a pointer to the same buffer, which is not
    isTimeout,      \* is_timeout
    result,         \* result: "error" (-1), or the operation's own
    suspended,      \* the coroutine has switched out
    state,          \* "user", "waiting" or how the last wait ended
    interval,       \* the timeout of the wait
    waits,          \* how many waits the coroutine has begun
    pending,        \* the operations that have started and not ended
    finished,       \* the operation of the coroutine's current wait has ended
    tasks,          \* tasks in line: coroutine, what put it there, for which wait
    lost,           \* the waits whose timer's task a full task queue has dropped
    pc,             \* where each executor's thread is
    task,           \* the task it runs, and the wait that the coroutine is in
    tickPc,         \* where the Asio thread is in tick()
    age,            \* the ticks since the wait's timer was added, if it is in the wheel
    wrecked         \* an empty continuation was resumed

poolVars  == <<pool, timer>>
frameVars == <<buf, twTask, isTimeout, result>>
waitVars  == <<suspended, state, interval, waits, finished, age>>
execVars  == <<pc, task>>
vars == <<wheelVars, poolVars, frameVars, waitVars, execVars, pending, tasks, lost, tickPc,
          wrecked>>

Tasks  == Coroutines \X {"first", "done", "timeout"} \X (0 .. Waits)
Timers == [co : Coroutines, buffer : Buffers, wait : 1 .. Waits]

TypeOK ==
    /\ wheel \in [0 .. Slots - 1 -> Seq(Timers)] /\ cursor \in 0 .. Slots - 1
    /\ due \in Seq(Timers)
    /\ pool \in Seq(Buffers \cup {None}) /\ Len(pool) <= Cardinality(Buffers)
    /\ timer \in [Buffers -> [canceled : BOOLEAN, callback : Coroutines \cup {None},
                              interval : Intervals]]
    /\ buf \in [Coroutines -> Buffers \cup {None}]
    /\ twTask \in [Coroutines -> Buffers \cup {None}]
    /\ isTimeout \in [Coroutines -> BOOLEAN]
    /\ result \in [Coroutines -> {"error", "result"}]
    /\ suspended \in [Coroutines -> BOOLEAN]
    /\ state \in [Coroutines -> {"user", "waiting", "result", "timeout", "error"}]
    /\ interval \in [Coroutines -> Intervals]
    /\ waits \in [Coroutines -> 0 .. Waits]
    /\ pending \subseteq Coroutines \X (1 .. Waits)
    /\ finished \in [Coroutines -> BOOLEAN]
    /\ age \in [Coroutines -> 0 .. Slots]
    /\ tasks \subseteq Tasks
    /\ lost \subseteq Coroutines \X (1 .. Waits)
    /\ pc \in [Executors -> {"idle", "check", "before", "resume", "user", "alloc", "pop",
                             "start", "setcb", "add"}]
    /\ task \in [Executors -> Tasks \cup {None}]
    /\ tickPc \in {"idle", "fire", "release"}
    /\ wrecked \in BOOLEAN

AnyInterval == CHOOSE i \in Intervals : TRUE

\* time_wheel_task_t(interval)
NewTimer(i) == [canceled |-> FALSE, callback |-> None, interval |-> i]

\* A pool of any size is full, and the coroutines are in line for their first run.
Init ==
    /\ WheelInit
    /\ \E n \in 1 .. Cardinality(Buffers) : pool = SubSeq(SetToSeq(Buffers), 1, n)
    /\ timer = [b \in Buffers |-> NewTimer(AnyInterval)]
    /\ buf = [c \in Coroutines |-> None]
    /\ twTask = [c \in Coroutines |-> None]
    /\ isTimeout = [c \in Coroutines |-> FALSE]
    /\ result = [c \in Coroutines |-> "error"]
    /\ suspended = [c \in Coroutines |-> TRUE]
    /\ state = [c \in Coroutines |-> "user"]
    /\ interval = [c \in Coroutines |-> AnyInterval]
    /\ waits = [c \in Coroutines |-> 0]
    /\ pending = {}
    /\ finished = [c \in Coroutines |-> FALSE]
    /\ tasks = {<<c, "first", 0>> : c \in Coroutines}
    /\ lost = {}
    /\ pc = [e \in Executors |-> "idle"]
    /\ task = [e \in Executors |-> None]
    /\ tickPc = "idle"
    /\ age = [c \in Coroutines |-> 0]
    /\ wrecked = FALSE

At(e, l) == pc[e] = l /\ ~wrecked
Goto(e, l) == pc' = [pc EXCEPT ![e] = l]
Co(e) == task[e][1]

\* The executor's thread is back in its loop.
ToExecutor(e) == Goto(e, "idle") /\ task' = [task EXCEPT ![e] = None]

-----------------------------------------------------------------------------
(* The coroutine, up to the moment it switches out.                        *)

Call(e) ==
    /\ At(e, "user") /\ waits[Co(e)] < Waits
    /\ LET c == Co(e) IN
        /\ waits' = [waits EXCEPT ![c] = @ + 1]
        /\ task' = [task EXCEPT ![e][3] = waits[c] + 1]
        /\ state' = [state EXCEPT ![c] = "waiting"]
        /\ \E i \in Timeouts[c] : interval' = [interval EXCEPT ![c] = i]
        /\ finished' = [finished EXCEPT ![c] = FALSE]
        /\ age' = [age EXCEPT ![c] = 0]
    /\ Goto(e, "alloc")
    /\ UNCHANGED <<wheelVars, poolVars, frameVars, suspended, pending, tasks, lost, tickPc,
                   wrecked>>

\* mempool::alloc, was_empty(): with no buffer the yield fails.
Alloc(e) ==
    /\ At(e, "alloc")
    /\ \/ /\ pool # <<>>
          /\ Goto(e, "pop")
          /\ UNCHANGED state
       \/ /\ pool = <<>>
          /\ state' = [state EXCEPT ![Co(e)] = "error"]
          /\ Goto(e, "user")
    /\ UNCHANGED <<wheelVars, poolVars, frameVars, suspended, interval, waits, finished, age,
                   task, pending, tasks, lost, tickPc, wrecked>>

\* Slip: the buffer is looked at and stays in the pool.
SlipPop(e) ==
    /\ At(e, "pop") /\ pool # <<>>
    /\ LET c == Co(e)  b == Head(pool) IN
        /\ timer' = [timer EXCEPT ![b] = NewTimer(interval[c])]
        /\ buf' = [buf EXCEPT ![c] = b]
        /\ twTask' = [twTask EXCEPT ![c] = b]
        /\ suspended' = [suspended EXCEPT ![c] = TRUE]
    /\ Goto(e, "start")
    /\ UNCHANGED <<wheelVars, pool, isTimeout, result, state, interval, waits, finished, age,
                   task, pending, tasks, lost, tickPc, wrecked>>

\* mempool::alloc, pop(), which waits for a buffer; then a new timer, and the
\* coroutine switches out.  (A buffer that was freed as null is refused.)
Pop(e) ==
    /\ At(e, "pop") /\ pool # <<>>
    /\ pool' = Tail(pool)
    /\ LET c == Co(e)  b == Head(pool) IN
        IF b = None
        THEN /\ state' = [state EXCEPT ![c] = "error"]
             /\ Goto(e, "user")
             /\ UNCHANGED <<timer, frameVars, suspended>>
        ELSE /\ timer' = [timer EXCEPT ![b] = NewTimer(interval[c])]
             /\ buf' = [buf EXCEPT ![c] = b]
             /\ twTask' = [twTask EXCEPT ![c] = b]
             /\ isTimeout' = [isTimeout EXCEPT ![c] = FALSE]
             /\ result' = [result EXCEPT ![c] = "error"]
             /\ suspended' = [suspended EXCEPT ![c] = TRUE]
             /\ Goto(e, "start")
             /\ UNCHANGED state
    /\ UNCHANGED <<wheelVars, interval, waits, finished, age, task, pending, tasks, lost, tickPc,
                   wrecked>>

\* The coroutine's function returns.
Return(e) ==
    /\ At(e, "user") /\ waits[Co(e)] = Waits
    /\ ToExecutor(e)
    /\ UNCHANGED <<wheelVars, poolVars, frameVars, waitVars, pending, tasks, lost, tickPc,
                   wrecked>>

-----------------------------------------------------------------------------
(* wrap_func, on the executor that the coroutine has left.                 *)

\* wrapped_extern_func: the operation starts, and may end at once.
Start(e) ==
    /\ At(e, "start")
    /\ pending' = pending \cup {<<Co(e), task[e][3]>>}
    /\ Goto(e, "setcb")
    /\ UNCHANGED <<wheelVars, poolVars, frameVars, waitVars, task, tasks, lost, tickPc, wrecked>>

SetCb(e) ==
    /\ At(e, "setcb")
    /\ timer' = [timer EXCEPT ![twTask[Co(e)]].callback = Co(e)]
    /\ Goto(e, "add")
    /\ UNCHANGED <<wheelVars, pool, frameVars, waitVars, task, pending, tasks, lost, tickPc,
                   wrecked>>

\* gs_time_wheel.add_tw_task; the executor is done with the coroutine.
AddTimer(e) ==
    /\ At(e, "add")
    /\ LET b == twTask[Co(e)] IN
        AddTask([co |-> Co(e), buffer |-> b, wait |-> task[e][3]], timer[b].interval)
    /\ ToExecutor(e)
    /\ UNCHANGED <<poolVars, frameVars, waitVars, pending, tasks, lost, tickPc, wrecked>>

-----------------------------------------------------------------------------
(* What ends the wait.                                                     *)

\* Slip: the handler does not store the result.
SlipComplete(c, w) ==
    /\ <<c, w>> \in pending /\ ~wrecked
    /\ pending' = pending \ {<<c, w>>}
    /\ finished' = [finished EXCEPT ![c] = @ \/ w = waits[c]]
    /\ tasks' \in {tasks, tasks \cup {<<c, "done", w>>}}
    /\ UNCHANGED <<wheelVars, poolVars, frameVars, suspended, state, interval, waits, age,
                   execVars, lost, tickPc, wrecked>>

\* The operation ends, by itself or because it was canceled.  Its handler
\* writes the result and puts the coroutine in line, if the task queue has room.
Complete(c, w) ==
    /\ <<c, w>> \in pending /\ ~wrecked
    /\ pending' = pending \ {<<c, w>>}
    /\ result' = [result EXCEPT ![c] = "result"]
    /\ finished' = [finished EXCEPT ![c] = @ \/ w = waits[c]]
    /\ tasks' \in {tasks, tasks \cup {<<c, "done", w>>}}
    /\ UNCHANGED <<wheelVars, poolVars, buf, twTask, isTimeout, suspended, state, interval,
                   waits, age, execVars, lost, tickPc, wrecked>>

\* time_wheel_t::tick, called every second.
Tick ==
    /\ tickPc = "idle" /\ ~wrecked
    /\ TakeSlot
    /\ tickPc' = IF due' = <<>> THEN "idle" ELSE "fire"
    /\ age' = [c \in Coroutines |->
                 IF \E b \in Buffers : InWheel([co |-> c, buffer |-> b, wait |-> waits[c]])
                 THEN age[c] + 1 ELSE age[c]]
    /\ UNCHANGED <<poolVars, frameVars, suspended, state, interval, waits, finished,
                   execVars, pending, tasks, lost, wrecked>>

\* time_wheel_task_t::tick: a timer that is not canceled puts its coroutine in
\* line, if the task queue has room.
Fire ==
    /\ tickPc = "fire" /\ ~wrecked
    /\ LET t == timer[Head(due).buffer]  w == Head(due).wait IN
        \/ /\ t.canceled
           /\ UNCHANGED <<tasks, lost>>
        \/ /\ ~t.canceled
           /\ tasks' = tasks \cup {<<t.callback, "timeout", w>>}
           /\ UNCHANGED lost
        \/ /\ ~t.canceled
           /\ lost' = lost \cup {<<t.callback, w>>}
           /\ UNCHANGED tasks
    /\ tickPc' = "release"
    /\ UNCHANGED <<wheelVars, poolVars, frameVars, waitVars, execVars, pending, wrecked>>

\* Slip: tw_task_buf is nulled, and nothing goes back to the pool.
SlipRelease ==
    /\ tickPc = "release" /\ ~wrecked
    /\ buf' = [buf EXCEPT ![Head(due).co] = None]
    /\ NextTask
    /\ tickPc' = IF due' = <<>> THEN "idle" ELSE "fire"
    /\ UNCHANGED <<pool, timer, twTask, isTimeout, result, waitVars, execVars, pending, tasks,
                   lost, wrecked>>

\* release_cb: the buffer that the frame names goes back to the pool.
Release ==
    /\ tickPc = "release" /\ ~wrecked
    /\ LET c == Head(due).co IN
        /\ pool' = Append(pool, buf[c])
        /\ buf' = [buf EXCEPT ![c] = None]
    /\ NextTask
    /\ tickPc' = IF due' = <<>> THEN "idle" ELSE "fire"
    /\ UNCHANGED <<timer, twTask, isTimeout, result, waitVars, execVars, pending, tasks, lost,
                   wrecked>>

-----------------------------------------------------------------------------
(* exec_co.                                                                *)

Fetch(e) ==
    /\ At(e, "idle")
    /\ \E t \in tasks :
        /\ tasks' = tasks \ {t}
        /\ task' = [task EXCEPT ![e] = t]
    /\ Goto(e, "check")
    /\ UNCHANGED <<wheelVars, poolVars, frameVars, waitVars, pending, lost, tickPc, wrecked>>

\* is_started and can_resume: a coroutine that has not switched out is skipped.
CanResume(e) ==
    /\ At(e, "check")
    /\ \/ /\ suspended[Co(e)] /\ task[e][2] = "first"
          /\ suspended' = [suspended EXCEPT ![Co(e)] = FALSE]
          /\ Goto(e, "user")
          /\ UNCHANGED task
       \/ /\ suspended[Co(e)] /\ task[e][2] # "first"
          /\ Goto(e, "before")
          /\ UNCHANGED <<suspended, task>>
       \/ /\ ~suspended[Co(e)]
          /\ ToExecutor(e)
          /\ UNCHANGED suspended
    /\ UNCHANGED <<wheelVars, poolVars, frameVars, state, interval, waits, finished, age,
                   pending, tasks, lost, tickPc, wrecked>>

\* m_f_before_execution: the timer is canceled unless it has been released,
\* or the timeout is noted and the operation canceled.
Before(e) ==
    /\ At(e, "before")
    /\ LET c == Co(e) IN
        IF task[e][2] = "done"
        THEN /\ timer' = IF buf[c] = None THEN timer
                         ELSE [timer EXCEPT ![twTask[c]].canceled = TRUE]
             /\ UNCHANGED isTimeout
        ELSE /\ isTimeout' = [isTimeout EXCEPT ![c] = TRUE]
             /\ UNCHANGED timer
    /\ Goto(e, "resume")
    /\ UNCHANGED <<wheelVars, pool, buf, twTask, result, waitVars, task, pending, tasks,
                   lost, tickPc, wrecked>>

\* resume_user_co: the yield returns is_timeout ? 1 : result.
ResumeCo(e) ==
    /\ At(e, "resume")
    /\ \/ /\ suspended[Co(e)]
          /\ suspended' = [suspended EXCEPT ![Co(e)] = FALSE]
          /\ state' = [state EXCEPT ![Co(e)] =
                          IF isTimeout[Co(e)] THEN "timeout" ELSE result[Co(e)]]
          /\ Goto(e, "user")
          /\ UNCHANGED wrecked
       \/ /\ ~suspended[Co(e)]
          /\ wrecked' = TRUE
          /\ UNCHANGED <<suspended, state, pc>>
    /\ UNCHANGED <<wheelVars, poolVars, frameVars, interval, waits, finished, age, task,
                   pending, tasks, lost, tickPc>>

-----------------------------------------------------------------------------
Yield(e)   == Call(e) \/ Alloc(e) \/ Pop(e) \/ Return(e)
Wrap(e)    == Start(e) \/ SetCb(e) \/ AddTimer(e)
Execute(e) == Fetch(e) \/ CanResume(e) \/ Before(e) \/ ResumeCo(e)
Clock      == Tick \/ Fire \/ Release

Next ==
    \/ \E e \in Executors : Yield(e) \/ Wrap(e) \/ Execute(e)
    \/ \E c \in Coroutines, w \in 1 .. Waits : Complete(c, w)
    \/ Clock

Spec == Init /\ [][Next]_vars

\* The executors and the Asio thread are scheduled, and the tick's timer is
\* armed again by every tick.  An operation may never end.
FairSpec ==
    /\ Spec
    /\ \A e \in Executors : WF_vars(Yield(e) \/ Wrap(e) \/ Execute(e))
    /\ WF_vars(Clock)

-----------------------------------------------------------------------------
(* Properties.                                                             *)

\* cor_yield with a timeout keeps its promise, for waits whose late functions
\* find their frame: a wait ends once, with the operation's result if that
\* has ended and with a timeout if its timer has run out.
Promise == INSTANCE TimedWait WITH ticks <- age, MaxTicks <- Slots

KeepsPromise == Promise!Spec

\* 0, ok; 1 timeout: a wait that returned 1 has lasted its time.
TimeoutIsTrue ==
    \A c \in Coroutines : state[c] = "timeout" => age[c] > interval[c]

\* A timer is taken out by the tick that it is due at, though timers are added
\* while the wheel turns.
FiresWhenDue ==
    \A i \in DOMAIN due : due[i].wait = waits[due[i].co] => age[due[i].co] = interval[due[i].co] + 1

\* The timers that the wheel or a coroutine's frame will use again.
UsedBuffers ==
    {due[i].buffer : i \in DOMAIN due}
        \cup (UNION {{wheel[s][i].buffer : i \in DOMAIN wheel[s]} : s \in 0 .. Slots - 1})
        \cup ({buf[c] : c \in Coroutines} \ {None})

\* A buffer has one user: it is in the pool once, or with one timer.
BuffersHaveOneUser ==
    /\ \A b \in UsedBuffers : \A i \in DOMAIN pool : pool[i] # b
    /\ \A i, j \in DOMAIN pool : pool[i] = pool[j] => i = j
    /\ \A c, d \in Coroutines : buf[c] # None /\ buf[c] = buf[d] => c = d

\* A wait ends, though its operation may never end, or its completion's task is
\* dropped, and one that blocks its executor in the pool's pop gets a buffer; only
\* a timer that fires into a full task queue can leave it for ever.
WaitEnds ==
    \A c \in Coroutines :
        state[c] = "waiting" ~> state[c] # "waiting" \/ <<c, waits[c]>> \in lost \/ wrecked

InPool(b) == \E i \in DOMAIN pool : pool[i] = b

\* Every buffer that was in the pool comes back to it, to stay: neither a wait
\* that timed out or was canceled, nor a dropped task keeps one.
PoolRefills == \A b \in Buffers : InPool(b) => <>[](InPool(b) \/ wrecked)
=============================================================================
