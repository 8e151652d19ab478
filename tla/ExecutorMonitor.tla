--------------------------- MODULE ExecutorMonitor ---------------------------
(***************************************************************************)
(* The replacement of blocked executors.  Once a second the thread in      *)
(* co_run_impl looks at the flags of the executor of each task queue; one  *)
(* that it finds executing for long enough is turned off, and a new thread *)
(* takes over its queue.  The old thread finishes its coroutine when the   *)
(* coroutine allows it, and may meanwhile share the queue with the new.    *)
(*                                                                         *)
(* One task queue and the executors it has had.  The neighbour's queue is  *)
(* empty, so the wait handler goes on to sleep; module Scheduler has the   *)
(* stealing.  The three flags are plain bools that two threads access: a   *)
(* load or a store of one is a step.  Time is left out but for its order:  *)
(* see Late.                                                               *)
(*                                                                         *)
(* A definition named Slip... is a likely mistake in the definition that   *)
(* follows it; no behaviour of the module uses it.                         *)
(***************************************************************************)
EXTENDS Integers, Sequences

CONSTANTS
    MaxExecutors,   \* bound: the executors the queue may have had
    Coroutines,     \* coroutines that start, yield, block or finish
    Leftovers       \* tasks of coroutines that cannot be resumed any more

Executors == 1 .. MaxExecutors
Tasks == Coroutines \cup Leftovers
User == 0
NoTask == {}

ASSUME ExecutorsAssumption == MaxExecutors \in Nat \ {0}
ASSUME TasksAssumption == Coroutines \cap Leftovers = {}

VARIABLES
    queue,          \* m_queue: tasks, oldest first
    notifyMode,     \* m_is_notify_mode
    handler,        \* the executor whose handlers the queue has; 0: none
    send,           \* how far a thread is in the notify() of an enqueue
    toAdd,          \* tasks the program has still to add
    pc,             \* where each executor's thread is
    cur,            \* m_cur_task_c: at most one task
    bed,            \* whose condition variable an executor sleeps on
    turnOn, executing, blocking,    \* m_turn_on, m_is_executing, m_is_blocking
    notified,       \* the flag on each executor thread's stack
    newest,         \* g_executors[i]
    mon, age,       \* the monitor: where it is, ticks since it last marked
    wrecked         \* a thread used the stack of a thread that has returned

queueVars == <<queue, notifyMode, handler, send, toAdd>>
threadVars == <<pc, cur, bed, notified>>
flagVars  == <<turnOn, executing, blocking>>
monVars   == <<newest, mon, age>>
vars      == <<queueVars, threadVars, flagVars, monVars, wrecked>>

Locations == {"unborn", "start", "loop", "poll", "setmode", "repoll", "clear", "wait",
              "blocked", "begin", "run", "after", "end", "end2", "gone"}

TypeOK ==
    /\ queue \in Seq(Tasks)
    /\ notifyMode \in BOOLEAN /\ wrecked \in BOOLEAN
    /\ handler \in 0 .. newest /\ newest \in Executors
    /\ send \in [Executors \cup {User} -> {"idle", "check", "notify"}]
    /\ toAdd \in SUBSET Tasks
    /\ pc \in [Executors -> Locations]
    /\ cur \in [Executors -> {NoTask} \cup {{t} : t \in Tasks}]
    /\ bed \in [Executors -> 0 .. newest]
    /\ turnOn \in [Executors -> BOOLEAN] /\ executing \in [Executors -> BOOLEAN]
    /\ blocking \in [Executors -> BOOLEAN] /\ notified \in [Executors -> BOOLEAN]
    /\ mon \in {"sleep", "look", "mark", "off", "start"} /\ age \in 0 .. 2

Init ==
    /\ queue = <<>> /\ notifyMode = TRUE /\ handler = 0 /\ toAdd = Tasks
    /\ send = [t \in Executors \cup {User} |-> "idle"]
    /\ pc = [e \in Executors |-> IF e = 1 THEN "start" ELSE "unborn"]
    /\ cur = [e \in Executors |-> NoTask]
    /\ bed = [e \in Executors |-> 0]
    /\ turnOn = [e \in Executors |-> e = 1]
    /\ executing = [e \in Executors |-> FALSE]
    /\ blocking = [e \in Executors |-> FALSE]
    /\ notified = [e \in Executors |-> FALSE]
    /\ newest = 1 /\ mon = "sleep" /\ age = 0 /\ wrecked = FALSE

-----------------------------------------------------------------------------
(* The queue: try_enqueue and the notify() after it.                       *)

\* try_push, into a queue with room.
Push(t, task) ==
    /\ send[t] = "idle"
    /\ queue' = Append(queue, task)
    /\ send' = [send EXCEPT ![t] = "check"]

\* The program, or a completion, adds a task.
Add(task) ==
    /\ task \in toAdd
    /\ Push(User, task)
    /\ toAdd' = toAdd \ {task}
    /\ UNCHANGED <<notifyMode, handler, threadVars, flagVars, monVars, wrecked>>

CheckMode(t) ==
    /\ send[t] = "check"
    /\ send' = [send EXCEPT ![t] = IF notifyMode /\ handler # 0 THEN "notify" ELSE "idle"]
    /\ UNCHANGED <<queue, notifyMode, handler, toAdd, threadVars, flagVars, monVars, wrecked>>

\* The handler raises a flag, under a mutex, that live on the stack of the
\* executor that installed it: undefined when that thread has returned.
Notify(t) ==
    /\ send[t] = "notify"
    /\ send' = [send EXCEPT ![t] = "idle"]
    /\ notified' = [notified EXCEPT ![handler] = TRUE]
    /\ wrecked' = (pc[handler] = "gone")
    /\ UNCHANGED <<queue, notifyMode, handler, toAdd, pc, cur, bed, flagVars, monVars>>

-----------------------------------------------------------------------------
(* An executor: cppt_co_main_run_thread, and the dequeue it calls.         *)

At(e, l) == pc[e] = l
Goto(e, l) == pc' = [pc EXCEPT ![e] = l]

SetHandlers(e) ==
    /\ At(e, "start") /\ Goto(e, "loop")
    /\ handler' = e
    /\ UNCHANGED <<queue, notifyMode, send, toAdd, cur, bed, notified, flagVars, monVars, wrecked>>

\* The loop's test of m_turn_on.  A thread that leaves takes its condition
\* variable with it, even if another sleeps on it.
Loop(e) ==
    /\ At(e, "loop")
    /\ Goto(e, IF turnOn[e] THEN "poll" ELSE "gone")
    /\ wrecked' = (~turnOn[e] /\ \E f \in Executors \ {e} : At(f, "blocked") /\ bed[f] = e)
    /\ UNCHANGED <<queueVars, cur, bed, notified, flagVars, monVars>>

\* A try_pop of dequeue, into m_cur_task_c.
TryPop(e, found, empty) ==
    /\ \/ /\ queue # <<>>
          /\ cur' = [cur EXCEPT ![e] = {Head(queue)}]
          /\ queue' = Tail(queue)
          /\ Goto(e, found)
       \/ /\ queue = <<>>
          /\ Goto(e, empty)
          /\ UNCHANGED <<queue, cur>>
    /\ UNCHANGED <<notifyMode, handler, send, toAdd, bed, notified, flagVars, monVars, wrecked>>

Poll(e) == At(e, "poll") /\ TryPop(e, "begin", "setmode")
Repoll(e) == At(e, "repoll") /\ TryPop(e, "clear", "wait")

SetMode(e, from, on, to) ==
    /\ At(e, from) /\ Goto(e, to)
    /\ notifyMode' = on
    /\ UNCHANGED <<queue, handler, send, toAdd, cur, bed, notified, flagVars, monVars, wrecked>>

\* Notify mode is turned on once, before the loop of dequeue.
Mode(e) == SetMode(e, "setmode", TRUE, "repoll") \/ SetMode(e, "clear", FALSE, "begin")

\* dequeue calls the wait handler the queue has now, which may be that of the
\* executor that replaced the caller: cv_wait on the installer's stack.
CvWait(e) ==
    /\ At(e, "wait")
    /\ bed' = [bed EXCEPT ![e] = IF notified[handler] THEN 0 ELSE handler]
    /\ Goto(e, IF notified[handler] THEN "repoll" ELSE "blocked")
    /\ notified' = [notified EXCEPT ![handler] = FALSE]
    /\ wrecked' = (pc[handler] = "gone")
    /\ UNCHANGED <<queueVars, cur, flagVars, monVars>>

\* Slip: cv_wait waits for the flag alone, without a timeout.
SlipCvLeave(e) ==
    /\ At(e, "blocked") /\ notified[bed[e]] /\ Goto(e, "repoll")
    /\ notified' = [notified EXCEPT ![bed[e]] = FALSE]
    /\ bed' = [bed EXCEPT ![e] = 0]
    /\ UNCHANGED <<queueVars, cur, flagVars, monVars, wrecked>>

\* Notified, or after 1000 ms: the flag is lowered either way.
CvLeave(e) ==
    /\ At(e, "blocked") /\ Goto(e, "repoll")
    /\ notified' = [notified EXCEPT ![bed[e]] = FALSE]
    /\ bed' = [bed EXCEPT ![e] = 0]
    /\ UNCHANGED <<queueVars, cur, flagVars, monVars, wrecked>>

-----------------------------------------------------------------------------
(* An executor: exec_co.                                                   *)

Begin(e) ==
    /\ At(e, "begin") /\ Goto(e, "run")
    /\ executing' = [executing EXCEPT ![e] = TRUE]
    /\ UNCHANGED <<queueVars, cur, bed, notified, turnOn, blocking, monVars, wrecked>>

\* A coroutine that cannot be resumed: m_is_blocking is left as it is.
Reject(e) ==
    /\ At(e, "run") /\ cur[e] \subseteq Leftovers
    /\ Goto(e, "loop")
    /\ cur' = [cur EXCEPT ![e] = NoTask]
    /\ executing' = [executing EXCEPT ![e] = FALSE]
    /\ UNCHANGED <<queueVars, bed, notified, turnOn, blocking, monVars, wrecked>>

\* The coroutine runs until it returns or yields; nothing obliges it to.
Finish(e) ==
    /\ At(e, "run") /\ cur[e] \subseteq Coroutines
    /\ Goto(e, "end")
    /\ cur' = [cur EXCEPT ![e] = NoTask]
    /\ UNCHANGED <<queueVars, bed, notified, flagVars, monVars, wrecked>>

\* Slip: the coroutine is put back and stays in m_cur_task_c.
SlipYield(e) ==
    /\ At(e, "run") /\ cur[e] \subseteq Coroutines
    /\ \E c \in cur[e] : Push(e, c)
    /\ Goto(e, "after")
    /\ UNCHANGED <<notifyMode, handler, toAdd, cur, bed, notified, flagVars, monVars, wrecked>>

\* cor_yield(): m_f_after_execution puts the coroutine back in line.
Yield(e) ==
    /\ At(e, "run") /\ cur[e] \subseteq Coroutines
    /\ \E c \in cur[e] : Push(e, c)
    /\ cur' = [cur EXCEPT ![e] = NoTask]
    /\ Goto(e, "after")
    /\ UNCHANGED <<notifyMode, handler, toAdd, bed, notified, flagVars, monVars, wrecked>>

Yielded(e) ==
    /\ At(e, "after") /\ send[e] = "idle"
    /\ Goto(e, "end")
    /\ UNCHANGED <<queueVars, cur, bed, notified, flagVars, monVars, wrecked>>

\* m_is_executing = false, then m_is_blocking = false.
End(e) ==
    \/ /\ At(e, "end") /\ Goto(e, "end2")
       /\ executing' = [executing EXCEPT ![e] = FALSE]
       /\ UNCHANGED <<queueVars, cur, bed, notified, turnOn, blocking, monVars, wrecked>>
    \/ /\ At(e, "end2") /\ Goto(e, "loop")
       /\ blocking' = [blocking EXCEPT ![e] = FALSE]
       /\ UNCHANGED <<queueVars, cur, bed, notified, turnOn, executing, monVars, wrecked>>

-----------------------------------------------------------------------------
(* The monitor: co_run_impl's loop.                                        *)

MonAt(from, to) == mon = from /\ mon' = to

\* More than 1000 ms since the mark.  Two ticks are at least that far apart,
\* three certainly farther.
Late == IF age < 2 THEN BOOLEAN ELSE {TRUE}

\* Slip: m_is_executing is not looked at.
SlipTick ==
    /\ MonAt("sleep", "look")
    /\ age' = IF blocking[newest] /\ age < 2 THEN age + 1 ELSE age
    /\ UNCHANGED <<queueVars, threadVars, flagVars, newest, wrecked>>

\* A second later: m_is_executing.
Tick ==
    /\ MonAt("sleep", IF executing[newest] THEN "look" ELSE "sleep")
    /\ age' = IF blocking[newest] /\ age < 2 THEN age + 1 ELSE age
    /\ UNCHANGED <<queueVars, threadVars, flagVars, newest, wrecked>>

\* m_is_blocking, and the time since it was set.  The bound on executors
\* keeps the last one.
Look ==
    /\ \E late \in Late :
        MonAt("look", CASE ~blocking[newest] -> "mark"
                        [] blocking[newest] /\ late /\ newest < MaxExecutors -> "off"
                        [] OTHER -> "sleep")
    /\ UNCHANGED <<queueVars, threadVars, flagVars, newest, age, wrecked>>

\* Slip: the time is noted and the flag forgotten.
SlipMark ==
    /\ MonAt("mark", "sleep")
    /\ age' = 0
    /\ UNCHANGED <<queueVars, threadVars, flagVars, newest, wrecked>>

Mark ==
    /\ MonAt("mark", "sleep")
    /\ blocking' = [blocking EXCEPT ![newest] = TRUE]
    /\ age' = 0
    /\ UNCHANGED <<queueVars, threadVars, turnOn, executing, newest, wrecked>>

TurnOff ==
    /\ MonAt("off", "start")
    /\ turnOn' = [turnOn EXCEPT ![newest] = FALSE]
    /\ UNCHANGED <<queueVars, threadVars, executing, blocking, newest, age, wrecked>>

\* Slip: the new executor is not put in g_executors.
SlipStartExecutor ==
    /\ MonAt("start", "sleep")
    /\ turnOn' = [turnOn EXCEPT ![newest + 1] = TRUE]
    /\ Goto(newest + 1, "start")
    /\ UNCHANGED <<queueVars, cur, bed, notified, executing, blocking, newest, age, wrecked>>

\* A new co_executor_t and its thread.
StartExecutor ==
    /\ MonAt("start", "sleep")
    /\ newest' = newest + 1
    /\ turnOn' = [turnOn EXCEPT ![newest + 1] = TRUE]
    /\ Goto(newest + 1, "start")
    /\ UNCHANGED <<queueVars, cur, bed, notified, executing, blocking, age, wrecked>>

-----------------------------------------------------------------------------
Enqueue(t) == CheckMode(t) \/ Notify(t)
Dequeue(e) == SetHandlers(e) \/ Loop(e) \/ Poll(e) \/ Repoll(e) \/ Mode(e)
Sleep(e)   == CvWait(e) \/ CvLeave(e)
Serve(e)   == Begin(e) \/ Reject(e) \/ Yielded(e) \/ End(e)
Monitor    == Tick \/ Look \/ Mark \/ TurnOff \/ StartExecutor

Next ==
    /\ ~wrecked
    /\ \/ \E task \in Tasks : Add(task)
       \/ \E t \in Executors \cup {User} : Enqueue(t)
       \/ \E e \in Executors :
            \/ Dequeue(e) \/ Sleep(e) \/ Serve(e)
            \/ Finish(e) \/ Yield(e)
       \/ Monitor

Spec == Init /\ [][Next]_vars

\* Threads are scheduled and the clock runs, but a coroutine may keep its
\* executor for ever: neither Finish nor Yield is fair.
Fairness ==
    /\ WF_vars(~wrecked /\ Monitor)
    /\ \A t \in Executors \cup {User} : WF_vars(~wrecked /\ Enqueue(t))
    /\ \A e \in Executors : WF_vars(~wrecked /\ (Dequeue(e) \/ Sleep(e) \/ Serve(e)))

FairSpec == Spec /\ Fairness

-----------------------------------------------------------------------------
(* Properties.                                                             *)

\* The queue's handlers are those of the newest executor that has started to
\* run, never those of an older one that was slow to install its own: the
\* monitor replaces only executors it has found executing, long after
\* set_handlers.  Otherwise the notifications of a queue would go for ever to
\* a thread that is leaving.
HandlersAreNewest ==
    \A e \in Executors : pc[e] \notin {"unborn", "start"} => handler >= e

\* While an executor that was replaced finishes its work beside the new one, no
\* coroutine is run by both, run while it is in line, or in line twice.
OneRunner ==
    \A c \in Coroutines :
        /\ \A e, f \in Executors : c \in cur[e] /\ c \in cur[f] => e = f
        /\ \A i, j \in DOMAIN queue : queue[i] = c /\ queue[j] = c => i = j
        /\ \A e \in Executors, i \in DOMAIN queue : c \in cur[e] => queue[i] # c

\* The bound on executors bites: the last one is busy too.
NoneToSpare == newest = MaxExecutors /\ pc[newest] = "run"

\* README_en.md says that time-consuming tasks are separated: a task that is in
\* line is taken up although the coroutines before it may never give their
\* executor back, as long as the monitor has an executor to spare, and
\* although a leaving executor can take the newest one's notification.
QueueServed ==
    \A t \in Tasks :
        (\E i \in DOMAIN queue : queue[i] = t)
            ~> ((\E e \in Executors : t \in cur[e]) \/ NoneToSpare \/ wrecked)

=============================================================================
