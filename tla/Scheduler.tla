----------------------------- MODULE Scheduler ------------------------------
(***************************************************************************)
(* The coroutine scheduler: one task queue (np_queue_t) and one executor   *)
(* thread per core, with the notify-to-poll protocol between the threads   *)
(* that enqueue and the executor that sleeps, and with work stealing.      *)
(*                                                                         *)
(* Every step of this module is at most one access to shared memory by one *)
(* thread: a pop or push of a lock-free queue, a load or store of the      *)
(* notify mode, a critical section of the condition variable.              *)
(*                                                                         *)
(* The lock-free ring under np_queue_t is taken as a bounded FIFO queue    *)
(* (module AtomicQueue models the ring itself).  Memory is sequentially    *)
(* consistent: the mode is a seq_cst atomic, the pushes and pops are atomic *)
(* read-modify-writes, which on x86-64 are fences.                         *)
(*                                                                         *)
(* A definition named Slip... is a likely mistake in the definition that   *)
(* follows it; no behaviour of the module uses it.                         *)
(***************************************************************************)
EXTENDS Integers, Sequences, FiniteSets

CONSTANTS
    NumCores,       \* gs_core_num: executors, and task queues
    Coroutines,     \* the coroutines the program can ever create
    Main,           \* the coroutine created before cor_run
    Externs,        \* the threads that are not executors: asio, user threads
    Capacity,       \* SIZE of np_queue_t
    StealMax,       \* the most tasks one steal moves (10 in the code)
    None            \* no coroutine, no queue

Cores   == 0 .. NumCores - 1
Threads == Cores \cup Externs

ASSUME CoresAssumption == NumCores \in Nat \ {0}
ASSUME ThreadsAssumption == Externs \cap Cores = {}
ASSUME NoneAssumption == None \notin Coroutines \cup Cores
ASSUME MainAssumption == Main \in Coroutines
ASSUME SizesAssumption == Capacity \in Nat \ {0} /\ StealMax \in Nat \ {0}

VARIABLES
    queue,          \* m_queue of each core's np_queue_t: tasks, oldest first
    notifyMode,     \* m_is_notify_mode of each queue
    armed,          \* the queue's m_notify_handler is set
    notified,       \* the executor's `notified' flag, under its cond_lock
    pc,             \* where each executor thread is
    cur,            \* g_cur_task_c.m_co: the coroutine an executor runs
    nested,         \* it runs it from inside the wait handler (a stolen task)
    quota,          \* tasks the current steal may still move
    stole,          \* the current steal has moved some
    hand,           \* the task a thread is moving or creating
    send,           \* how far a thread is in an enqueue
    waiting,        \* the queue captured by a coroutine's resume_f
    created,        \* coroutines that exist or existed
    finished,       \* coroutines that returned
    dropped         \* coroutines lost to a full queue

queueVars == <<queue, notifyMode, armed, notified>>
stealVars == <<quota, stole>>
coVars    == <<waiting, created, finished, dropped>>
vars      == <<queueVars, pc, cur, nested, stealVars, hand, send, coVars>>

Locations ==
    {"start", "poll", "setmode", "repoll", "clear", "size", "takeone",
     "take", "put", "endsteal", "cvlock", "blocked",
     "exec", "requeue", "register"}

\* at: between two steps of an enqueue ("try": add_task_global is choosing a
\* queue, "check": pushed, m_is_notify_mode not read yet, "notify": it was
\* true, the handler not called yet).  q: the queue.  tries: core_cnt.
Sends == [at : {"idle", "try", "check", "notify"}, q : Cores, tries : 0 .. NumCores]
Idle  == [at |-> "idle", q |-> 0, tries |-> 0]

TypeOK ==
    /\ queue \in [Cores -> Seq(Coroutines)]
    /\ notifyMode \in [Cores -> BOOLEAN]
    /\ armed \in [Cores -> BOOLEAN]
    /\ notified \in [Cores -> BOOLEAN]
    /\ pc \in [Cores -> Locations]
    /\ cur \in [Cores -> Coroutines \cup {None}]
    /\ nested \in [Cores -> BOOLEAN]
    /\ quota \in [Cores -> 0 .. StealMax]
    /\ stole \in [Cores -> BOOLEAN]
    /\ hand \in [Threads -> Coroutines \cup {None}]
    /\ send \in [Threads -> Sends]
    /\ waiting \in [Coroutines -> Cores \cup {None}]
    /\ created \in SUBSET Coroutines
    /\ finished \in SUBSET Coroutines
    /\ dropped \in SUBSET Coroutines

Init ==
    /\ queue = [q \in Cores |-> IF q = 0 THEN <<Main>> ELSE <<>>]
    /\ notifyMode = [q \in Cores |-> TRUE]
    /\ armed = [q \in Cores |-> FALSE]
    /\ notified = [q \in Cores |-> FALSE]
    /\ pc = [e \in Cores |-> "start"]
    /\ cur = [e \in Cores |-> None]
    /\ nested = [e \in Cores |-> FALSE]
    /\ quota = [e \in Cores |-> 0]
    /\ stole = [e \in Cores |-> FALSE]
    /\ hand = [t \in Threads |-> None]
    /\ send = [t \in Threads |-> Idle]
    /\ waiting = [c \in Coroutines |-> None]
    /\ created = {Main}
    /\ finished = {}
    /\ dropped = {}

-----------------------------------------------------------------------------
(* Enqueuing: np_queue_t::try_enqueue and notify.                          *)

Full(q) == Len(queue[q]) >= Capacity

\* The executor may go on with its own program; it is not inside an enqueue.
Between(t) == send[t].at = "idle"

\* try_push, the first step of try_enqueue; notify() follows in later steps.
\* A full queue loses the task: no caller keeps it or tries again.
Deliver(t, c, q) ==
    \/ /\ ~Full(q)
       /\ queue' = [queue EXCEPT ![q] = Append(@, c)]
       /\ send' = [send EXCEPT ![t] = [at |-> "check", q |-> q, tries |-> 0]]
       /\ UNCHANGED dropped
    \/ /\ Full(q)
       /\ dropped' = dropped \cup {c}
       /\ UNCHANGED <<queue, send>>

\* notify() reads m_is_notify_mode.
CheckMode(t) ==
    /\ send[t].at = "check"
    /\ send' = [send EXCEPT ![t] = IF notifyMode[@.q] THEN [@ EXCEPT !.at = "notify"]
                                                      ELSE Idle]
    /\ UNCHANGED <<queueVars, pc, cur, nested, stealVars, hand, coVars>>

\* Slip: the handler signals the condition variable and leaves the flag alone.
SlipNotify(t) ==
    /\ send[t].at = "notify"
    /\ send' = [send EXCEPT ![t] = Idle]
    /\ UNCHANGED <<queueVars, pc, cur, nested, stealVars, hand, coVars>>

\* notify() calls the handler, if one is set: it raises `notified' under
\* cond_lock and signals the condition variable.
Notify(t) ==
    /\ send[t].at = "notify"
    /\ send' = [send EXCEPT ![t] = Idle]
    /\ notified' = IF armed[send[t].q] THEN [notified EXCEPT ![send[t].q] = TRUE]
                                       ELSE notified
    /\ UNCHANGED <<queue, notifyMode, armed, pc, cur, nested, stealVars, hand, coVars>>

\* User code: an external thread, or the coroutine an executor runs.
RunsUserCode(t) == Between(t) /\ hand[t] = None /\ (t \in Cores => pc[t] = "exec")

\* cppt_co_create0: make the task, then add it to some queue.
Create(t, c) ==
    /\ RunsUserCode(t)
    /\ c \notin created
    /\ created' = created \cup {c}
    /\ hand' = [hand EXCEPT ![t] = c]
    /\ send' = [send EXCEPT ![t] = [at |-> "try", q |-> 0, tries |-> 0]]
    /\ UNCHANGED <<queueVars, pc, cur, nested, stealVars, waiting, finished, dropped>>

\* Slip: no return after the try_enqueue that succeeds.
SlipCreateTry(t, q) ==
    /\ send[t].at = "try"
    /\ \/ /\ ~Full(q)
          /\ queue' = [queue EXCEPT ![q] = Append(@, hand[t])]
       \/ Full(q) /\ UNCHANGED queue
    /\ \/ /\ send[t].tries < NumCores
          /\ send' = [send EXCEPT ![t] = [at |-> "try", q |-> 0, tries |-> @.tries + 1]]
          /\ UNCHANGED hand
       \/ /\ send[t].tries = NumCores
          /\ send' = [send EXCEPT ![t] = Idle]
          /\ hand' = [hand EXCEPT ![t] = None]
    /\ UNCHANGED <<notifyMode, armed, notified, pc, cur, nested, stealVars, coVars>>

\* One round of cppt_co_add_task_global.  gs_use_core is a plain counter that
\* all threads increment, so the queue it picks can be any; NumCores + 1
\* full queues in a row lose the task.
CreateTry(t, q) ==
    /\ send[t].at = "try"
    /\ \/ /\ ~Full(q)
          /\ Deliver(t, hand[t], q)
          /\ hand' = [hand EXCEPT ![t] = None]
       \/ /\ Full(q) /\ send[t].tries < NumCores
          /\ send' = [send EXCEPT ![t] = [at |-> "try", q |-> 0, tries |-> @.tries + 1]]
          /\ UNCHANGED <<queue, hand, dropped>>
       \/ /\ Full(q) /\ send[t].tries = NumCores
          /\ send' = [send EXCEPT ![t] = Idle]
          /\ dropped' = dropped \cup {hand[t]}
          /\ hand' = [hand EXCEPT ![t] = None]
          /\ UNCHANGED queue
    /\ UNCHANGED <<notifyMode, armed, notified, pc, cur, nested, stealVars,
                   waiting, created, finished>>

\* Slip: the operation's handler can be called again.
SlipResume(t, c) ==
    /\ RunsUserCode(t)
    /\ waiting[c] # None
    /\ Deliver(t, c, waiting[c])
    /\ UNCHANGED <<notifyMode, armed, notified, pc, cur, nested, stealVars, hand,
                   waiting, created, finished>>

\* resume_f: what a coroutine waits for is over, and it goes back to the
\* queue of the executor it left.  Called once per wait, by an external
\* thread or by another coroutine.
Resume(t, c) ==
    /\ RunsUserCode(t)
    /\ waiting[c] # None
    /\ Deliver(t, c, waiting[c])
    /\ waiting' = [waiting EXCEPT ![c] = None]
    /\ UNCHANGED <<notifyMode, armed, notified, pc, cur, nested, stealVars, hand,
                   created, finished>>

-----------------------------------------------------------------------------
(* The executor: np_queue_t::dequeue.                                      *)

Goto(e, l) == pc' = [pc EXCEPT ![e] = l]

\* A pop that succeeds, into g_cur_task_c.
Take(e, q) ==
    /\ queue[q] # <<>>
    /\ cur' = [cur EXCEPT ![e] = Head(queue[q])]
    /\ queue' = [queue EXCEPT ![q] = Tail(@)]

\* The thread installs its handlers and enters its loop.
SetHandlers(e) ==
    /\ pc[e] = "start"
    /\ armed' = [armed EXCEPT ![e] = TRUE]
    /\ Goto(e, "poll")
    /\ UNCHANGED <<queue, notifyMode, notified, cur, nested, stealVars, hand, send, coVars>>

\* dequeue: the first try_pop.
Poll(e) ==
    /\ pc[e] = "poll" /\ Between(e)
    /\ \/ /\ Take(e, e)
          /\ Goto(e, "exec")
       \/ /\ queue[e] = <<>>
          /\ Goto(e, "setmode")
          /\ UNCHANGED <<queue, cur>>
    /\ UNCHANGED <<notifyMode, armed, notified, nested, stealVars, hand, send, coVars>>

\* Slip: the queue is not polled again once notify mode is on.
SlipSetMode(e) ==
    /\ pc[e] = "setmode"
    /\ notifyMode' = [notifyMode EXCEPT ![e] = TRUE]
    /\ Goto(e, IF NumCores > 1 THEN "size" ELSE "cvlock")
    /\ UNCHANGED <<queue, armed, notified, cur, nested, stealVars, hand, send, coVars>>

SetMode(e) ==
    /\ pc[e] = "setmode"
    /\ notifyMode' = [notifyMode EXCEPT ![e] = TRUE]
    /\ Goto(e, "repoll")
    /\ UNCHANGED <<queue, armed, notified, cur, nested, stealVars, hand, send, coVars>>

\* dequeue: the try_pop in the loop, after notify mode is on.  Only when it
\* fails too does the executor call its wait handler.
Repoll(e) ==
    /\ pc[e] = "repoll" /\ Between(e)
    /\ \/ /\ Take(e, e)
          /\ Goto(e, "clear")
       \/ /\ queue[e] = <<>>
          /\ Goto(e, IF NumCores > 1 THEN "size" ELSE "cvlock")
          /\ UNCHANGED <<queue, cur>>
    /\ UNCHANGED <<notifyMode, armed, notified, nested, stealVars, hand, send, coVars>>

ClearMode(e) ==
    /\ pc[e] = "clear"
    /\ notifyMode' = [notifyMode EXCEPT ![e] = FALSE]
    /\ Goto(e, "exec")
    /\ UNCHANGED <<queue, armed, notified, cur, nested, stealVars, hand, send, coVars>>

-----------------------------------------------------------------------------
(* The executor: the wait handler, which steals before it sleeps.          *)

Neighbour(e) == (e + 1) % NumCores

StealQuota(n) == IF (n + 1) \div 2 < StealMax THEN (n + 1) \div 2 ELSE StealMax

\* The thread looks once at its neighbour's size.
LookAtNeighbour(e) ==
    /\ pc[e] = "size"
    /\ LET n == Len(queue[Neighbour(e)]) IN
        /\ quota' = [quota EXCEPT ![e] = IF n > 1 THEN StealQuota(n) ELSE 0]
        /\ Goto(e, IF n > 1 THEN "take" ELSE IF n = 1 THEN "takeone" ELSE "cvlock")
    /\ UNCHANGED <<queueVars, cur, nested, stole, hand, send, coVars>>

\* Slip: the handler sleeps after a steal instead of polling again.
SlipLeaveLoop(e) ==
    /\ Goto(e, "cvlock")
    /\ quota' = [quota EXCEPT ![e] = 0]
    /\ stole' = [stole EXCEPT ![e] = FALSE]

\* The loop is left; the handler polls again if it moved a task.
LeaveLoop(e) ==
    /\ Goto(e, IF stole[e] THEN "endsteal" ELSE "cvlock")
    /\ quota' = [quota EXCEPT ![e] = 0]
    /\ stole' = [stole EXCEPT ![e] = FALSE]

\* Slip: `i <= steal_task_num' in the loop.
SlipStealTake(e) ==
    /\ pc[e] = "take"
    /\ LET v == Neighbour(e) IN
        \/ /\ quota[e] >= 0 /\ queue[v] # <<>>
           /\ hand' = [hand EXCEPT ![e] = Head(queue[v])]
           /\ queue' = [queue EXCEPT ![v] = Tail(@)]
           /\ Goto(e, "put")
           /\ UNCHANGED stealVars
        \/ /\ quota[e] < 0 \/ queue[v] = <<>>
           /\ LeaveLoop(e)
           /\ UNCHANGED <<queue, hand>>
    /\ UNCHANGED <<notifyMode, armed, notified, cur, nested, send, coVars>>

\* The loop that moves half of the neighbour's tasks: its condition and its
\* try_dequeue.  Without a task in hand the loop is left.
StealTake(e) ==
    /\ pc[e] = "take"
    /\ LET v == Neighbour(e) IN
        \/ /\ quota[e] > 0 /\ queue[v] # <<>>
           /\ hand' = [hand EXCEPT ![e] = Head(queue[v])]
           /\ queue' = [queue EXCEPT ![v] = Tail(@)]
           /\ Goto(e, "put")
           /\ UNCHANGED stealVars
        \/ /\ quota[e] = 0 \/ queue[v] = <<>>
           /\ LeaveLoop(e)
           /\ UNCHANGED <<queue, hand>>
    /\ UNCHANGED <<notifyMode, armed, notified, cur, nested, send, coVars>>

\* try_enqueue_no_notify into the thief's own queue; if that is full the task
\* in hand is lost and the loop is left.
StealPut(e) ==
    /\ pc[e] = "put"
    /\ hand' = [hand EXCEPT ![e] = None]
    /\ \/ /\ ~Full(e)
          /\ queue' = [queue EXCEPT ![e] = Append(@, hand[e])]
          /\ quota' = [quota EXCEPT ![e] = @ - 1]
          /\ stole' = [stole EXCEPT ![e] = TRUE]
          /\ Goto(e, "take")
          /\ UNCHANGED dropped
       \/ /\ Full(e)
          /\ dropped' = dropped \cup {hand[e]}
          /\ LeaveLoop(e)
          /\ UNCHANGED queue
    /\ UNCHANGED <<notifyMode, armed, notified, cur, nested, send, waiting, created, finished>>

\* A neighbour with one task: the thief takes it and runs it at once.
StealOne(e) ==
    /\ pc[e] = "takeone"
    /\ \/ /\ Take(e, Neighbour(e))
          /\ nested' = [nested EXCEPT ![e] = TRUE]
          /\ Goto(e, "exec")
       \/ /\ queue[Neighbour(e)] = <<>>
          /\ Goto(e, "cvlock")
          /\ UNCHANGED <<queue, cur, nested>>
    /\ UNCHANGED <<notifyMode, armed, notified, stealVars, hand, send, coVars>>

\* After a steal the handler resets `notified', without the lock, and dequeue
\* polls again.
EndSteal(e) ==
    /\ pc[e] = "endsteal" /\ Between(e)
    /\ notified' = [notified EXCEPT ![e] = FALSE]
    /\ Goto(e, "repoll")
    /\ UNCHANGED <<queue, notifyMode, armed, cur, nested, stealVars, hand, send, coVars>>

\* cv_wait: wait_for first tests the flag.  With several cores it then sleeps
\* up to 1000 ms; a single core passes dequeue's timeout of 0, and returns.
CvWait(e) ==
    /\ pc[e] = "cvlock"
    /\ \/ /\ notified[e] \/ NumCores = 1
          /\ notified' = [notified EXCEPT ![e] = FALSE]
          /\ Goto(e, "repoll")
       \/ /\ ~notified[e] /\ NumCores > 1
          /\ Goto(e, "blocked")
          /\ UNCHANGED notified
    /\ UNCHANGED <<queue, notifyMode, armed, cur, nested, stealVars, hand, send, coVars>>

Unblock(e) ==
    /\ pc[e] = "blocked"
    /\ notified' = [notified EXCEPT ![e] = FALSE]
    /\ Goto(e, "repoll")
    /\ UNCHANGED <<queue, notifyMode, armed, cur, nested, stealVars, hand, send, coVars>>

CvWake(e) == notified[e] /\ Unblock(e)

CvTimeout(e) == ~notified[e] /\ Unblock(e)

-----------------------------------------------------------------------------
(* The executor: exec_co.  The coroutine switches back to the executor,    *)
(* which then runs m_f_after_execution.                                    *)

\* Back to the loop, or to the end of the wait handler that ran a stolen task.
Resched(e) ==
    /\ Goto(e, IF nested[e] THEN "endsteal" ELSE "poll")
    /\ nested' = [nested EXCEPT ![e] = FALSE]

\* cor_yield() switches out; the executor requeues the coroutine afterwards.
CoYield(e) ==
    /\ pc[e] = "exec" /\ Between(e)
    /\ Goto(e, "requeue")
    /\ UNCHANGED <<queueVars, cur, nested, stealVars, hand, send, coVars>>

Requeue(e) ==
    /\ pc[e] = "requeue"
    /\ Deliver(e, cur[e], e)
    /\ cur' = [cur EXCEPT ![e] = None]
    /\ Resched(e)
    /\ UNCHANGED <<notifyMode, armed, notified, stealVars, hand, waiting, created, finished>>

\* Slip: resume_f is handed out before the coroutine has switched out.
SlipCoSuspend(e) ==
    /\ pc[e] = "exec" /\ Between(e)
    /\ waiting' = [waiting EXCEPT ![cur[e]] = e]
    /\ Goto(e, "register")
    /\ UNCHANGED <<queueVars, cur, nested, stealVars, hand, send, created, finished, dropped>>

\* cor_yield(wrapped_extern_func) switches out; only then does the executor
\* call wrapped_extern_func with the resume_f that brings the coroutine back.
CoSuspend(e) ==
    /\ pc[e] = "exec" /\ Between(e)
    /\ Goto(e, "register")
    /\ UNCHANGED <<queueVars, cur, nested, stealVars, hand, send, coVars>>

Register(e) ==
    /\ pc[e] = "register"
    /\ waiting' = [waiting EXCEPT ![cur[e]] = e]
    /\ cur' = [cur EXCEPT ![e] = None]
    /\ Resched(e)
    /\ UNCHANGED <<queueVars, stealVars, hand, send, created, finished, dropped>>

\* The user function returns.
CoFinish(e) ==
    /\ pc[e] = "exec" /\ Between(e)
    /\ finished' = finished \cup {cur[e]}
    /\ cur' = [cur EXCEPT ![e] = None]
    /\ Resched(e)
    /\ UNCHANGED <<queueVars, stealVars, hand, send, waiting, created, dropped>>

-----------------------------------------------------------------------------
Dequeue(e)   == SetHandlers(e) \/ Poll(e) \/ SetMode(e) \/ Repoll(e) \/ ClearMode(e)
Steal(e)     == LookAtNeighbour(e) \/ StealTake(e) \/ StealPut(e) \/ StealOne(e) \/ EndSteal(e)
Sleep(e)     == CvWait(e) \/ CvWake(e)
Leave(e)     == CoYield(e) \/ CoSuspend(e) \/ CoFinish(e)
Execute(e)   == Leave(e) \/ Requeue(e) \/ Register(e)
Enqueue(t)   == CheckMode(t) \/ Notify(t) \/ \E q \in Cores : CreateTry(t, q)
UserCalls(t) == \E c \in Coroutines : Create(t, c) \/ Resume(t, c)

Next ==
    \/ \E e \in Cores : Dequeue(e) \/ Steal(e) \/ Sleep(e) \/ CvTimeout(e) \/ Execute(e)
    \/ \E t \in Threads : Enqueue(t) \/ UserCalls(t)

Spec == Init /\ [][Next]_vars

\* Threads are scheduled.  A coroutine does not keep its executor forever, even
\* if it calls the runtime again and again (strong fairness, since it cannot
\* leave in the middle of a call).  Nothing obliges user code to create or
\* resume, and no step relies on the 1000 ms timeout.
Fairness ==
    /\ \A e \in Cores :
        /\ WF_vars(Dequeue(e) \/ Steal(e) \/ Sleep(e) \/ Requeue(e) \/ Register(e))
        /\ SF_vars(Leave(e))
    /\ \A t \in Threads : WF_vars(Enqueue(t))

FairSpec == Spec /\ Fairness

-----------------------------------------------------------------------------
(* Properties.                                                             *)

\* Thread t has pushed to queue q and is not through with the notify() that
\* follows the push.
Alerting(t, q) == send[t].at \in {"check", "notify"} /\ send[t].q = q

\* An executor that sleeps while its queue holds a task has been notified, or
\* some thread that enqueued is on its way to notify it and will find notify
\* mode on and a handler: the wake-up of np_queue_t::dequeue is not lost
\* whatever the order of pushes, polls, mode changes, steals and timeouts.
NoLostWakeup ==
    \A e \in Cores :
        (pc[e] = "blocked" /\ queue[e] # <<>>) =>
            \/ notified[e]
            \/ notifyMode[e] /\ armed[e] /\ \E t \in Threads : Alerting(t, e)

\* The places that hold coroutine c: positions of queues, the hands of threads,
\* the executors that run it, a resume_f, and the two ends it can come to.
Places(c) ==
    {<<"queue", p[1], p[2]>> :
        p \in {r \in UNION {{q} \X DOMAIN queue[q] : q \in Cores} : queue[r[1]][r[2]] = c}}
    \cup {<<"hand", t>> : t \in {u \in Threads : hand[u] = c}}
    \cup {<<"cur", e>> : e \in {f \in Cores : cur[f] = c}}
    \cup {<<"waiting">> : q \in {waiting[c]} \ {None}}
    \cup {<<"finished">> : d \in finished \cap {c}}
    \cup {<<"dropped">> : d \in dropped \cap {c}}

\* Every coroutine that was created is in exactly one place: no two executors
\* ever hold it (a coroutine dispatched twice would run on one stack from two
\* threads), it is not in line twice, and it is never forgotten.  Stealing,
\* yielding, suspension and resumption race with each other to break this.
OnePlace ==
    \A c \in Coroutines : Cardinality(Places(c)) = IF c \in created THEN 1 ELSE 0

\* A sleeping executor whose queue holds a task leaves its sleep, or a thief
\* takes the task: without the help of the 1000 ms timeout.
WakesUp ==
    \A e \in Cores :
        (pc[e] = "blocked" /\ queue[e] # <<>>) ~> (pc[e] # "blocked" \/ queue[e] = <<>>)

\* Coroutine c is stolen, and put in line again.
Stolen(c) == \E e \in Cores : StealPut(e) /\ hand[e] = c

\* A coroutine that is in line is run, or a full queue drops it when it is stolen,
\* unless idle executors steal it from each other again and again (which can go
\* on for ever with three coroutines on two cores): no other order of polls,
\* steals, sleeps and yields keeps it in line.
ReadyRuns ==
    \A c \in Coroutines :
        \/ (\E q \in Cores : \E i \in DOMAIN queue[q] : queue[q][i] = c)
              ~> (c \in dropped \/ \E e \in Cores : cur[e] = c)
        \/ []<><<Stolen(c)>>_vars

\* The runtime implements the life of coroutines as its users see it.
Life(c) ==
    CASE c \notin created -> "unborn"
      [] c \in finished -> "done"
      [] c \in dropped -> "lost"
      [] waiting[c] # None -> "waiting"
      [] \E e \in Cores : cur[e] = c -> "running"
      [] OTHER -> "ready"

Lifecycle == INSTANCE CoroutineLifecycle
                WITH life <- [c \in Coroutines |-> Life(c)], runs <- cur

\* The scheduler implements CoroutineLifecycle: each of its steps, taken for one
\* coroutine, is a step of that coroutine's life or none.
ImplementsLifecycle == Lifecycle!Spec

=============================================================================
