------------------------------ MODULE CorMutex -------------------------------
(***************************************************************************)
(* cor_mutex_t: a lock for coroutines, built from an atomic flag and a     *)
(* queue of suspended continuations.                                       *)
(*                                                                         *)
(* A coroutine that finds the flag set switches to a helper context on the *)
(* same executor.  The helper owns the coroutine's continuation (caller_c),*)
(* shares it with the wait queue, tries the flag once more and then either *)
(* resumes the coroutine itself or returns to the executor.  From the      *)
(* moment of the push an unlocker on another executor can schedule the     *)
(* same continuation, while the helper still runs.                         *)
(*                                                                         *)
(* A continuation object is a cell that holds a suspended coroutine or is  *)
(* empty; resuming it empties it, and a coroutine that yields under the    *)
(* task built on a cell fills that cell again (resume_user_co assigns to it).  *)
(* Scheduling is abstract here: a task that is ready can be run by any     *)
(* executor, and any task can be dropped, since the task queues are full   *)
(* of other coroutines' tasks at any time (module Scheduler has them).     *)
(*                                                                         *)
(* A definition named Slip... is a likely mistake in the definition that   *)
(* follows it; no behaviour of the module uses it.                         *)
(***************************************************************************)
EXTENDS Integers, Sequences, FiniteSets, Functions

CONSTANTS
    Executors,
    Coroutines,
    WaitSize,       \* size of m_wait_cos
    Budget,         \* bound: locks and yields in each coroutine's program
    None            \* no coroutine, no cell

ASSUME NoneAssumption == None \notin Coroutines /\ None \notin Nat
ASSUME BoundsAssumption == WaitSize \in Nat \ {0} /\ Budget \in [Coroutines -> Nat]
ASSUME ActorsAssumption == IsFiniteSet(Executors) /\ IsFiniteSet(Coroutines)

\* Continuation objects; one that nothing refers to is reused.  Bound: while
\* all of them are referred to, no coroutine gets a new one.
Cells == 1 .. 2 * Cardinality(Coroutines) + WaitSize + 3 * Cardinality(Executors)

VARIABLES
    locked,         \* m_lock_acquired
    waitCos,        \* m_wait_cos: cells, oldest first
    tasks,          \* cells of the tasks that are ready to run
    content,        \* what a cell holds: a suspended coroutine, or None
    pc,             \* where each executor's thread is
    task,           \* the cell of the task it runs
    co,             \* the coroutine it runs, or whose helper it runs
    callerC,        \* caller_c of the helper it runs
    ele,            \* the element unlock() has popped
    stage,          \* "free", "wants", "holds" or "done"
    budget,         \* what is left of a coroutine's program
    destroyed,      \* coroutines unwound because the wait queue was full
    dropped,        \* coroutines whose task was dropped, and which did not go on
    wrecked,        \* an empty or foreign continuation was resumed
    leaked          \* history: a helper took the lock and found no caller_c

ownVars == <<pc, task, co, callerC, ele>>
coVars  == <<stage, budget, destroyed, dropped>>
vars    == <<locked, waitCos, tasks, content, ownVars, coVars, wrecked, leaked>>

Locations == {"idle", "check", "resume", "run", "requeue", "lock", "push", "cas",
              "valid", "move", "pop", "test", "add"}

TypeOK ==
    /\ {locked, wrecked, leaked} \subseteq BOOLEAN
    /\ waitCos \in Seq(Cells) /\ Len(waitCos) <= WaitSize
    /\ tasks \subseteq Cells
    /\ content \in [Cells -> Coroutines \cup {None}]
    /\ pc \in [Executors -> Locations]
    /\ task \in [Executors -> Cells \cup {None}]
    /\ co \in [Executors -> Coroutines \cup {None}]
    /\ callerC \in [Executors -> Cells \cup {None}]
    /\ ele \in [Executors -> Cells \cup {None}]
    /\ stage \in [Coroutines -> {"free", "wants", "holds", "done"}]
    /\ budget \in [Coroutines -> Nat]
    /\ destroyed \subseteq Coroutines /\ dropped \subseteq Coroutines

\* Coroutines and the cells of their tasks, in an order that does not matter:
\* any ready task can be fetched.
Order == CHOOSE f \in Bijection(1 .. Cardinality(Coroutines), Coroutines) : TRUE

\* Every coroutine has a task of its own, ready to run.
Init ==
    /\ locked = FALSE /\ wrecked = FALSE /\ leaked = FALSE
    /\ waitCos = <<>>
    /\ tasks = DOMAIN Order
    /\ content = [x \in Cells |-> IF x \in DOMAIN Order THEN Order[x] ELSE None]
    /\ pc = [e \in Executors |-> "idle"]
    /\ task = [e \in Executors |-> None]
    /\ co = [e \in Executors |-> None]
    /\ callerC = [e \in Executors |-> None]
    /\ ele = [e \in Executors |-> None]
    /\ stage = [c \in Coroutines |-> "free"]
    /\ budget = Budget
    /\ destroyed = {} /\ dropped = {}

At(e, l) == pc[e] = l /\ ~wrecked
Goto(e, l) == pc' = [pc EXCEPT ![e] = l]

\* The executor's thread is back in its loop; the task it ran is dropped.
ToExecutor(e) ==
    /\ Goto(e, "idle")
    /\ task' = [task EXCEPT ![e] = None]
    /\ co' = [co EXCEPT ![e] = None]
    /\ callerC' = [callerC EXCEPT ![e] = None]
    /\ UNCHANGED ele

\* Resuming an empty continuation, or one that does not expect it, is the end.
Wreck ==
    /\ wrecked' = TRUE
    /\ UNCHANGED <<locked, waitCos, tasks, content, ownVars, coVars, leaked>>

\* cppt_co_add_task: a full task queue drops the task, and the suspended
\* coroutine with it; no caller looks at the result.
AddTask(x) ==
    \/ /\ tasks' = tasks \cup {x}
       /\ UNCHANGED dropped
    \/ /\ dropped' = dropped \cup ({content[x]} \ {None})
       /\ UNCHANGED tasks

-----------------------------------------------------------------------------
(* The executor: exec_co and resume_user_co.                               *)

Fetch(e) ==
    /\ At(e, "idle")
    /\ \E x \in tasks :
        /\ tasks' = tasks \ {x}
        /\ task' = [task EXCEPT ![e] = x]
    /\ Goto(e, "check")
    /\ UNCHANGED <<locked, waitCos, content, co, callerC, ele, coVars, wrecked, leaked>>

\* can_resume(): an empty continuation is skipped.
CanResume(e) ==
    /\ At(e, "check")
    /\ \/ /\ content[task[e]] # None
          /\ Goto(e, "resume")
          /\ UNCHANGED <<task, co, callerC, ele>>
       \/ /\ content[task[e]] = None
          /\ ToExecutor(e)
    /\ UNCHANGED <<locked, waitCos, tasks, content, coVars, wrecked, leaked>>

\* Slip: a coroutine that is scheduled again takes the lock for its own.
SlipResumeCo(e) ==
    /\ At(e, "resume")
    /\ \/ /\ content[task[e]] # None
          /\ LET c == content[task[e]] IN
              /\ co' = [co EXCEPT ![e] = c]
              /\ stage' = [stage EXCEPT ![c] = IF @ = "wants" THEN "holds" ELSE @]
          /\ Goto(e, "run")
          /\ content' = [content EXCEPT ![task[e]] = None]
          /\ UNCHANGED <<locked, waitCos, tasks, task, callerC, ele, budget, destroyed, dropped, wrecked, leaked>>
       \/ content[task[e]] = None /\ Wreck

\* resume_user_co(): a coroutine that waits for the lock tries it again, any
\* other goes on with its program.
ResumeCo(e) ==
    /\ At(e, "resume")
    /\ \/ /\ content[task[e]] # None
          /\ LET c == content[task[e]] IN
              /\ co' = [co EXCEPT ![e] = c]
              /\ Goto(e, IF stage[c] = "wants" THEN "lock" ELSE "run")
          /\ content' = [content EXCEPT ![task[e]] = None]
          /\ UNCHANGED <<locked, waitCos, tasks, task, callerC, ele, coVars, wrecked, leaked>>
       \/ content[task[e]] = None /\ Wreck

\* Slip: the task goes back in line without its continuation.
SlipYield(e) ==
    /\ At(e, "run") /\ budget[co[e]] > 0
    /\ budget' = [budget EXCEPT ![co[e]] = @ - 1]
    /\ Goto(e, "requeue")
    /\ co' = [co EXCEPT ![e] = None]
    /\ UNCHANGED <<locked, waitCos, tasks, content, task, callerC, ele, stage, destroyed, dropped, wrecked, leaked>>

\* cor_yield() between two operations: the coroutine's continuation goes to
\* the cell of its task, then the task goes back in line.
Yield(e) ==
    /\ At(e, "run") /\ budget[co[e]] > 0
    /\ budget' = [budget EXCEPT ![co[e]] = @ - 1]
    /\ content' = [content EXCEPT ![task[e]] = co[e]]
    /\ Goto(e, "requeue")
    /\ co' = [co EXCEPT ![e] = None]
    /\ UNCHANGED <<locked, waitCos, tasks, task, callerC, ele, stage, destroyed, dropped, wrecked, leaked>>

Requeue(e) ==
    /\ At(e, "requeue")
    /\ AddTask(task[e])
    /\ ToExecutor(e)
    /\ UNCHANGED <<locked, waitCos, content, stage, budget, destroyed, wrecked, leaked>>

\* The user function returns; it leaves no lock behind.
Finish(e) ==
    /\ At(e, "run") /\ stage[co[e]] = "free"
    /\ stage' = [stage EXCEPT ![co[e]] = "done"]
    /\ ToExecutor(e)
    /\ UNCHANGED <<locked, waitCos, tasks, content, budget, destroyed, dropped, wrecked, leaked>>

-----------------------------------------------------------------------------
(* lock()                                                                  *)

CallLock(e) ==
    /\ At(e, "run") /\ stage[co[e]] = "free" /\ budget[co[e]] > 0
    /\ budget' = [budget EXCEPT ![co[e]] = @ - 1]
    /\ stage' = [stage EXCEPT ![co[e]] = "wants"]
    /\ Goto(e, "lock")
    /\ UNCHANGED <<locked, waitCos, tasks, content, task, co, callerC, ele, destroyed, dropped, wrecked, leaked>>

Referred ==
    tasks \cup {waitCos[i] : i \in DOMAIN waitCos}
          \cup UNION {{task[e], callerC[e], ele[e]} : e \in Executors}

\* x is the first cell nothing refers to: std::make_shared<continuation>.
FreshCell(x) ==
    LET unused == Cells \ Referred IN x \in unused /\ \A y \in unused : x <= y

\* The first compare_exchange: the lock, or a helper that owns the coroutine.
LockCas(e) ==
    /\ At(e, "lock")
    /\ \/ /\ ~locked
          /\ locked' = TRUE
          /\ stage' = [stage EXCEPT ![co[e]] = "holds"]
          /\ Goto(e, "run")
          /\ UNCHANGED <<content, callerC>>
       \/ /\ locked
          /\ \E x \in Cells :
              /\ FreshCell(x)
              /\ callerC' = [callerC EXCEPT ![e] = x]
              /\ content' = [content EXCEPT ![x] = co[e]]
          /\ Goto(e, "push")
          /\ UNCHANGED <<locked, stage>>
    /\ UNCHANGED <<waitCos, tasks, task, co, ele, budget, destroyed, dropped, wrecked, leaked>>

\* Slip: a push that does not look at the size of the queue.
SlipPush(e) ==
    /\ At(e, "push")
    /\ waitCos' = Append(waitCos, callerC[e])
    /\ Goto(e, "cas")
    /\ UNCHANGED <<locked, tasks, content, task, co, callerC, ele, coVars, wrecked, leaked>>

\* The helper shares caller_c with the wait queue.  If that is full caller_c
\* goes out of scope, and the coroutine with it.
Push(e) ==
    /\ At(e, "push")
    /\ \/ /\ Len(waitCos) < WaitSize
          /\ waitCos' = Append(waitCos, callerC[e])
          /\ Goto(e, "cas")
          /\ UNCHANGED <<content, task, co, callerC, ele, destroyed>>
       \/ /\ Len(waitCos) >= WaitSize
          /\ destroyed' = destroyed \cup {co[e]}
          /\ content' = [content EXCEPT ![callerC[e]] = None]
          /\ ToExecutor(e)
          /\ UNCHANGED waitCos
    /\ UNCHANGED <<locked, tasks, stage, budget, dropped, wrecked, leaked>>

\* The helper's compare_exchange.
HelperCas(e) ==
    /\ At(e, "cas")
    /\ \/ /\ ~locked
          /\ locked' = TRUE
          /\ Goto(e, "valid")
          /\ UNCHANGED <<task, co, callerC, ele>>
       \/ /\ locked
          /\ ToExecutor(e)
          /\ UNCHANGED locked
    /\ UNCHANGED <<waitCos, tasks, content, coVars, wrecked, leaked>>

\* With the lock taken the helper tests caller_c.  An empty one is logged, and
\* the lock stays taken.
Valid(e) ==
    /\ At(e, "valid")
    /\ \/ /\ content[callerC[e]] # None
          /\ Goto(e, "move")
          /\ UNCHANGED <<task, co, callerC, ele, leaked>>
       \/ /\ content[callerC[e]] = None
          /\ leaked' = TRUE
          /\ ToExecutor(e)
    /\ UNCHANGED <<locked, waitCos, tasks, content, coVars, wrecked>>

\* The helper returns caller_c: the coroutine returns from lock(), even if an
\* unlocker's task for it was dropped.
Move(e) ==
    /\ At(e, "move")
    /\ \/ /\ content[callerC[e]] = co[e] /\ stage[co[e]] = "wants"
          /\ content' = [content EXCEPT ![callerC[e]] = None]
          /\ callerC' = [callerC EXCEPT ![e] = None]
          /\ stage' = [stage EXCEPT ![co[e]] = "holds"]
          /\ dropped' = dropped \ {co[e]}
          /\ Goto(e, "run")
          /\ UNCHANGED <<locked, waitCos, tasks, task, co, ele, budget, destroyed, wrecked, leaked>>
       \/ /\ content[callerC[e]] # co[e] \/ stage[co[e]] # "wants"
          /\ Wreck

-----------------------------------------------------------------------------
(* unlock()                                                                *)

\* Slip: with a waiter in the queue the flag is left set, for the waiter.
SlipUnlockCas(e) ==
    /\ At(e, "run") /\ stage[co[e]] = "holds"
    /\ locked' = (waitCos # <<>>)
    /\ stage' = [stage EXCEPT ![co[e]] = "free"]
    /\ Goto(e, "pop")
    /\ UNCHANGED <<waitCos, tasks, content, task, co, callerC, ele, budget, destroyed, dropped, wrecked, leaked>>

UnlockCas(e) ==
    /\ At(e, "run")
    /\ \E c \in Coroutines :
        /\ co[e] = c /\ stage[c] = "holds"
        /\ stage' = [stage EXCEPT ![c] = "free"]
    /\ locked' = FALSE
    /\ Goto(e, "pop")
    /\ UNCHANGED <<waitCos, tasks, content, task, co, callerC, ele, budget, destroyed, dropped, wrecked, leaked>>

Pop(e) ==
    /\ At(e, "pop")
    /\ \/ /\ waitCos # <<>>
          /\ ele' = [ele EXCEPT ![e] = Head(waitCos)]
          /\ waitCos' = Tail(waitCos)
          /\ Goto(e, "test")
       \/ /\ waitCos = <<>>
          /\ Goto(e, "run")
          /\ UNCHANGED <<waitCos, ele>>
    /\ UNCHANGED <<locked, tasks, content, task, co, callerC, coVars, wrecked, leaked>>

\* Slip: one element is popped, whether its coroutine has gone or not.
SlipTest(e) ==
    /\ At(e, "test")
    /\ \/ /\ content[ele[e]] # None
          /\ Goto(e, "add")
          /\ UNCHANGED ele
       \/ /\ content[ele[e]] = None
          /\ ele' = [ele EXCEPT ![e] = None]
          /\ Goto(e, "run")
    /\ UNCHANGED <<locked, waitCos, tasks, content, task, co, callerC, coVars, wrecked, leaked>>

\* An element whose coroutine has gone is skipped.
Test(e) ==
    /\ At(e, "test")
    /\ \/ /\ content[ele[e]] # None
          /\ Goto(e, "add")
          /\ UNCHANGED ele
       \/ /\ content[ele[e]] = None
          /\ ele' = [ele EXCEPT ![e] = None]
          /\ Goto(e, "pop")
    /\ UNCHANGED <<locked, waitCos, tasks, content, task, co, callerC, coVars, wrecked, leaked>>

\* cppt_co_add_c_ptr: a new task on the same continuation.
Add(e) ==
    /\ At(e, "add")
    /\ AddTask(ele[e])
    /\ ele' = [ele EXCEPT ![e] = None]
    /\ Goto(e, "run")
    /\ UNCHANGED <<locked, waitCos, content, task, co, callerC, stage, budget, destroyed,
                   wrecked, leaked>>

-----------------------------------------------------------------------------
Schedule(e) == Fetch(e) \/ CanResume(e) \/ ResumeCo(e) \/ Yield(e) \/ Requeue(e) \/ Finish(e)
Lock(e)     == CallLock(e) \/ LockCas(e) \/ Push(e) \/ HelperCas(e) \/ Valid(e) \/ Move(e)
Unlock(e)   == UnlockCas(e) \/ Pop(e) \/ Test(e) \/ Add(e)

Next == \E e \in Executors : Schedule(e) \/ Lock(e) \/ Unlock(e)

Spec == Init /\ [][Next]_vars

\* The threads of the executors are scheduled.
FairSpec ==
    /\ Spec
    /\ \A e \in Executors : WF_vars(Schedule(e) \/ Lock(e) \/ Unlock(e))

-----------------------------------------------------------------------------
(* Properties.                                                             *)

\* lock() has returned to at most one coroutine that has not called unlock()
\* since, whichever of its three ways it returned.
MutualExclusion ==
    \A c, d \in Coroutines : stage[c] = "holds" /\ stage[d] = "holds" => c = d

\* The flag is set for somebody: a coroutine has the lock, or a helper that has
\* just taken it is about to hand it to its coroutine.  The one way to set it
\* for nobody is the one that lock() logs.  (An owner whose task is dropped
\* keeps the lock: AllDone says what becomes of the others.)
LockHasOwner ==
    locked => \/ \E c \in Coroutines : stage[c] = "holds"
              \/ \E e \in Executors : pc[e] \in {"valid", "move"}
              \/ leaked

\* A coroutine waits in the queue.
Waits(x) == x \in {waitCos[i] : i \in DOMAIN waitCos} /\ content[x] # None

\* With the lock free nobody is left waiting: some thread is in the middle of
\* an unlock, or some coroutine is about to try the lock and to unlock later.
\* The exception is a wake-up that is dropped with the task of the coroutine
\* that unlock() chose: it was the turn of that one to wake the next.
NoStrandedWaiter ==
    (~locked /\ ~wrecked /\ \E x \in Cells : Waits(x)) =>
        \/ \E e \in Executors : pc[e] \in {"pop", "test", "add", "lock", "push", "cas"}
        \/ \E x \in tasks \cup {task[e] : e \in {f \in Executors : pc[f] \in {"check", "resume"}}} :
              content[x] # None /\ stage[content[x]] = "wants"
        \/ \E c \in dropped : stage[c] = "wants"

\* In the end every coroutine is through with its program, unless the wait
\* queue was too small for it or its task was dropped; a dropped task can take
\* the lock or a wake-up with it, and then those who wait in the queue stay
\* there, but nobody else does.  All this while the lock has not leaked and no
\* continuation was wrecked.
AllDone ==
    <>[](leaked \/ wrecked \/ \A c \in Coroutines :
            \/ stage[c] = "done"
            \/ c \in destroyed \cup dropped
            \/ dropped # {} /\ \E x \in Cells : Waits(x) /\ content[x] = c)

\* "caller_c wrongly became invalid!" is logged as an error: a helper that has
\* taken the lock finds its coroutine where it left it.
CallerStaysValid == \A e \in Executors : pc[e] = "valid" => content[callerC[e]] # None

=============================================================================
