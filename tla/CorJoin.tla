------------------------------- MODULE CorJoin -------------------------------
(***************************************************************************)
(* cppt_co_t::join and the end of a coroutine.                             *)
(*                                                                         *)
(* A joiner that finds the coroutine running switches to a helper context, *)
(* which shares the joiner's continuation with the wait queue, looks at    *)
(* m_co_stopped once more and either resumes the joiner itself or returns  *)
(* to the executor.  The coroutine sets m_co_stopped when its function has *)
(* returned, and then empties the wait queue into the task queues: both    *)
(* can find the same joiner.                                               *)
(*                                                                         *)
(* Continuations are cells, as in CorMutex: a cell holds a suspended       *)
(* coroutine or is empty, resuming it empties it, and a coroutine that     *)
(* yields goes back to the cell of the task it was run by.  A coroutine    *)
(* has the cell it was created with, and a joiner the one that join()      *)
(* makes; every joiner joins once.  A ready task can be run by any         *)
(* executor, and any task can be dropped, since the task queues are full   *)
(* of other coroutines' tasks at any time (module Scheduler has them).     *)
(*                                                                         *)
(* A definition named Slip... is a likely mistake in the definition that   *)
(* follows it; no behaviour of the module uses it.                         *)
(***************************************************************************)
EXTENDS Integers, Sequences

CONSTANTS
    Executors,
    Joiners,
    Target,         \* the coroutine that is joined
    WaitSize,       \* size of m_wait_cos
    Budget,         \* bound: how often coroutines yield, all together
    None            \* no coroutine, no cell

Coroutines == Joiners \cup {Target}
Cells == Coroutines \X {"own", "join"}

ASSUME NamesAssumption ==
    /\ Target \notin Joiners
    /\ None \notin Coroutines /\ None \notin Cells
ASSUME BoundsAssumption == WaitSize \in Nat \ {0} /\ Budget \in Nat

VARIABLES
    started,        \* m_co_started of the target
    stopped,        \* m_co_stopped of the target
    waitCos,        \* m_wait_cos of the target: cells, oldest first
    tasks,          \* cells of the tasks that are ready to run
    content,        \* what a cell holds: a suspended coroutine, or None
    pc,             \* where each executor's thread is
    task,           \* the cell of the task it runs
    co,             \* the coroutine it runs, or whose helper it runs
    ele,            \* the element the target has popped
    phase,          \* "before", "joining", "through", "done" or "destroyed"
    budget,         \* the yields that are left
    dropped,        \* coroutines whose task was dropped, and which did not go on
    wrecked         \* an empty or foreign continuation was resumed

ownVars == <<pc, task, co, ele>>
vars    == <<started, stopped, waitCos, tasks, content, ownVars, phase, budget, dropped, wrecked>>

Locations == {"idle", "check", "resume", "run", "requeue", "look", "push", "again",
              "valid", "move", "pop", "test", "add"}

TypeOK ==
    /\ started \in BOOLEAN /\ stopped \in BOOLEAN /\ wrecked \in BOOLEAN
    /\ waitCos \in Seq(Cells) /\ Len(waitCos) <= WaitSize
    /\ tasks \subseteq Cells
    /\ content \in [Cells -> Coroutines \cup {None}]
    /\ pc \in [Executors -> Locations]
    /\ task \in [Executors -> Cells \cup {None}]
    /\ co \in [Executors -> Coroutines \cup {None}]
    /\ ele \in Cells \cup {None}
    /\ phase \in [Coroutines -> {"before", "joining", "through", "done", "destroyed"}]
    /\ budget \in 0 .. Budget
    /\ dropped \subseteq Coroutines

\* Every coroutine has a task of its own, ready to run.
Init ==
    /\ started = FALSE /\ stopped = FALSE /\ wrecked = FALSE
    /\ waitCos = <<>>
    /\ tasks = Coroutines \X {"own"}
    /\ content = [x \in Cells |-> IF x[2] = "own" THEN x[1] ELSE None]
    /\ pc = [e \in Executors |-> "idle"]
    /\ task = [e \in Executors |-> None]
    /\ co = [e \in Executors |-> None]
    /\ ele = None
    /\ phase = [c \in Coroutines |-> "before"]
    /\ budget = Budget
    /\ dropped = {}

At(e, l) == pc[e] = l /\ ~wrecked
Goto(e, l) == pc' = [pc EXCEPT ![e] = l]
Becomes(c, p) == phase' = [phase EXCEPT ![c] = p]

\* The continuation that join() makes for the coroutine on this executor.
CallerC(e) == <<co[e], "join">>

\* The executor's thread is back in its loop; the task it ran is dropped.
ToExecutor(e) ==
    /\ Goto(e, "idle")
    /\ task' = [task EXCEPT ![e] = None]
    /\ co' = [co EXCEPT ![e] = None]

\* Resuming an empty continuation, or one that does not expect it, is the end.
Wreck ==
    /\ wrecked' = TRUE
    /\ UNCHANGED <<started, stopped, waitCos, tasks, content, ownVars, phase, budget, dropped>>

\* cppt_co_add_task: a full task queue drops the task, and the suspended
\* coroutine with it; no caller looks at the result.
AddTask(x) ==
    \/ /\ tasks' = tasks \cup {x}
       /\ UNCHANGED dropped
    \/ /\ dropped' = dropped \cup ({content[x]} \ {None})
       /\ UNCHANGED tasks

-----------------------------------------------------------------------------
(* The executor: exec_co, start_user_co and resume_user_co.                *)

Fetch(e) ==
    /\ At(e, "idle")
    /\ \E x \in tasks :
        /\ tasks' = tasks \ {x}
        /\ task' = [task EXCEPT ![e] = x]
    /\ Goto(e, "check")
    /\ UNCHANGED <<started, stopped, waitCos, content, co, ele, phase, budget, dropped, wrecked>>

\* can_resume(): an empty continuation is skipped.
CanResume(e) ==
    /\ At(e, "check")
    /\ \/ /\ content[task[e]] # None
          /\ Goto(e, "resume")
          /\ UNCHANGED <<task, co>>
       \/ content[task[e]] = None /\ ToExecutor(e)
    /\ UNCHANGED <<started, stopped, waitCos, tasks, content, ele, phase, budget, dropped, wrecked>>

\* The coroutine goes on where it was: a joiner that waits returns from join().
ResumeCo(e) ==
    /\ At(e, "resume")
    /\ \/ /\ content[task[e]] # None
          /\ LET c == content[task[e]] IN
              /\ co' = [co EXCEPT ![e] = c]
              /\ started' = (started \/ c = Target)
              /\ phase' = [phase EXCEPT ![c] = IF @ = "joining" THEN "through" ELSE @]
          /\ Goto(e, "run")
          /\ content' = [content EXCEPT ![task[e]] = None]
          /\ UNCHANGED <<stopped, waitCos, tasks, task, ele, budget, dropped, wrecked>>
       \/ content[task[e]] = None /\ Wreck

\* cor_yield(): the continuation goes to the cell of the task, which then goes
\* back in line.
Yield(e) ==
    /\ At(e, "run") /\ budget > 0
    /\ budget' = budget - 1
    /\ content' = [content EXCEPT ![task[e]] = co[e]]
    /\ Goto(e, "requeue")
    /\ co' = [co EXCEPT ![e] = None]
    /\ UNCHANGED <<started, stopped, waitCos, tasks, task, ele, phase, dropped, wrecked>>

Requeue(e) ==
    /\ At(e, "requeue")
    /\ AddTask(task[e])
    /\ ToExecutor(e)
    /\ UNCHANGED <<started, stopped, waitCos, content, ele, phase, budget, wrecked>>

\* A joiner's function returns; nobody joins it.
Finish(e) ==
    /\ At(e, "run") /\ co[e] # Target /\ phase[co[e]] = "through"
    /\ Becomes(co[e], "done")
    /\ ToExecutor(e)
    /\ UNCHANGED <<started, stopped, waitCos, tasks, content, ele, budget, dropped, wrecked>>

-----------------------------------------------------------------------------
(* join()                                                                  *)

\* A coroutine that has not started is not waited for.
CallJoin(e) ==
    /\ At(e, "run") /\ co[e] # Target /\ phase[co[e]] = "before"
    /\ \/ started /\ Becomes(co[e], "joining") /\ Goto(e, "look")
       \/ ~started /\ Becomes(co[e], "through") /\ UNCHANGED pc
    /\ UNCHANGED <<started, stopped, waitCos, tasks, content, task, co, ele, budget, dropped, wrecked>>

\* One that has stopped is not waited for either; else a helper owns the joiner.
Look(e) ==
    /\ At(e, "look")
    /\ \/ /\ stopped
          /\ Becomes(co[e], "through")
          /\ Goto(e, "run")
          /\ UNCHANGED content
       \/ /\ ~stopped
          /\ content' = [content EXCEPT ![CallerC(e)] = co[e]]
          /\ Goto(e, "push")
          /\ UNCHANGED phase
    /\ UNCHANGED <<started, stopped, waitCos, tasks, task, co, ele, budget, dropped, wrecked>>

\* Slip: a push that does not look at the size of the queue.
SlipPush(e) ==
    /\ At(e, "push")
    /\ waitCos' = Append(waitCos, CallerC(e))
    /\ Goto(e, "again")
    /\ UNCHANGED <<started, stopped, tasks, content, task, co, ele, phase, budget, dropped, wrecked>>

\* The helper shares caller_c with the wait queue.  If that is full caller_c
\* goes out of scope, and the joiner with it.
Push(e) ==
    /\ At(e, "push")
    /\ \/ /\ Len(waitCos) < WaitSize
          /\ waitCos' = Append(waitCos, CallerC(e))
          /\ Goto(e, "again")
          /\ UNCHANGED <<content, task, co, phase>>
       \/ /\ Len(waitCos) >= WaitSize
          /\ Becomes(co[e], "destroyed")
          /\ content' = [content EXCEPT ![CallerC(e)] = None]
          /\ ToExecutor(e)
          /\ UNCHANGED waitCos
    /\ UNCHANGED <<started, stopped, tasks, ele, budget, dropped, wrecked>>

\* Slip: the helper does not look at m_co_stopped again.
SlipAgain(e) ==
    /\ At(e, "again")
    /\ ToExecutor(e)
    /\ UNCHANGED <<started, stopped, waitCos, tasks, content, ele, phase, budget, dropped, wrecked>>

\* The helper looks at m_co_stopped again.
Again(e) ==
    /\ At(e, "again")
    /\ \/ stopped /\ Goto(e, "valid") /\ UNCHANGED <<task, co>>
       \/ ~stopped /\ ToExecutor(e)
    /\ UNCHANGED <<started, stopped, waitCos, tasks, content, ele, phase, budget, dropped, wrecked>>

\* The helper tests caller_c: the coroutine may have scheduled the joiner.
Valid(e) ==
    /\ At(e, "valid")
    /\ \/ content[CallerC(e)] # None /\ Goto(e, "move") /\ UNCHANGED <<task, co>>
       \/ content[CallerC(e)] = None /\ ToExecutor(e)
    /\ UNCHANGED <<started, stopped, waitCos, tasks, content, ele, phase, budget, dropped, wrecked>>

\* Slip: the helper leaves the joiner in caller_c as well.
SlipMove(e) ==
    /\ At(e, "move")
    /\ \/ /\ content[CallerC(e)] # None /\ phase[co[e]] = "joining"
          /\ Becomes(co[e], "through")
          /\ dropped' = dropped \ {co[e]}
          /\ Goto(e, "run")
          /\ UNCHANGED <<started, stopped, waitCos, tasks, content, task, co, ele, budget, wrecked>>
       \/ (content[CallerC(e)] = None \/ phase[co[e]] # "joining") /\ Wreck

\* The helper returns caller_c: the joiner returns from join(), even if the
\* target's task for it was dropped.
Move(e) ==
    /\ At(e, "move")
    /\ \/ /\ content[CallerC(e)] # None /\ phase[co[e]] = "joining"
          /\ content' = [content EXCEPT ![CallerC(e)] = None]
          /\ Becomes(co[e], "through")
          /\ dropped' = dropped \ {co[e]}
          /\ Goto(e, "run")
          /\ UNCHANGED <<started, stopped, waitCos, tasks, task, co, ele, budget, wrecked>>
       \/ (content[CallerC(e)] = None \/ phase[co[e]] # "joining") /\ Wreck

-----------------------------------------------------------------------------
(* The end of the target.                                                  *)

\* Slip: the wait queue is emptied before m_co_stopped is set.
SlipStop(e) ==
    /\ At(e, "run") /\ co[e] = Target
    /\ Goto(e, "pop")
    /\ UNCHANGED <<started, stopped, waitCos, tasks, content, task, co, ele, phase, budget, dropped, wrecked>>

\* m_user_co() returns.
Stop(e) ==
    /\ At(e, "run") /\ co[e] = Target
    /\ stopped' = TRUE
    /\ Goto(e, "pop")
    /\ UNCHANGED <<started, waitCos, tasks, content, task, co, ele, phase, budget, dropped, wrecked>>

\* Slip: one joiner is woken, as unlock() does.
SlipPop(e) ==
    /\ At(e, "pop")
    /\ \/ /\ waitCos # <<>> /\ ele = None
          /\ ele' = Head(waitCos)
          /\ waitCos' = Tail(waitCos)
          /\ Goto(e, "test")
          /\ UNCHANGED <<task, co, phase>>
       \/ /\ waitCos = <<>> \/ ele # None
          /\ Becomes(Target, "done")
          /\ ToExecutor(e)
          /\ UNCHANGED <<waitCos, ele>>
    /\ UNCHANGED <<started, stopped, tasks, content, budget, dropped, wrecked>>

\* while (m_wait_cos.try_pop(ele)), and the end.
Pop(e) ==
    /\ At(e, "pop")
    /\ \/ /\ waitCos # <<>>
          /\ ele' = Head(waitCos)
          /\ waitCos' = Tail(waitCos)
          /\ Goto(e, "test")
          /\ UNCHANGED <<task, co, phase>>
       \/ /\ waitCos = <<>>
          /\ Becomes(Target, "done")
          /\ ToExecutor(e)
          /\ UNCHANGED <<waitCos, ele>>
    /\ UNCHANGED <<started, stopped, tasks, content, budget, dropped, wrecked>>

\* A joiner that has gone is skipped.
Test(e) ==
    /\ At(e, "test")
    /\ Goto(e, IF content[ele] # None THEN "add" ELSE "pop")
    /\ UNCHANGED <<started, stopped, waitCos, tasks, content, task, co, ele, phase, budget, dropped, wrecked>>

\* cppt_co_add_c_ptr: a new task on the same continuation.
Add(e) ==
    /\ At(e, "add")
    /\ AddTask(ele)
    /\ Goto(e, "pop")
    /\ UNCHANGED <<started, stopped, waitCos, content, task, co, ele, phase, budget, wrecked>>

-----------------------------------------------------------------------------
Schedule(e) == Fetch(e) \/ CanResume(e) \/ ResumeCo(e) \/ Yield(e) \/ Requeue(e) \/ Finish(e)
Join(e)     == CallJoin(e) \/ Look(e) \/ Push(e) \/ Again(e) \/ Valid(e) \/ Move(e)
Complete(e) == Stop(e) \/ Pop(e) \/ Test(e) \/ Add(e)

Next == \E e \in Executors : Schedule(e) \/ Join(e) \/ Complete(e)

Spec == Init /\ [][Next]_vars

\* The threads of the executors are scheduled.
FairSpec == Spec /\ \A e \in Executors : WF_vars(Schedule(e) \/ Join(e) \/ Complete(e))

-----------------------------------------------------------------------------
(* Properties.                                                             *)

\* A joiner that waits goes on only after the coroutine's function has
\* returned, whether its helper or the emptied wait queue resumed it.
Promise ==
    INSTANCE Latch WITH
        latch  <- IF stopped THEN "open" ELSE IF started THEN "closed" ELSE "new",
        joiner <- [j \in Joiners |->
            CASE phase[j] = "joining"             -> "waiting"
              [] phase[j] \in {"through", "done"} -> "through"
              [] phase[j] = "destroyed"           -> "lost"
              [] OTHER                            -> "before"]

ImplementsLatch == Promise!Spec

\* While nothing is wrecked a coroutine has one continuation: it runs on one
\* executor, or is suspended in one cell that no one else can resume.
OneContinuation ==
    ~wrecked =>
        /\ \A x, y \in Cells : content[x] # None /\ content[x] = content[y] => x = y
        /\ \A e \in Executors : pc[e] = "run" => \A x \in Cells : content[x] # co[e]
        /\ \A e, f \in Executors : pc[e] = "run" /\ pc[f] = "run" /\ co[e] = co[f] => e = f

\* When the coroutine has emptied its wait queue and gone, a joiner that is
\* still in it has a helper that will see m_co_stopped.
NoStrandedJoiner ==
    phase[Target] = "done" /\ ~wrecked =>
        \A i \in DOMAIN waitCos : content[waitCos[i]] # None =>
            \E e \in Executors : /\ pc[e] \in {"again", "valid", "move"}
                                 /\ CallerC(e) = waitCos[i]

\* Every joiner goes on at some time, unless the wait queue had no room for it,
\* a full task queue dropped its task or the target's, or two threads resumed
\* one continuation.
JoinReturns ==
    \A j \in Joiners :
        phase[j] = "joining" ~> phase[j] # "joining" \/ {j, Target} \cap dropped # {} \/ wrecked

=============================================================================
