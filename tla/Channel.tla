------------------------------- MODULE Channel --------------------------------
(***************************************************************************)
(* np_queue_cor_t, the queue of cor_channel: an np_queue_t whose handlers  *)
(* suspend the reader and put it back in line.  Many writers, one reader,  *)
(* and three pairs of handlers:                                            *)
(*                                                                         *)
(*   "cor"           coroutines read and write, under m_cor_mutex;         *)
(*   "cor_r_thr_w"   a coroutine reads, threads write, under m_thr_mutex;  *)
(*   "thr_r_cor_w"   a thread reads and sleeps on m_thr_cond_cv.           *)
(*                                                                         *)
(* A reading coroutine runs on an executor; when it waits it switches out, *)
(* and that executor then runs wrap_func, which saves the resume function. *)
(* As soon as that has been called another executor can run the reader,    *)
(* while wrap_func or the writer's handler still goes on.                  *)
(*                                                                         *)
(* An executor drops a task whose coroutine has not switched out, and a    *)
(* full task queue drops the reader's task, at any time: it is full of     *)
(* other coroutines' tasks.                                                *)
(*                                                                         *)
(* All reads have a timeout, or none has.  A coroutine's wait then ends by *)
(* its timer too, and leaves m_resume_f behind: a writer that finds it     *)
(* puts a reader in line that does not wait, or that waits again.  The     *)
(* frames of successive waits are at one place, as in TimedYield, which    *)
(* has the time wheel; here a timer in the wheel may fire at any time.     *)
(*                                                                         *)
(* Messages are counted: the ring is FIFO (AtomicQueue).  The mutexes      *)
(* exclude.  As CorMutex shows, a contended cor_mutex_t can stay taken by  *)
(* nobody, and a waiter, or the wake-up it owes to another, can be lost:   *)
(* so here m_cor_mutex need not serve those who wait when it is unlocked.  *)
(* np_queue_t's own m_notified is never read.                              *)
(***************************************************************************)
EXTENDS Integers, FiniteSets

CONSTANTS
    Writers,
    Executors,
    Capacity,       \* SIZE
    InLine,         \* bound: the tasks in line when a timer fires
    None

ASSUME SizeAssumption == Capacity \in Nat \ {0}
ASSUME ActorsAssumption == Writers \cap Executors = {} /\ None \notin Writers \cup Executors
ASSUME ReaderAssumption == {"reader", "nobody"} \cap (Writers \cup Executors \cup {None}) = {}

ASSUME BoundsAssumption == InLine \in Nat

Kinds == {"cor", "cor_r_thr_w", "thr_r_cor_w"}

VARIABLES
    kind,           \* which handlers were set, once and for all
    timed,          \* the reads have a timeout
    queue,          \* how many messages m_q holds
    mode,           \* m_is_notify_mode of m_q
    notified,       \* m_notified
    resumeF,        \* m_resume_f is set
    owner,          \* who has m_cor_mutex, or m_thr_mutex; it can be "nobody"
    wpc,            \* where each writer is
    rpc,            \* where the reader is
    host,           \* the executor that runs the reader
    wrap,           \* where each executor is in the reader's wrap_func
    timer,          \* the timer of the reader's last wait
    tasks,          \* tasks of the reader in line, by what put them there
    dropped,        \* a task that would have ended the reader's wait was dropped
    unserved        \* m_cor_mutex has failed one who waited for it

setup == <<kind, timed>>
losses == <<dropped, unserved>>
vars == <<setup, queue, mode, notified, resumeF, owner, wpc, rpc, host, wrap, timer, tasks, losses>>

Causes == {"resume", "timeout"}

TypeOK ==
    /\ kind \in Kinds /\ timed \in BOOLEAN
    /\ queue \in 0 .. Capacity
    /\ mode \in BOOLEAN /\ notified \in BOOLEAN /\ resumeF \in BOOLEAN
    /\ owner \in Writers \cup Executors \cup {"reader", "nobody", None}
    /\ wpc \in [Writers -> {"idle", "check", "raise", "lock", "call", "clear", "unlock"}]
    /\ rpc \in {"user", "poll", "setmode", "repoll", "clear", "lock", "yield", "suspended",
                "woken", "timedout", "sleep", "asleep"}
    /\ host \in Executors \cup {None}
    /\ wrap \in [Executors -> {"none", "lock", "store", "test", "clear", "unlock", "add"}]
    /\ timer \in {"new", "armed", "canceled", "fired"}
    /\ tasks \in [Causes -> Nat]
    /\ dropped \in BOOLEAN /\ unserved \in BOOLEAN

\* The reader is in user code, on some executor unless it is a thread.
Init ==
    /\ kind \in Kinds /\ timed \in BOOLEAN
    /\ queue = 0
    /\ mode = TRUE /\ notified = FALSE /\ resumeF = FALSE
    /\ owner = None
    /\ wpc = [w \in Writers |-> "idle"]
    /\ rpc = "user"
    /\ host \in IF kind = "thr_r_cor_w" THEN {None} ELSE Executors
    /\ wrap = [x \in Executors |-> "none"]
    /\ timer = "new"
    /\ tasks = [c \in Causes |-> 0]
    /\ dropped = FALSE /\ unserved = FALSE

\* cppt_co_add_sptr_f_before, and the plain task of a wait without timeout: the
\* reader's task is put in line, or dropped by a full task queue.
Add(cause) ==
    \/ /\ tasks' = [tasks EXCEPT ![cause] = @ + 1]
       /\ UNCHANGED dropped
    \/ /\ dropped' = (dropped \/ rpc = "suspended")
       /\ UNCHANGED tasks

\* The mutex is unlocked.  m_cor_mutex can be left taken by nobody, or free but
\* with those who wait for it asleep, when there is one who waits.
Release ==
    \/ owner' = None /\ UNCHANGED unserved
    \/ /\ kind = "cor" /\ (rpc = "lock" \/ \E w \in Writers : wpc[w] = "lock")
       /\ owner' \in {None, "nobody"}
       /\ unserved' = TRUE

-----------------------------------------------------------------------------
(* A writer: try_enqueue, and the notify handler.                          *)

WGoto(w, l) == wpc' = [wpc EXCEPT ![w] = l]

\* cor_channel::write; false when the queue is full.
Write(w) ==
    /\ wpc[w] = "idle" /\ queue < Capacity
    /\ queue' = queue + 1
    /\ WGoto(w, "check")
    /\ UNCHANGED <<setup, timer, mode, notified, resumeF, owner, rpc, host, wrap, tasks, losses>>

CheckMode(w) ==
    /\ wpc[w] = "check"
    /\ WGoto(w, IF mode THEN "raise" ELSE "idle")
    /\ UNCHANGED <<setup, timer, queue, mode, notified, resumeF, owner, rpc, host, wrap, tasks, losses>>

\* Slip: the handler for a thread signals the condition variable, and leaves
\* the flag alone.
SlipRaise(w) ==
    /\ wpc[w] = "raise"
    /\ WGoto(w, IF kind = "thr_r_cor_w" THEN "idle" ELSE "lock")
    /\ notified' = (notified \/ kind # "thr_r_cor_w")
    /\ UNCHANGED <<setup, timer, queue, mode, resumeF, owner, rpc, host, wrap, tasks, losses>>

\* m_notified is raised; by the handler for a thread under its lock, where it
\* also signals the condition variable.
Raise(w) ==
    /\ wpc[w] = "raise"
    /\ notified' = TRUE
    /\ WGoto(w, IF kind = "thr_r_cor_w" THEN "idle" ELSE "lock")
    /\ UNCHANGED <<setup, timer, queue, mode, resumeF, owner, rpc, host, wrap, tasks, losses>>

WLock(w) ==
    /\ wpc[w] = "lock" /\ owner = None
    /\ owner' = w
    /\ WGoto(w, "call")
    /\ UNCHANGED <<setup, timer, queue, mode, notified, resumeF, rpc, host, wrap, tasks, losses>>

\* if (m_resume_f) m_resume_f(0)
WCall(w) ==
    /\ wpc[w] = "call"
    /\ \/ /\ resumeF
          /\ Add("resume")
          /\ WGoto(w, "clear")
       \/ /\ ~resumeF
          /\ WGoto(w, "unlock")
          /\ UNCHANGED <<tasks, dropped>>
    /\ UNCHANGED <<setup, timer, queue, mode, notified, resumeF, owner, rpc, host, wrap, unserved>>

\* Slip: m_resume_f is not reset after the call.
SlipWClear(w) ==
    /\ wpc[w] = "clear"
    /\ WGoto(w, "unlock")
    /\ UNCHANGED <<setup, timer, queue, mode, notified, resumeF, owner, rpc, host, wrap, tasks, losses>>

WClear(w) ==
    /\ wpc[w] = "clear"
    /\ resumeF' = FALSE
    /\ WGoto(w, "unlock")
    /\ UNCHANGED <<setup, timer, queue, mode, notified, owner, rpc, host, wrap, tasks, losses>>

WUnlock(w) ==
    /\ wpc[w] = "unlock"
    /\ Release
    /\ WGoto(w, "idle")
    /\ UNCHANGED <<setup, timer, queue, mode, notified, resumeF, rpc, host, wrap, tasks, dropped>>

-----------------------------------------------------------------------------
(* The reader: dequeue.                                                    *)

Others == <<setup, timer, resumeF, owner, wpc, host, wrap, tasks, losses>>

\* cor_channel::read.
Read ==
    /\ rpc = "user"
    /\ rpc' = "poll"
    /\ UNCHANGED <<queue, mode, notified, Others>>

Poll ==
    /\ rpc = "poll"
    /\ \/ /\ queue > 0
          /\ queue' = queue - 1
          /\ rpc' = "user"
       \/ /\ queue = 0
          /\ rpc' = "setmode"
          /\ UNCHANGED queue
    /\ UNCHANGED <<mode, notified, Others>>

SetMode ==
    /\ rpc = "setmode"
    /\ mode' = TRUE
    /\ rpc' = "repoll"
    /\ UNCHANGED <<queue, notified, Others>>

\* The second try_pop, then the wait handler.
Repoll ==
    /\ rpc = "repoll"
    /\ \/ /\ queue > 0
          /\ queue' = queue - 1
          /\ rpc' = "clear"
       \/ /\ queue = 0
          /\ rpc' = CASE kind = "cor" -> "lock"
                      [] kind = "cor_r_thr_w" -> "yield"
                      [] kind = "thr_r_cor_w" -> "sleep"
          /\ UNCHANGED queue
    /\ UNCHANGED <<mode, notified, Others>>

ClearMode ==
    /\ rpc = "clear"
    /\ mode' = FALSE
    /\ rpc' = "user"
    /\ UNCHANGED <<queue, notified, Others>>

\* get_wait_handler_cor takes the mutex before it yields.
RLock ==
    /\ rpc = "lock" /\ owner = None
    /\ owner' = "reader"
    /\ rpc' = "yield"
    /\ UNCHANGED <<setup, timer, queue, mode, notified, resumeF, wpc, host, wrap, tasks, losses>>

\* cor_yield(): the reader has switched out, its executor goes on in wrap_func.
\* In the handler for coroutines the mutex passes to wrap_func.
Yield ==
    /\ rpc = "yield"
    /\ rpc' = "suspended"
    /\ host' = None
    /\ wrap' = [wrap EXCEPT ![host] = IF kind = "cor" THEN "store" ELSE "lock"]
    /\ owner' = IF kind = "cor" THEN host ELSE owner
    /\ timer' = "new"
    /\ UNCHANGED <<setup, queue, mode, notified, resumeF, wpc, tasks, losses>>

\* cor_yield finds no timer in the pool: it returns -1 and wrap_func is not
\* called, which would have unlocked m_cor_mutex.
YieldFails ==
    /\ rpc = "yield" /\ timed
    /\ rpc' = "woken"
    /\ UNCHANGED <<queue, mode, notified, Others>>

\* Slip: the reader takes a wake-up for a message.
SlipWoken ==
    /\ rpc = "woken"
    /\ notified' = FALSE
    /\ queue' = queue - 1
    /\ rpc' = "clear"
    /\ UNCHANGED <<mode, Others>>

\* The wait handler resets m_notified and returns true: dequeue polls again.
Woken ==
    /\ rpc = "woken"
    /\ notified' = FALSE
    /\ rpc' = "repoll"
    /\ UNCHANGED <<queue, mode, Others>>

\* Slip: a wait that has timed out is taken for one that was woken, as it is in
\* the handler for threads.
SlipTimedOut ==
    /\ rpc = "timedout"
    /\ notified' = FALSE
    /\ rpc' = "repoll"
    /\ UNCHANGED <<queue, mode, Others>>

\* The wait has timed out: dequeue returns false without another poll.
TimedOut ==
    /\ rpc = "timedout"
    /\ notified' = FALSE
    /\ rpc' = "clear"
    /\ UNCHANGED <<queue, mode, Others>>

\* A reading thread: wait_for tests m_notified before it sleeps ...
Sleep ==
    /\ rpc = "sleep"
    /\ \/ /\ notified
          /\ notified' = FALSE
          /\ rpc' = "repoll"
       \/ /\ ~notified
          /\ rpc' = "asleep"
          /\ UNCHANGED notified
    /\ UNCHANGED <<queue, mode, Others>>

\* ... and again when it is signalled.
Wake ==
    /\ rpc = "asleep" /\ notified
    /\ notified' = FALSE
    /\ rpc' = "repoll"
    /\ UNCHANGED <<queue, mode, Others>>

\* The handler for threads returns true after a timeout too.
SleepTimeout ==
    /\ rpc = "asleep" /\ ~notified
    /\ rpc' = "repoll"
    /\ UNCHANGED <<queue, mode, notified, Others>>

-----------------------------------------------------------------------------
(* The executors: wrap_func, and tasks of the reader.                      *)

XGoto(x, l) == wrap' = [wrap EXCEPT ![x] = l]

XLock(x) ==
    /\ wrap[x] = "lock" /\ owner = None
    /\ owner' = x
    /\ XGoto(x, "store")
    /\ UNCHANGED <<setup, timer, queue, mode, notified, resumeF, wpc, rpc, host, tasks, losses>>

XStore(x) ==
    /\ wrap[x] = "store"
    /\ resumeF' = TRUE
    /\ XGoto(x, "test")
    /\ UNCHANGED <<setup, timer, queue, mode, notified, owner, wpc, rpc, host, tasks, losses>>

\* Slip: the resume function is saved, and m_notified not looked at.
SlipXTest(x) ==
    /\ wrap[x] = "test"
    /\ XGoto(x, "unlock")
    /\ UNCHANGED <<setup, timer, queue, mode, notified, resumeF, owner, wpc, rpc, host, tasks, losses>>

\* if (m_notified) m_resume_f(0)
XTest(x) ==
    /\ wrap[x] = "test"
    /\ \/ /\ notified
          /\ Add("resume")
          /\ XGoto(x, "clear")
       \/ /\ ~notified
          /\ XGoto(x, "unlock")
          /\ UNCHANGED <<tasks, dropped>>
    /\ UNCHANGED <<setup, timer, queue, mode, notified, resumeF, owner, wpc, rpc, host, unserved>>

XClear(x) ==
    /\ wrap[x] = "clear"
    /\ resumeF' = FALSE
    /\ XGoto(x, "unlock")
    /\ UNCHANGED <<setup, timer, queue, mode, notified, owner, wpc, rpc, host, tasks, losses>>

XUnlock(x) ==
    /\ wrap[x] = "unlock"
    /\ Release
    /\ XGoto(x, IF timed THEN "add" ELSE "none")
    /\ UNCHANGED <<setup, timer, queue, mode, notified, resumeF, wpc, rpc, host, tasks, dropped>>

\* After the reader's wrap_func, cor_yield's own puts the timer in the wheel:
\* the one of the wait that has the frame by now.
XAdd(x) ==
    /\ wrap[x] = "add"
    /\ timer' = IF timer = "canceled" THEN timer ELSE "armed"
    /\ XGoto(x, "none")
    /\ UNCHANGED <<setup, queue, mode, notified, resumeF, owner, wpc, rpc, host, tasks, losses>>

\* The tick that finds the timer; a canceled one is only released.
TimerFires ==
    /\ timer = "armed"
    /\ tasks["resume"] + tasks["timeout"] < InLine
    /\ timer' = "fired"
    /\ Add("timeout")
    /\ UNCHANGED <<setup, queue, mode, notified, resumeF, owner, wpc, rpc, host, wrap, unserved>>

\* exec_co with a task of the reader: if it has switched out, the function to
\* call before cancels the timer or notes the timeout, and the reader goes on;
\* otherwise the task is dropped.
RunTask(x, cause) ==
    /\ wrap[x] = "none" /\ host # x
    /\ tasks[cause] > 0
    /\ tasks' = [tasks EXCEPT ![cause] = @ - 1]
    /\ \/ /\ rpc = "suspended"
          /\ rpc' = IF cause = "timeout" THEN "timedout" ELSE "woken"
          /\ timer' = IF cause = "resume" /\ timed THEN "canceled" ELSE timer
          /\ host' = x
          /\ dropped' = FALSE
       \/ rpc # "suspended" /\ UNCHANGED <<rpc, timer, host, dropped>>
    /\ UNCHANGED <<setup, queue, mode, notified, resumeF, owner, wpc, wrap, unserved>>

-----------------------------------------------------------------------------
Handler(w)  == CheckMode(w) \/ Raise(w) \/ WLock(w) \/ WCall(w) \/ WClear(w) \/ WUnlock(w)
Dequeue     == \/ Poll \/ SetMode \/ Repoll \/ ClearMode \/ RLock \/ Yield \/ YieldFails
               \/ Woken \/ TimedOut \/ Sleep \/ Wake
Executor(x) == \/ XLock(x) \/ XStore(x) \/ XTest(x) \/ XClear(x) \/ XUnlock(x) \/ XAdd(x)
               \/ \E cause \in Causes : RunTask(x, cause)

Next ==
    \/ \E w \in Writers : Write(w) \/ Handler(w)
    \/ Read \/ Dequeue \/ SleepTimeout
    \/ \E x \in Executors : Executor(x)
    \/ TimerFires

Spec == Init /\ [][Next]_vars

\* Threads are scheduled; nobody must read or write, and no timeout need come.
FairSpec ==
    /\ Spec
    /\ \A w \in Writers : WF_vars(Handler(w))
    /\ WF_vars(Dequeue)
    /\ \A x \in Executors : WF_vars(Executor(x))

-----------------------------------------------------------------------------
(* Properties.                                                             *)

Idle == \A cause \in Causes : tasks[cause] = 0

\* What will get a waiting reader back in line: a writer past its push that is
\* still to find notify mode on, to raise m_notified or to find m_resume_f, or
\* a wrap_func that is still to find m_notified.
Alerted ==
    \/ \E w \in Writers : wpc[w] = "check" /\ mode
    \/ \E w \in Writers : wpc[w] = "raise"
    \/ resumeF /\ \E w \in Writers : wpc[w] \in {"lock", "call"}
    \/ notified /\ \E x \in Executors : wrap[x] \in {"lock", "store", "test"}

\* A reader does not wait while there is a message for it, unless it has been
\* alerted or a full task queue has dropped its task: neither push, mode and
\* handler against mode, poll and wait, nor the saving of m_resume_f against its
\* use, nor a wait that ends by its timer while a writer alerts the reader, loses
\* a message's wake-up.
NoLostWakeup ==
    queue > 0 =>
        /\ rpc = "suspended" /\ Idle => Alerted \/ dropped
        /\ rpc = "asleep" => notified \/ Alerted

\* Whichever of wrap_func and the handlers calls m_resume_f, the reader is put
\* in line at most once per wait, and only while it waits: no task finds it
\* running, and none resumes it at a later wait.  (A timed wait can leave tasks behind.)
OneResumption ==
    ~timed => tasks["resume"] <= 1 /\ (tasks["resume"] = 1 => rpc = "suspended")

\* A failed cor_yield has left m_cor_mutex to a reader that locks it again.
Stuck == owner = "reader" /\ rpc = "lock"

\* What can keep a read from ending: the reader waits for a mutex that it has
\* locked itself, m_cor_mutex has failed someone, or a full task queue has
\* dropped the task that would have ended the reader's wait.
Hindered == Stuck \/ unserved \/ dropped

\* A read ends when there is a message, whatever writers do meanwhile, without
\* the help of any timeout and even if every timed wait fails, unless it is
\* hindered.
EndsWithMessage == rpc # "user" /\ queue > 0 ~> rpc = "user" \/ Hindered

\* A coroutine's timed read ends without a message too, provided that timers
\* fire (TimedYield shows that they do for first waits only) and that there is
\* not always again no timer in the pool; unless it is hindered.
EndsInTime ==
    \/ (timed /\ kind # "thr_r_cor_w" /\ rpc # "user") ~> (rpc = "user" \/ Hindered)
    \/ ~WF_vars(TimerFires)
    \/ []<><<YieldFails>>_vars

\* Reads end: no order of writers, handlers, timers, late tasks and executors
\* keeps a message from a reader, or a timed reader waiting for one.
ReadReturns == EndsWithMessage /\ EndsInTime

=============================================================================
