# Verification of cppt-coroutine

TLA+ models, TLC configurations and TLAPS proofs for the stackful coroutine
scheduler in this repository. Paths below are relative to the repository, so
that `mod_cor.cpp` is `src/mod_coroutine/mod_cor.cpp`.

To check a module: `tlc -workers 2 -config <run>.cfg <MC module>.tla`; to check
a proof: `tlapm <module>.tla`.

## 1. The system

| part | state | operations | made correct by |
|---|---|---|---|
| scheduler (`mod_cor.cpp`, `mod_cor_impl.hpp`) | a task queue and an executor thread per core; the current task of each executor; the continuations | create, yield, yield with a resume function, timed yield, steal, run | a coroutine is run by one executor at a time, is never in line twice, and is not forgotten; a sleeping executor is woken |
| `np_queue_t` (`mod_np_queue.hpp`) | a ring, the notify mode, two handlers | enqueue, try_enqueue, dequeue, notify | no lost wake-up between the writer's push-then-check and the reader's set-then-poll |
| `AtomicQueue2` (`atomic_queue.hpp`) | two counters, a state and an element per slot | push, pop, try_push, try_pop, was_size | slots are not shared, elements are conserved, failures are justified |
| `cor_mutex_t` (`mod_cor_mutex.cpp`) | a flag, a queue of suspended continuations | lock, try_lock, unlock | exclusion; no waiter is left behind a free lock |
| join (`mod_cor.cpp:127-155`, `97-109`) | started and stopped flags, a wait queue | join, completion | every joiner goes on once, after completion |
| time wheel (`mod_time_wheel.cpp`) and timed yield (`mod_cor.cpp:406-460`) | 60 slots of tasks, the current slot; per yield a pool buffer and a mutex | add, tick, cancel | a wait ends once, by completion or by timeout; a timer fires when it is due |
| memory pool (`mod_mempool.cpp`) | a ring of free buffers | alloc, free | alloc does not wait; a buffer has one user |
| channel, `np_queue_cor_t` (`mod_np_queue.hpp:221-445`, `mod_cor_channel.hpp`) | an `np_queue_t`, a saved resume function, a notified flag | enqueue, dequeue with and without timeout | a reader that waits is resumed once per wait |
| executor monitor (`mod_cor.cpp:325-364`) | flags of each executor, a time per executor | replace an executor that blocks | a replaced executor stops; its queue is served |
| sockets (`mod_cor_net.hpp`) | Asio objects; per call a size and a result in the frame | connect, accept, read, write, with a timeout over TCP | a call that reports success has done what it says; every call ends |
| timers (`mod_cor_timer.hpp`) | an Asio timer | wait, cancel | (used by nothing in the repository) |
| applications, utilities | | | not part of the runtime's logic |

How they interact. An executor thread loops in `np_queue_t::dequeue` on its own
task queue. When the queue is empty, dequeue calls the executor's wait handler,
which steals from the next core's queue or sleeps on a condition variable.
Every other thread (executors, the Asio thread, user threads) enqueues tasks
and, when the queue is in notify mode, calls the executor's notify handler. A
coroutine leaves its executor by switching contexts; the executor then runs the
task's `m_f_after_execution`, which requeues the coroutine or hands its resume
function to whatever will complete the operation. The mutex and join suspend a
coroutine in another way: a helper context takes the coroutine's continuation
and shares it with a wait queue.

What is hard here: steps of several threads in any order around two atomics
and a condition variable (notify); a continuation that two threads can resume
(mutex, join); functions that refer to a stack frame and run after its wait has
ended (timed yield, channel); timeouts that race the answer; two executor
threads on one queue; queues and pools at their limit, where tasks and waiters
are dropped; stealing; counters that wrap. Nothing is persisted: there are no
crashes to recover from. Messages are lost or reordered only under the UDP
sockets.
`PROJECT.json` lists the hazards with their lines.

## 2. Modules

| module | models |
|---|---|
| `CoroutineLifecycle` | abstract: what a coroutine's user may rely on. States unborn, ready, running, waiting, done, lost; one coroutine per executor |
| `Scheduler`, `MCScheduler`, `Scheduler_proofs` | `mod_cor.cpp` (creation, executor thread, untimed yields) with `np_queue_t`; implements `CoroutineLifecycle` |
| `CorMutex`, `MCCorMutex`, `CorMutex_proofs` | `cor_mutex_t` on continuation cells |
| `AtomicQueue`, `MCAtomicQueue`, `AtomicQueue_proofs` | `AtomicQueue2`, its four operations |
| `Latch` | abstract: what join promises, a one-shot latch |
| `CorJoin`, `MCCorJoin`, `CorJoin_proofs` | join and completion on continuation cells; implements `Latch` |
| `TimedWait` | abstract: what a yield with a timeout promises |
| `TimeWheel` | the wheel's slots, `add_tw_task` and `tick`, shared by what uses it |
| `TimedYield`, `MCTimedYield`, `TimedYield_proofs` | `cor_yield` with a timeout on `TimeWheel` and the memory pool; implements `TimedWait` for the first wait |
| `Channel`, `MCChannel`, `Channel_proofs` | `np_queue_cor_t` and `cor_channel`: the notify and wait handlers, reads with and without a timeout |
| `CorNet`, `CorNet_proofs` | the socket calls of a client and a server, TCP and UDP, over Asio |
| `ExecutorMonitor`, `ExecutorMonitor_proofs` | the monitor in `co_run_impl`, and executors that share a queue after a replacement |

Definitions named `Slip...` are likely mistakes in the definition that follows
them: with the definition replaced by the slip, a property is violated
(`PROJECT.json`, "mutants"). No behaviour uses them.

### Scheduler

Each action is at most one access to shared memory by one thread.

| code | model |
|---|---|
| `g_task_queues[i].m_queue`, `m_is_notify_mode`, `m_notify_handler` | `queue[i]`, `notifyMode[i]`, `armed[i]` |
| `notified` under `cond_lock` in `cppt_co_main_run_thread` | `notified[e]` |
| the thread's place in dequeue, wait handler, `exec_co` | `pc[e]`; `nested[e]` when the wait handler runs a stolen task itself |
| `g_cur_task_c.m_co` | `cur[e]` |
| the steal's loop variables and its local `task` | `quota[e]`, `stole[e]`, `hand[e]` |
| a `try_enqueue` between push, mode check and handler | `send[t]`: `Deliver`, `CheckMode`, `Notify` |
| `resume_f` captured in `wrap_func` | `waiting[c]`, the queue it returns to |

`Deliver` is `try_push`: a full queue drops the task (`cppt_co_add_task` logs
and returns false, and no caller looks at it). `CreateTry` is one round of
`cppt_co_add_task_global`; `gs_use_core` is a plain counter that all threads
increment, so a round may pick any queue. `LookAtNeighbour`, `StealTake`,
`StealPut`, `StealOne` and `EndSteal` are the wait handler's stealing branch,
`CvWait`, `CvWake` and `CvTimeout` its sleep. With one core the wait handler is
`cv_wait` itself, called with dequeue's timeout of 0, and never sleeps.

Abstractions: memory is sequentially consistent (the mode is a seq_cst atomic,
and pushes and pops are read-modify-writes, which are fences on x86-64); the
ring is a bounded FIFO; `was_size` is one read; installing the handlers is one
step; what coroutines compute is left out, so that a running coroutine may do
any runtime call at any time. `Main`, created before `cor_run`, is in queue 0
at the start. A coroutine's completion wakes no joiners here (`CorJoin` does).

### CorMutex

A continuation object is a cell: `content[x]` is the suspended coroutine in it,
or None. `lock()` moves the coroutine into a fresh cell, `callerC`, and the
wait queue holds the same cell. `LockCas`, `Push`, `HelperCas`, `Valid`, `Move`
are the statements of the helper; `UnlockCas`, `Pop`, `Test`, `Add` those of
`unlock()`. A task is named by its continuation's cell, since `resume_user_co`
assigns the coroutine's next continuation to the cell it was resumed from.
Resuming an empty cell is undefined in Boost.Context; the model stops with
`wrecked` set. Tasks are a set that any executor takes from. `AddTask` is
`cppt_co_add_task`: since other coroutines' tasks can fill a task queue at any
time, it may drop any task, and `dropped` has the coroutines that went with
one. `leaked` is a history variable: a helper took the lock for a coroutine
that had gone, the case that the code logs. `LockHasOwner` and `AllDone` except
it by name, so that they say there is no other way to lose the lock; what a
dropped task takes with it, the lock or the wake-up of the next waiter, they
and `NoStrandedWaiter` say as well.
`Cells` is bounded; while all cells are referred to, no coroutine gets a new one.

### AtomicQueue

Each action is one atomic access: the load of a counter, the load of the other
one with the test, the compare-exchange or fetch-add, the slot's
compare-exchange, and the end of the access to the element. Elements circulate:
a thread that holds one may push it, one that holds none may pop. `remap_index`
is a permutation of the slots and is left out; `do_pop_any` leaves a moved-from
element behind, modelled as None. `forced` is a history variable: a `push` has
claimed beyond a full ring, or a `pop` on an empty one, after which the counters
say nothing about the ring; `ClaimsFit` and `ClaimServed` are about the rest.

### CorJoin

The cells of `CorMutex`, and the coroutine `Target` that is joined.
`CallJoin`, `Look`, `Push`, `Again`, `Valid`, `Move` are the statements of
`join()` and its helper: the test of `m_co_started`, the first test of
`m_co_stopped`, the push, the second test, and `return std::move(*caller_c)`.
`Stop`, `Pop`, `Test`, `Add` are the end of `start_user_co`. The map to `Latch`
is read off `started`, `stopped` and the place of each joiner (`phase`). A
joiner is destroyed when the wait queue is full, as in the code, and any task can
be dropped, as in `CorMutex`: a joiner's own, or the target's before its end
(`JoinReturns`). Two threads can still resume one continuation: a joiner that is popped between its helper's
test and move is run by an executor that may find the cell emptied
(`wrecked`).

### TimeWheel and TimedYield

`wheel`, `cursor` and `due` are the slots, the current slot and the list that
`tick` has taken out. `TakeSlot` and `NextTask` are its loop, with the code's
arithmetic on the number of slots. `TimedYield` takes one step per access of
`co_yield_impl` with a timeout: `Alloc` and `Pop` are the two steps of the
pool's `alloc`, `Start` the wrapped function, `SetCb` and `AddTimer` the rest
of `wrap_func`, `Complete` and `Fire` the two functions that put a task in line or
lose it to a full task queue (the two Fixmes, `mod_cor.cpp:434` and `446`),
`Release` the one that frees the buffer, `Before` the tasks'
`m_f_before_execution`. `buf`, `twTask`, `isTimeout` and `result` are the
variables of the frame that all of them refer to. The frames of a coroutine's
successive waits are at one place, as those of successive calls of one function
are: a late function then reads and writes the variables of the wait that is
there now. Anything else the build may do is worse. `lost` is a history
variable: the waits whose timer fired into a full task queue, the one cause for
which a wait may not end (`WaitEnds`).

### Channel

One module for the three pairs of handlers, chosen by `kind` in the initial
state, with and without a timeout (`timed`). `wpc[w]` follows a writer from its
push through `notify()` into the notify handler, `rpc` the reader through
dequeue and the wait handler, and `wrap[x]` the executor that the reader left
through `wrap_func`. `notified`, `resumeF` and `owner` are `m_notified`,
`m_resume_f` and the mutex; `tasks` counts the calls of `m_resume_f` and of the
timer that no executor has taken yet. `Yield` passes `m_cor_mutex` from the
reader to `wrap_func`, as `get_wait_handler_cor` does; the thread variant locks
inside `wrap_func`. `RunTask` is `exec_co`: a task whose coroutine has not
switched out is skipped, and a full task queue drops a task (`Add`). There is one reader, as `m_resume_f` has room for one.
Messages are counted and the mutexes exclude.

The timed yield is taken from `TimedYield` in short: `timer` is the state of
the frame's timer, `XAdd` puts it in the wheel, `TimerFires` may come at any
time after that, and a completion cancels it. So `m_resume_f` outlives a wait
that timed out, and its tasks reach a reader in user code or in a later wait.
The race of two executors for the two tasks of one wait is in `TimedYield`.
`YieldFails` is a yield that gets no timer: with the handlers for coroutines
`m_cor_mutex` then stays locked and the reader locks it again (`Stuck`).
`m_cor_mutex` is a `cor_mutex_t`, and `CorMutex` shows that it can leave a
waiter behind: `unserved` says that it has, and nobody gets it from then on. A
reading thread's wait handler returns true after its timeout too
(`SleepTimeout`), so that a thread's timed read does not end without a message.

### CorNet

A program per side: the client connects and writes two parts, the server
listens, accepts and reads them in one call. `Call` and `Advance` are the loops
of `write()` and `read()`, `StartSome`, `SomeEnds`, `SomeFails` and
`SomeTimeout` the calls of `write_some` and `read_some`, `ConnectHandler` and
the other handlers what Asio calls; `EndOfStream` is a read that finds the end
of the stream, which is 0 bytes and no error. `size[s]` is the int of the frame that only
the handler writes: after a timeout without it, it holds anything (`Junk`). TCP
keeps bytes in order and cuts them anywhere; UDP loses, doubles and reorders.

### ExecutorMonitor

One task queue and the executors it has had: `newest` is `g_executors[i]`, an
executor that has been replaced runs on until it sees `m_turn_on`. `turnOn`,
`executing` and `blocking` are the three flags, plain bools, with a step per
access; `handler` is the executor whose handlers the queue has; `bed[e]` the
condition variable on which executor e sleeps, which can be the newer one's,
since dequeue calls the queue's wait handler whoever its caller is. Time is
left out but for its order: of `Tick`s of a second, two may and three must pass
between a mark and a replacement (`m_is_blocking`'s time is over 1000 ms).

A notifier that has read the notify mode and then finds its executor replaced
and gone locks a mutex on the stack of a thread that has returned: `wrecked`,
reached in 16 steps, after which the model stops. A replaced executor can also
take the notification, or leave the queue out of notify mode, so that the newest
one learns of a task by its 1000 ms timeout only: `QueueServed` needs it.

## 3. Runs

| run | instance | shows |
|---|---|---|
| `scheduler` | 2 cores, 3 coroutines, 1 external thread, queues of 2, steals of up to 2 | no lost wake-up, each coroutine in one place, the refinement of `CoroutineLifecycle`, also when tasks are dropped |
| `scheduler_live` | 2 cores, 3 coroutines | without help from timeouts, sleepers with work wake up, and a coroutine in line is run unless it is stolen for ever or dropped |
| `mutex` | 2 executors, 3 coroutines, a wait queue of 2, programs of 2, 2 and 1 calls | exclusion, no stranded waiter, the lock has an owner, also when tasks are dropped; programs end, but for the named causes |
| `mutex_invalid` | the same with a wait queue of 3 | **violated**: the helper can find its coroutine gone |
| `ring` | 4 threads, 3 elements, 2 slots, counters modulo 16 from 14, 6 claims | exclusion, conservation, claims that fit, justified failures, claims that are served |
| `channel` | 2 writers, 2 executors, room for 2 messages, all kinds, with and without timeouts | a waiting reader is woken for every message, once per wait; a read ends when there is a message, a timed one without it |
| `join` | 2 executors, 3 joiners, a wait queue of 2, programs of 2 calls | one continuation each, nobody stranded, the refinement of `Latch`, joins return |
| `timed_yield` | 2 executors, 2 coroutines that wait once, 1 or 2 buffers, 2 slots, intervals 0 or 1 and 1 | timers fire when due, buffers have one user and come back, the refinement of `TimedWait`, waits end |
| `timed_again` | 1 executor, 1 coroutine that waits twice, 3 slots | **violated**: a wait returns 1 before its time |
| `net` | a message of 2 x 3 bytes, room for 4 in a connection | success without a timeout is true, no gaps in a stream, calls end |
| `net_timeout` | the same | **violated**: a timeout is reported as a success |
| `monitor` | 2 executors for one queue, a coroutine that may block, a task that cannot be resumed | handlers of the newest, one runner, a task behind a blocked coroutine is taken up |

Bounds, and why they are enough. Two executors give every race between an
owner, a thief and an enqueuer, between a helper and an unlocker or a
completion, and between a replaced executor and its heir; chains of thieves on
more cores are the proofs' matter. `StealMax` is 2 instead of 10: the loop runs
zero, one and several times. Queues and wait queues of 2 with three users reach
the full and the empty case; the code's 2048 is reached in the same way.
`Budget` ends the programs of coroutines; 2 operations let a lock be taken,
contended and released while others start. In `AtomicQueue`, `MaxClaims` (calls
begin only if their claim fits) lets the counters pass their wrap and every
slot be used three times; `Word` = 16 stands for 2^32. The coroutines of
`scheduler` other than the first are symmetric; no other run uses symmetry, as
the others check liveness or are small. It takes three coroutines for two
executors to steal for ever, and `scheduler_live` has them. It has no external
thread: what one does to a queue whose executor sleeps, the executor of the
other core does as well, and that no two enqueuers spoil each other's wake-up is
`NoLostWakeup`, which `scheduler` checks with an external thread and the proofs
establish for any number. In `Channel` two executors are all that the reader can
be on: the one it left, which is still in `wrap_func`, and the one that resumed
it. Two writers let one be early while the other is in the handler, and with
room for 2 messages both can be there for messages that are still in the queue.
`InLine` = 1 lets a timer fire when no task of the reader is in line, and a
stale task get in line behind the timer's (`NoLostWakeup` and `OneResumption`
are proved for any `InLine`). In `TimedYield`, `Waits` = 1 is the promise that
the code keeps and 2 the one that it breaks; with 2 slots an interval of 1 is
the longest there is, and one of the two coroutines chooses between it and 0
(`Timeouts`). Intervals stay below the number of slots, as the callers' do (3 s
of 60), which is also an assumption of the module. In
`CorNet` 6 bytes and room for 4 let a write and a read each be cut in several
ways, and a write wait for the reader. `MaxExecutors` = 2: each replacement is
alike, and `QueueServed` says that the bound may end it.

Deadlock checking is off where programs end, claims are bounded, a peer may
wait for good, or the model stops after undefined behaviour; it is on for the
scheduler, whose executors never stop.

### What the violations say

- `CallerStaysValid` (`mutex_invalid`). A coroutine that pushed itself to the
  wait queue may be popped and run elsewhere before its helper's
  compare-exchange. If the lock is free at that moment the helper takes it for
  nobody: the code logs "caller_c wrongly became invalid!" and leaves the lock
  set. The same race can resume an empty continuation (`wrecked`). Exclusion
  survives it, and is proved.
- `TimeoutIsTrue` (`timed_again`). A timer that fires after the operation has
  ended, but before the coroutine runs, leaves a second task in line. It finds
  the coroutine in its next wait, writes `is_timeout` there and resumes it: the
  wait returns 1 and has not timed out.
- `TimeoutIsNoSuccess` (`net_timeout`). `connect`, `write_some` and `read_some`
  test the result of `cor_yield` for `< 0`, and a timeout is 1: a socket that
  is not connected, or a size that nobody wrote, is returned as a success.

### What else was seen

Facts that no run of the list checks, because no text of the repository
promises otherwise:

- A coroutine in line need not be run: three coroutines on two cores are enough
  for two executors to steal a task from each other for ever, by an adversarial
  schedule without end. `ReadyRuns` excepts a coroutine that is stolen again and
  again, in the words of the formula; without the exception TLC finds this
  behaviour in `scheduler_live`.
- A dropped task costs more than its coroutine: the owner of a mutex that is
  dropped keeps it, a dropped waiter takes with it the wake-up of the next one
  (`AllDone`), a wait whose timer's task is dropped may never end (`WaitEnds`),
  nor a read (`Hindered`).
- With one core the wait handler is `cv_wait`, dequeue passes it 0, and an idle
  executor polls without sleeping.
- The elements of `AtomicQueue2` can change order when two pushes, or two pops,
  hold tickets a lap apart: a slot does not know tickets.
- With more than one wait per coroutine the release function frees the buffer
  of a later wait, or none: buffers can get two users or leak. `PoolRefills` and
  `BuffersHaveOneUser` are therefore stated, and hold, for first waits; no
  property of another module rests on buffers that come back.
- A coroutine's timed read whose yield gets no timer leaves `m_cor_mutex` locked
  (`Stuck`); a `read()` whose peer has closed never ends: `CallsEnd` excepts a
  read that finds the end of the stream again and again.

## 4. Fairness

`Scheduler!Fairness`: threads are scheduled (weak fairness of each executor's
steps and of an enqueue that has begun); a coroutine leaves its executor at
some time (strong fairness of `Leave`, since it cannot leave in the middle of a
call it makes). The code justifies both: executors are preemptive OS threads in
an endless loop, and the runtime is cooperative and relies on its coroutines to
yield. No fairness is assumed of creations and resumptions, which are the
user's, nor of `CvTimeout`: liveness does not rest on the 1000 ms timeout.
`CorMutex!FairSpec` and `CorJoin!FairSpec` have the same thread fairness, with
programs of finite length. `AtomicQueue!Fairness` asks only that a thread inside
a call is scheduled: the compare-exchange loops are lock-free, not wait-free,
and end within the bound because claims end. `TimedYield!FairSpec` has the
executors and the Asio thread, whose tick arms its timer again, and nothing for
operations, which may never end. `Channel!FairSpec` has the handlers, dequeue
and the executors, and nothing else: nobody need read or write, no timer and no
timeout of a sleeping thread need come, and every yield may fail for want of a
timer. That timers fire is shown for first waits only, and a channel's reader
waits again and again; so what a timed read needs of timers is an antecedent
within `EndsInTime` (`WF_vars(TimerFires)`, and not failing for ever), for
the reader to see. `CorNet!FairSpec` has the coroutines, and nothing for the
network nor for timeouts; that the timeouts of the two sides come is an
antecedent of `CallsEnd`, for the same reason. `ExecutorMonitor!Fairness` has the threads, the monitor's clock and the
1000 ms timeout of the sleep, but neither `Finish` nor `Yield`: coroutines that
keep their executor for ever are what the monitor is there for.

## 5. Proofs

All theorems hold for every value of the constants allowed by the modules'
ASSUMEs. Most of these say that there is at least one core, queue place, slot
and timer, and that None and the threads have names of their own. Four are
bounds of the models: `AtomicQueue!LapAssumption` (the counters do not come half
round, or the sign of a difference means nothing; the code counts to 2^32),
`TimedYield!IntervalsAssumption` (no interval is longer than the wheel) and the
finiteness of threads, coroutines and buffers where they are counted.

An invariant of a run is seldom inductive. Each module states the parts that
its own needs, each part with a comment, and proves one lemma per part: every
step keeps it, given all the others.

- `Scheduler_proofs!TypeCorrect`, `WakeUpsKept`: `Spec => []TypeOK` and
  `Spec => []NoLostWakeup`. `Inv` adds `Held` (a thread in the middle of an
  enqueue or a steal holds what its place says), `Modes` (past "setmode" the
  queue is in notify mode until "clear", and past "start" its handler is set)
  and `Notified`, which extends the claim from a sleeping executor to one that
  has found its queue empty and is on its way to sleep.
- `Scheduler_proofs!InOnePlace`: `Spec => []OnePlace`, by `PlaceInv`. OnePlace
  counts, over all queues, hands and executors, the places of a coroutine, which
  no prover likes to do; `PlaceInv` says the same pairwise: the places exclude
  each other (`OneKind`), each holds a coroutine once (`OnceQueued`,
  `OnceHanded`, `OnceRun`), and a thread holds none outside the steps that hold
  one (`Empty`).
- `Scheduler_proofs!SchedulerImplementsLifecycle`: `Spec => ImplementsLifecycle`.
  With `PlaceInv` the place of a coroutine tells its state, and each action is
  one step of `CoroutineLifecycle` for one coroutine, or none.
- `CorMutex_proofs!TypeCorrect`, `Exclusion`, `HasOwner`, `NobodyStranded`:
  `TypeOK`, `MutualExclusion`, `LockHasOwner` and `NoStrandedWaiter`. `Owners`:
  the flag is set while a coroutine holds the lock or a helper has taken it and
  not handed it over, there is one of them at most, and one at least unless the
  lock has leaked. That nobody is stranded is a matter of the cells:
  a coroutine is in one cell (`OneCell`), or run by one executor (`OneRunner`);
  a cell is in one line once (`QueuedOnce`, `HeldOnce`), and is a helper's own
  until it is pushed (`Unshared`), so that whoever is found in the queue still
  wants the lock (`Wanting`), and while the lock is free somebody will try it or
  look, unless the one whose turn it was has been dropped (`Attended`). An
  unlocker that puts a coroutine in line hands this duty to it, and the
  coroutine's own compare-exchange to the next unlocker.
- `AtomicQueue_proofs!SlotsExclude`, `ElementsKept`: from `Guarded` (the state
  of a slot says who is at its element), `Filled` (and whether there is one) and
  `OnePlaceEach`. Neither depends on the counters: any tickets will do, so
  wrapping and laps cannot break them.
- `AtomicQueue_proofs!TypeCorrect`, `ClaimsStayWithin`, `FailuresHaveCause`:
  `TypeOK`, `ClaimsFit` and `Spec => FailsForCause`, an action property. `Counts`
  compares the counters by the number of claims since the start: the counter that
  a thread loaded first is no newer than it is now (`Loaded`), so that a test
  which fails with it fails with the current one too; a test that was passed
  would be passed still (`Tested`), so that a claim which succeeds, on an
  unchanged counter, is within the ring; pushes and pops add up to the claims,
  and while no claim was forced they differ by 0 to `Size`.
- `CorJoin_proofs!TypeCorrect`, `ResumedOnce`, `NobodyStranded`,
  `JoinIsLatch`: `TypeOK`, `OneContinuation`, `NoStrandedJoiner` and
  `Spec => ImplementsLatch`, the whole refinement. The invariant is the
  conjunction of `Frames` (what an executor's place says about the coroutine it
  has), `Single` (a coroutine is in one cell, and in none while it runs),
  `SharedOnce` (a continuation gets into the wait queue once), `AfterStop` (what
  happens only after `m_co_stopped` is set), `QueuedOnce` (a cell is in the wait
  queue once, and not also with an executor) and `Attended` (a live element left
  after the completion has its helper before the second test or after a
  successful one). The refinement then needs, per action, which step of
  `Latch` it maps to; a joiner is through only after `stopped`, by `AfterStop`.
- `TimedYield_proofs!TypeCorrect`, `TimersFireWhenDue`, `BuffersAreNotShared`:
  `TypeOK`, `FiresWhenDue` and `BuffersHaveOneUser` hold for as long as no
  coroutine has begun a second wait (`FirstWaits`), for any `Waits`: with a
  second wait the code breaks all three, and TLC shows it. `Armed`, `InRing` and
  `InDue` follow a timer from its executor into the wheel and out of it, with the
  arithmetic that relates its slot to the cursor and to its age; `Holding` and
  `Free` divide the buffers among coroutines and pool; `Causes`, `Waiting`,
  `Frames` and `OneEarly` say what has come to pass before a task is put in
  line, and that a wait is begun once.
- `TimedYield_proofs!YieldKeepsPromise`: with `Waits` = 1, `Spec =>
  KeepsPromise`, the refinement of `TimedWait`. A task for a coroutine has its
  cause (`Causes`), which does not go away (`PastStays`), so that the executor
  that resumes the coroutine, whichever it is, ends the wait in a way that
  `TimedWait` allows; a task that is dropped is a stutter, and `lost` only grows
  (`LostStays`); two executors for the two tasks of one wait either find
  the coroutine gone or stop the model (`wrecked`).
- `Channel_proofs!TypeCorrect`, `WakeUpsKept`, `ResumedOnce`: `TypeOK`,
  `NoLostWakeup` and `OneResumption`. `Told` says that a message which came
  after the reader's poll has raised `m_notified` or will; `Called` that a
  raised `m_notified` is seen by `wrap_func`, or `m_resume_f` by a writer;
  `Reachable` that one of the two is still to come. They rest on `Locked` (who
  is inside the mutex has it) and `Fresh`: when `m_resume_f` is reset under a
  reader that waits again, that reader's own `wrap_func` is still in front of
  the mutex. `Told` and `Called` together give `NoLostWakeup`, with timeouts
  too; the last three speak of a reader none of whose tasks has been dropped. `Once` ties `m_resume_f` and `wrap_func` to the wait that is going on and
  gives `OneResumption` where there are no timeouts.
- `ExecutorMonitor_proofs!TypeCorrect`, `HandlersStay`, `RunOnce`: `TypeOK`,
  `HandlersAreNewest` and `OneRunner`. The first needs `Replacing`: between the
  monitor's decision and the new thread's start the newest executor has
  installed its handlers, since it was seen executing. The second needs
  `OnePlace`: a task is still to be added, in the queue once, with one executor,
  or gone.
- `CorNet_proofs!TypeCorrect`, `StreamsHaveNoGaps`, `TrueIsDone`: `TypeOK`,
  `NoGaps` and `TrueMeansDone`, for messages and connections of any size.
  `Stream`: what is under way and what has arrived continue each other.
  `Counted`: the numbers of a call stay in its part of the message, and a
  timeout closes the socket, so that a size that nobody wrote can be counted but
  moves no byte. `InStep`: as long as its socket is open, a side has counted
  what its transport has taken or given.

Only model-checked: all liveness, which is out of the prover's reach. Every
safety property of a passing run has its theorem.

## 6. Not modelled, and the plan

Proofs to add: `TimeoutIsTrue` for first waits, which `timed_again` violates for
second ones; that the lock leaks in `CorMutex` only by way of a coroutine that
ran before its helper's compare-exchange; that the promise of `TimedWait` lasts
for each coroutine until its own second wait, whatever the others do.

Left out: intervals of 60 seconds and more, which fire early by the wheel's
arithmetic (`IntervalsAssumption`; every caller waits 3 s); what `TimedYield`
promises for a wait after the first, beyond the violation of `timed_again`;
the composition of stealing with replaced executors (the two are in
`Scheduler` and `ExecutorMonitor`, which share the queue's code only), the
order in which executors take tasks where only the fact of running matters
(`CorMutex`, `CorJoin`, `TimedYield`, `Channel` take any), a channel read with a
timeout mixed with one without (their frames differ, and a late function would
find anything), and stale functions that find a frame at another place.

Left out for good: start-up and shutdown (nothing clears `g_run_flag`),
`mod_cor_timer.hpp` (a wrapper of an Asio timer without a user), the
applications and the HTTP parsing, logging and utilities, Asio itself, the C++
memory model below sequential consistency, and the compiler's treatment of the
thread-local `g_executor` across context switches (`mod_cor.cpp:98`).
