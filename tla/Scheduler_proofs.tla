-------------------------- MODULE Scheduler_proofs ---------------------------
(***************************************************************************)
(* Proofs about Scheduler, for any number of cores, coroutines and threads *)
(* and any capacity: the type invariant, the absence of lost wake-ups, and *)
(* that every coroutine is in one place, from which follows that the       *)
(* scheduler implements CoroutineLifecycle.                                *)
(***************************************************************************)
EXTENDS Scheduler, FiniteSetTheorems, TLAPS

\* The executor holds a coroutine.
Running == {"clear", "exec", "requeue", "register"}

\* The executor has turned notify mode on and not off again.
Polling == {"repoll", "clear", "size", "takeone", "take", "put", "endsteal",
            "cvlock", "blocked"}

\* What a thread holds, by where it is in its program.
Held ==
    /\ \A e \in Cores : pc[e] \in Running => cur[e] # None
    /\ \A e \in Cores : pc[e] = "put" => hand[e] # None /\ quota[e] > 0
    /\ \A t \in Threads : send[t].at = "try" => hand[t] # None
    /\ \A e \in Cores : send[e].at = "try" => pc[e] = "exec"
    /\ \A e \in Cores : pc[e] = "requeue" => send[e].at = "idle"

\* The state of notify mode and of the handlers, by where the executor is.
Modes ==
    /\ \A e \in Cores : pc[e] # "start" => armed[e]
    /\ \A e \in Cores : nested[e] => pc[e] \in {"exec", "requeue", "register"}
    /\ \A e \in Cores : pc[e] \in Polling \/ nested[e] => notifyMode[e]

\* The executor will sleep, unless it finds its flag raised.
Committed(e) ==
    \/ pc[e] \in {"size", "takeone", "cvlock", "blocked"}
    \/ pc[e] \in {"take", "put"} /\ ~stole[e]

\* An executor that is committed to sleep has been, or will be, notified of
\* the tasks in its queue.
Notified(e) ==
    Committed(e) /\ queue[e] # <<>> => notified[e] \/ \E t \in Threads : Alerting(t, e)

Inv ==
    /\ TypeOK
    /\ Held
    /\ Modes
    /\ \A e \in Cores : Notified(e)
-----------------------------------------------------------------------------
LEMMA NeighbourType == ASSUME NEW e \in Cores PROVE Neighbour(e) \in Cores
  BY CoresAssumption DEF Neighbour, Cores

LEMMA ZeroCore == 0 \in Cores
  BY CoresAssumption DEF Cores

\* Pushing and popping keep a queue a sequence of coroutines.
LEMMA QueueOps ==
  ASSUME NEW s \in Seq(Coroutines)
  PROVE  /\ \A c \in Coroutines : Append(s, c) \in Seq(Coroutines)
         /\ s # <<>> => Head(s) \in Coroutines /\ Tail(s) \in Seq(Coroutines)
  OBVIOUS

LEMMA CoresAreThreads == ASSUME NEW e \in Cores PROVE e \in Threads
  BY DEF Threads

LEMMA LenType ==
  ASSUME TypeOK, NEW q \in Cores
  PROVE  Len(queue[q]) \in Nat
  BY DEF TypeOK

LEMMA QuotaType == ASSUME NEW n \in Nat, n > 1 PROVE StealQuota(n) \in 0 .. StealMax
  BY SizesAssumption DEF StealQuota

\* The values a thread's place in an enqueue can take.
LEMMA SendOps ==
  ASSUME NEW s \in Sends
  PROVE  /\ s.q \in Cores /\ s.tries \in 0 .. NumCores
         /\ s.at \in {"idle", "try", "check", "notify"}
         /\ Idle \in Sends /\ Idle.at = "idle"
         /\ \A q \in Cores : [at |-> "try", q |-> q, tries |-> 0] \in Sends
         /\ [s EXCEPT !.at = "notify"] \in Sends
         /\ [s EXCEPT !.at = "notify"].at = "notify" /\ [s EXCEPT !.at = "notify"].q = s.q
         /\ s.tries < NumCores => [at |-> "try", q |-> 0, tries |-> s.tries + 1] \in Sends
  BY ZeroCore, CoresAssumption DEF Sends, Idle

\* The coroutine a thread works on is there.
LEMMA HeldCo ==
  ASSUME TypeOK, Held
  PROVE  /\ \A e \in Cores : pc[e] \in Running => cur[e] \in Coroutines
         /\ \A e \in Cores : pc[e] = "put" => hand[e] \in Coroutines /\ quota[e] \in 1 .. StealMax
         /\ \A t \in Threads : send[t].at = "try" => hand[t] \in Coroutines
  BY CoresAreThreads, SizesAssumption DEF TypeOK, Held

\* What an attempt to push leaves behind.
LEMMA DeliverType ==
  ASSUME TypeOK, NEW t \in Threads, NEW c \in Coroutines, NEW q \in Cores, Deliver(t, c, q)
  PROVE  /\ queue' \in [Cores -> Seq(Coroutines)]
         /\ send' \in [Threads -> Sends]
         /\ dropped' \in SUBSET Coroutines
         /\ send'[t].at # "try" \/ send' = send
         /\ \A u \in Threads \ {t} : send'[u] = send[u]
<1>1. CASE ~Full(q)
  <2>1. /\ queue' = [queue EXCEPT ![q] = Append(@, c)]
        /\ send' = [send EXCEPT ![t] = [at |-> "check", q |-> q, tries |-> 0]]
        /\ dropped' = dropped
    BY <1>1 DEF Deliver
  <2>2. Append(queue[q], c) \in Seq(Coroutines)
    BY QueueOps DEF TypeOK
  <2>3. [at |-> "check", q |-> q, tries |-> 0] \in Sends
    BY CoresAssumption DEF Sends
  <2> QED  BY <2>1, <2>2, <2>3 DEF TypeOK
<1>2. CASE Full(q)
  BY <1>2 DEF Deliver, TypeOK
<1> QED  BY <1>1, <1>2

\* What a pop leaves behind.
LEMMA TakeType ==
  ASSUME TypeOK, NEW e \in Cores, NEW q \in Cores, Take(e, q)
  PROVE  /\ queue' \in [Cores -> Seq(Coroutines)]
         /\ cur' \in [Cores -> Coroutines \cup {None}]
         /\ cur'[e] # None
         /\ \A f \in Cores \ {e} : cur'[f] = cur[f]
         /\ queue[q] # <<>> /\ queue' = [queue EXCEPT ![q] = Tail(@)]
<1>1. Head(queue[q]) \in Coroutines /\ Tail(queue[q]) \in Seq(Coroutines)
  BY QueueOps DEF Take, TypeOK
<1> QED  BY <1>1, NoneAssumption DEF Take, TypeOK

LEMMA TypeHeldStep ==
  ASSUME TypeOK, Held, [Next]_vars
  PROVE  TypeOK' /\ Held'
<1> USE NoneAssumption, SizesAssumption
<1> USE DEF Running, Between, Goto, queueVars, stealVars, coVars
<1>1. ASSUME NEW e \in Cores, SetHandlers(e) PROVE TypeOK' /\ Held'
  <2>1. TypeOK'
    BY <1>1 DEF TypeOK, SetHandlers, Locations
  <2>2. Held'
    BY <1>1, CoresAreThreads DEF TypeOK, Held, SetHandlers
  <2> QED  BY <2>1, <2>2
<1>2. ASSUME NEW e \in Cores, Poll(e) PROVE TypeOK' /\ Held'
  <2>1. CASE queue[e] # <<>>
    <3>0. /\ Take(e, e)
          /\ send[e].at = "idle" /\ pc' = [pc EXCEPT ![e] = "exec"]
          /\ UNCHANGED <<notifyMode, armed, notified, nested, quota, stole, hand, send,
                         waiting, created, finished, dropped>>
      BY <1>2, <2>1 DEF Poll
    <3>1. TypeOK'
      BY <3>0, TakeType DEF TypeOK, Locations
    <3>2. Held'
      BY <3>0, TakeType, CoresAreThreads DEF TypeOK, Held
    <3> QED  BY <3>1, <3>2
  <2>2. CASE queue[e] = <<>>
    <3>1. TypeOK'
      BY <1>2, <2>2, NeighbourType, QueueOps, CoresAreThreads, HeldCo DEF TypeOK, Poll, Take, Locations
    <3>2. Held'
      BY <1>2, <2>2, CoresAreThreads DEF TypeOK, Held, Poll, Take
    <3> QED  BY <3>1, <3>2
  <2> QED  BY <2>1, <2>2
<1>3. ASSUME NEW e \in Cores, SetMode(e) PROVE TypeOK' /\ Held'
  <2>1. TypeOK'
    BY <1>3 DEF TypeOK, SetMode, Locations
  <2>2. Held'
    BY <1>3, CoresAreThreads DEF TypeOK, Held, SetMode
  <2> QED  BY <2>1, <2>2
<1>4. ASSUME NEW e \in Cores, Repoll(e) PROVE TypeOK' /\ Held'
  <2>1. CASE queue[e] # <<>>
    <3>0. /\ Take(e, e)
          /\ send[e].at = "idle" /\ pc' = [pc EXCEPT ![e] = "clear"]
          /\ UNCHANGED <<notifyMode, armed, notified, nested, quota, stole, hand, send,
                         waiting, created, finished, dropped>>
      BY <1>4, <2>1 DEF Repoll
    <3>1. TypeOK'
      BY <3>0, TakeType DEF TypeOK, Locations
    <3>2. Held'
      BY <3>0, TakeType, CoresAreThreads DEF TypeOK, Held
    <3> QED  BY <3>1, <3>2
  <2>2. CASE queue[e] = <<>>
    <3>1. TypeOK'
      BY <1>4, <2>2, NeighbourType, QueueOps, CoresAreThreads, HeldCo DEF TypeOK, Repoll, Take, Locations
    <3>2. Held'
      BY <1>4, <2>2, CoresAreThreads DEF TypeOK, Held, Repoll, Take
    <3> QED  BY <3>1, <3>2
  <2> QED  BY <2>1, <2>2
<1>5. ASSUME NEW e \in Cores, ClearMode(e) PROVE TypeOK' /\ Held'
  <2>1. TypeOK'
    BY <1>5 DEF TypeOK, ClearMode, Locations
  <2>2. Held'
    BY <1>5, CoresAreThreads DEF TypeOK, Held, ClearMode
  <2> QED  BY <2>1, <2>2
<1>6. ASSUME NEW e \in Cores, LookAtNeighbour(e) PROVE TypeOK' /\ Held'
  <2>1. TypeOK'
    <3> DEFINE n == Len(queue[Neighbour(e)])
    <3>1. n \in Nat
      BY NeighbourType, LenType
    <3>2. (IF n > 1 THEN StealQuota(n) ELSE 0) \in 0 .. StealMax
      BY <3>1, QuotaType
    <3>3. quota' = [quota EXCEPT ![e] = IF n > 1 THEN StealQuota(n) ELSE 0]
      BY <1>6 DEF LookAtNeighbour
    <3>4. quota' \in [Cores -> 0 .. StealMax]
      BY <3>2, <3>3 DEF TypeOK
    <3>5. pc' \in [Cores -> Locations]
      BY <1>6 DEF TypeOK, LookAtNeighbour, Locations
    <3> QED  BY <1>6, <3>4, <3>5 DEF TypeOK, LookAtNeighbour
  <2>2. Held'
    BY <1>6, CoresAreThreads DEF TypeOK, Held, LookAtNeighbour
  <2> QED  BY <2>1, <2>2
<1>7. ASSUME NEW e \in Cores, StealTake(e) PROVE TypeOK' /\ Held'
  <2>1. CASE quota[e] > 0 /\ queue[Neighbour(e)] # <<>>
    <3> DEFINE v == Neighbour(e)
    <3>1. v \in Cores /\ e \in Threads /\ queue[v] \in Seq(Coroutines)
      BY NeighbourType, CoresAreThreads DEF TypeOK
    <3>2. Head(queue[v]) \in Coroutines /\ Tail(queue[v]) \in Seq(Coroutines)
      BY <2>1, <3>1, QueueOps
    <3>3. /\ pc[e] = "take"
          /\ hand' = [hand EXCEPT ![e] = Head(queue[v])]
          /\ queue' = [queue EXCEPT ![v] = Tail(@)]
          /\ pc' = [pc EXCEPT ![e] = "put"]
          /\ UNCHANGED <<quota, send, cur>>
      BY <1>7, <2>1 DEF StealTake
    <3>4. TypeOK'
      BY <1>7, <3>1, <3>2, <3>3 DEF TypeOK, StealTake, LeaveLoop, Locations
    <3>5. Held'
      BY <2>1, <3>1, <3>2, <3>3, CoresAreThreads DEF TypeOK, Held
    <3> QED  BY <3>4, <3>5
  <2>2. CASE ~(quota[e] > 0 /\ queue[Neighbour(e)] # <<>>)
    <3>0. LeaveLoop(e) /\ UNCHANGED <<queue, hand>>
      BY <1>7, <2>2 DEF StealTake
    <3>1. TypeOK'
      BY <1>7, <3>0, SizesAssumption DEF TypeOK, StealTake, LeaveLoop, Locations
    <3>2. Held'
      BY <1>7, <3>0, CoresAreThreads DEF TypeOK, Held, StealTake, LeaveLoop
    <3> QED  BY <3>1, <3>2
  <2> QED  BY <2>1, <2>2
<1>8. ASSUME NEW e \in Cores, StealPut(e) PROVE TypeOK' /\ Held'
  <2>1. CASE ~Full(e)
    <3>0. /\ e \in Threads /\ hand[e] \in Coroutines /\ quota[e] \in 1 .. StealMax
          /\ Append(queue[e], hand[e]) \in Seq(Coroutines)
      BY <1>8, CoresAreThreads, HeldCo, QueueOps DEF TypeOK, StealPut
    <3>1. TypeOK'
      <4>1. /\ queue' = [queue EXCEPT ![e] = Append(@, hand[e])]
            /\ quota' = [quota EXCEPT ![e] = @ - 1]
            /\ stole' = [stole EXCEPT ![e] = TRUE]
            /\ pc' = [pc EXCEPT ![e] = "take"]
            /\ dropped' = dropped
        BY <1>8, <2>1 DEF StealPut
      <4>2. quota' \in [Cores -> 0 .. StealMax]
        BY <3>0, <4>1 DEF TypeOK
      <4> QED  BY <1>8, <3>0, <4>1, <4>2 DEF TypeOK, StealPut, Locations
    <3>2. Held'
      BY <1>8, <2>1, CoresAreThreads DEF TypeOK, Held, StealPut, LeaveLoop
    <3> QED  BY <3>1, <3>2
  <2>2. CASE Full(e)
    <3>0. e \in Threads /\ hand[e] \in Coroutines
      BY <1>8, CoresAreThreads, HeldCo DEF StealPut
    <3>1. TypeOK'
      <4>1. dropped' = dropped \cup {hand[e]} /\ LeaveLoop(e) /\ queue' = queue
        BY <1>8, <2>2 DEF StealPut
      <4> QED  BY <1>8, <3>0, <4>1 DEF TypeOK, StealPut, LeaveLoop, Locations
    <3>2. Held'
      BY <1>8, <2>2, CoresAreThreads DEF TypeOK, Held, StealPut, LeaveLoop
    <3> QED  BY <3>1, <3>2
  <2> QED  BY <2>1, <2>2
<1>9. ASSUME NEW e \in Cores, StealOne(e) PROVE TypeOK' /\ Held'
  <2>1. CASE queue[Neighbour(e)] # <<>>
    <3>0. Take(e, Neighbour(e))
      BY <1>9, <2>1 DEF StealOne
    <3>1. TypeOK'
      BY <1>9, <2>1, <3>0, NeighbourType, TakeType DEF TypeOK, StealOne, Locations
    <3>2. Held'
      BY <1>9, <2>1, <3>0, NeighbourType, TakeType, CoresAreThreads DEF TypeOK, Held, StealOne
    <3> QED  BY <3>1, <3>2
  <2>2. CASE queue[Neighbour(e)] = <<>>
    <3>1. TypeOK'
      BY <1>9, <2>2, NeighbourType, QueueOps, CoresAreThreads, HeldCo DEF TypeOK, StealOne, Take, Locations
    <3>2. Held'
      BY <1>9, <2>2, CoresAreThreads DEF TypeOK, Held, StealOne, Take
    <3> QED  BY <3>1, <3>2
  <2> QED  BY <2>1, <2>2
<1>10. ASSUME NEW e \in Cores, EndSteal(e) PROVE TypeOK' /\ Held'
  <2>1. TypeOK'
    BY <1>10 DEF TypeOK, EndSteal, Locations
  <2>2. Held'
    BY <1>10, CoresAreThreads DEF TypeOK, Held, EndSteal
  <2> QED  BY <2>1, <2>2
<1>11. ASSUME NEW e \in Cores, CvWait(e) PROVE TypeOK' /\ Held'
  <2>1. TypeOK'
    BY <1>11 DEF TypeOK, CvWait, Locations
  <2>2. Held'
    BY <1>11, CoresAreThreads DEF TypeOK, Held, CvWait
  <2> QED  BY <2>1, <2>2
<1>12. ASSUME NEW e \in Cores, CvWake(e) PROVE TypeOK' /\ Held'
  <2>1. TypeOK'
    BY <1>12 DEF TypeOK, CvWake, Unblock, Locations
  <2>2. Held'
    BY <1>12, CoresAreThreads DEF TypeOK, Held, CvWake, Unblock
  <2> QED  BY <2>1, <2>2
<1>13. ASSUME NEW e \in Cores, CvTimeout(e) PROVE TypeOK' /\ Held'
  <2>1. TypeOK'
    BY <1>13 DEF TypeOK, CvTimeout, Unblock, Locations
  <2>2. Held'
    BY <1>13, CoresAreThreads DEF TypeOK, Held, CvTimeout, Unblock
  <2> QED  BY <2>1, <2>2
<1>14. ASSUME NEW e \in Cores, CoYield(e) PROVE TypeOK' /\ Held'
  <2>1. TypeOK'
    BY <1>14 DEF TypeOK, CoYield, Locations
  <2>2. Held'
    BY <1>14, CoresAreThreads DEF TypeOK, Held, CoYield
  <2> QED  BY <2>1, <2>2
<1>15. ASSUME NEW e \in Cores, Requeue(e) PROVE TypeOK' /\ Held'
  <2>1. TypeOK'
    BY <1>15, CoresAreThreads, HeldCo, DeliverType DEF TypeOK, Requeue, Resched, Locations
  <2>2. Held'
    BY <1>15, CoresAreThreads, DeliverType, HeldCo DEF TypeOK, Held, Requeue, Resched
  <2> QED  BY <2>1, <2>2
<1>16. ASSUME NEW e \in Cores, CoSuspend(e) PROVE TypeOK' /\ Held'
  <2>1. TypeOK'
    BY <1>16 DEF TypeOK, CoSuspend, Locations
  <2>2. Held'
    BY <1>16, CoresAreThreads DEF TypeOK, Held, CoSuspend
  <2> QED  BY <2>1, <2>2
<1>17. ASSUME NEW e \in Cores, Register(e) PROVE TypeOK' /\ Held'
  <2>1. TypeOK'
    BY <1>17, CoresAreThreads, HeldCo, QueueOps DEF TypeOK, Register, Resched, Locations
  <2>2. Held'
    BY <1>17, CoresAreThreads DEF TypeOK, Held, Register, Resched
  <2> QED  BY <2>1, <2>2
<1>18. ASSUME NEW e \in Cores, CoFinish(e) PROVE TypeOK' /\ Held'
  <2>1. TypeOK'
    BY <1>18, CoresAreThreads, HeldCo, QueueOps DEF TypeOK, CoFinish, Resched, Locations
  <2>2. Held'
    BY <1>18, CoresAreThreads DEF TypeOK, Held, CoFinish, Resched
  <2> QED  BY <2>1, <2>2
<1>19. ASSUME NEW t \in Threads, CheckMode(t) PROVE TypeOK' /\ Held'
  <2>1. CASE notifyMode[send[t].q]
    <3>1. TypeOK'
      BY <1>19, <2>1, SendOps, ZeroCore, CoresAreThreads DEF TypeOK, CheckMode, Idle, Locations
    <3>2. Held'
      BY <1>19, <2>1, SendOps, CoresAreThreads DEF TypeOK, Held, CheckMode, Idle
    <3> QED  BY <3>1, <3>2
  <2>2. CASE ~notifyMode[send[t].q]
    <3>1. TypeOK'
      BY <1>19, <2>2, SendOps, ZeroCore, CoresAreThreads DEF TypeOK, CheckMode, Idle, Locations
    <3>2. Held'
      BY <1>19, <2>2, SendOps, CoresAreThreads DEF TypeOK, Held, CheckMode, Idle
    <3> QED  BY <3>1, <3>2
  <2> QED  BY <2>1, <2>2
<1>20. ASSUME NEW t \in Threads, Notify(t) PROVE TypeOK' /\ Held'
  <2>1. TypeOK'
    BY <1>20, SendOps, ZeroCore, CoresAreThreads DEF TypeOK, Notify, Idle, Locations
  <2>2. Held'
    BY <1>20, SendOps, CoresAreThreads DEF TypeOK, Held, Notify, Idle
  <2> QED  BY <2>1, <2>2
<1>21. ASSUME NEW t \in Threads, NEW c \in Coroutines, Create(t, c) PROVE TypeOK' /\ Held'
  <2>1. TypeOK'
    BY <1>21, SendOps, ZeroCore, CoresAreThreads DEF TypeOK, Create, RunsUserCode, Locations
  <2>2. Held'
    BY <1>21, SendOps, CoresAreThreads DEF TypeOK, Held, Create, RunsUserCode
  <2> QED  BY <2>1, <2>2
<1>22. ASSUME NEW t \in Threads, NEW q \in Cores, CreateTry(t, q) PROVE TypeOK' /\ Held'
  <2>0. /\ send[t].at = "try" /\ hand[t] \in Coroutines /\ send[t] \in Sends
        /\ UNCHANGED <<notifyMode, armed, notified, pc, cur, nested, stealVars,
                       waiting, created, finished>>
    BY <1>22, HeldCo DEF CreateTry, TypeOK
  <2>1. CASE ~Full(q)
    <3>1. Deliver(t, hand[t], q) /\ hand' = [hand EXCEPT ![t] = None]
      BY <1>22, <2>1 DEF CreateTry
    <3>2. send'[t] = [at |-> "check", q |-> q, tries |-> 0]
      BY <2>1, <3>1 DEF Deliver, TypeOK
    <3>3. TypeOK'
      BY <2>0, <3>1, DeliverType DEF TypeOK
    <3>4. Held'
      <4>1. \A u \in Threads \ {t} : send'[u] = send[u] /\ hand'[u] = hand[u]
        BY <2>0, <3>1, DeliverType DEF TypeOK
      <4>2. send'[t].at = "check" /\ (t \in Cores => pc'[t] = "exec")
        BY <2>0, <3>2 DEF Held
      <4> QED  BY <2>0, <4>1, <4>2, CoresAreThreads DEF TypeOK, Held
    <3> QED  BY <3>3, <3>4
  <2>2. CASE Full(q) /\ send[t].tries < NumCores
    <3> DEFINE s == [at |-> "try", q |-> 0, tries |-> send[t].tries + 1]
    <3>1. send' = [send EXCEPT ![t] = s] /\ UNCHANGED <<queue, hand, dropped>>
      BY <1>22, <2>0, <2>2, SendOps, CoresAssumption DEF CreateTry
    <3>2. s \in Sends /\ s.at = "try"
      BY <2>0, <2>2, SendOps
    <3> HIDE DEF s
    <3>3. TypeOK'
      BY <2>0, <3>1, <3>2 DEF TypeOK
    <3>4. Held'
      BY <2>0, <3>1, <3>2, CoresAreThreads DEF TypeOK, Held
    <3> QED  BY <3>3, <3>4
  <2>3. CASE Full(q) /\ send[t].tries = NumCores
    <3>1. /\ send' = [send EXCEPT ![t] = Idle] /\ hand' = [hand EXCEPT ![t] = None]
          /\ dropped' = dropped \cup {hand[t]} /\ UNCHANGED queue
      BY <1>22, <2>3, CoresAssumption DEF CreateTry, Cores
    <3>2. Idle \in Sends /\ Idle.at = "idle"
      BY <2>0, SendOps
    <3>3. TypeOK'
      BY <2>0, <3>1, <3>2 DEF TypeOK
    <3>4. Held'
      BY <2>0, <3>1, <3>2, CoresAreThreads DEF TypeOK, Held
    <3> QED  BY <3>3, <3>4
  <2>4. send[t].tries \in 0 .. NumCores
    BY <2>0, SendOps
  <2> QED  BY <2>1, <2>2, <2>3, <2>4, CoresAssumption
<1>23. ASSUME NEW t \in Threads, NEW c \in Coroutines, Resume(t, c) PROVE TypeOK' /\ Held'
  <2>1. TypeOK'
    BY <1>23, SendOps, ZeroCore, CoresAreThreads, DeliverType, HeldCo DEF TypeOK, Resume, RunsUserCode, Locations
  <2>2. Held'
    <3>1. /\ send[t].at = "idle" /\ (t \in Cores => pc[t] = "exec")
          /\ waiting[c] \in Cores /\ Deliver(t, c, waiting[c])
          /\ UNCHANGED <<pc, cur, quota, hand>>
      BY <1>23 DEF Resume, RunsUserCode, TypeOK
    <3>2. send'[t].at # "try" /\ \A u \in Threads \ {t} : send'[u] = send[u]
      BY <3>1, DeliverType
    <3> QED  BY <3>1, <3>2, CoresAreThreads DEF TypeOK, Held
  <2> QED  BY <2>1, <2>2
<1>24. ASSUME UNCHANGED vars PROVE TypeOK' /\ Held'
  BY <1>24 DEF TypeOK, Held, vars
<1> QED
  BY <1>1, <1>2, <1>3, <1>4, <1>5, <1>6, <1>7, <1>8, <1>9, <1>10, <1>11, <1>12, <1>13, <1>14, <1>15, <1>16, <1>17, <1>18, <1>19, <1>20, <1>21, <1>22, <1>23, <1>24
  DEF Next, Dequeue, Steal, Sleep, Execute, Leave, Enqueue, UserCalls

LEMMA ModesStep ==
  ASSUME TypeOK, Modes, [Next]_vars
  PROVE  Modes'
<1> USE DEF TypeOK, Modes, Polling, Goto, queueVars, stealVars, coVars
<1>1. ASSUME NEW e \in Cores, SetHandlers(e) PROVE Modes'
  BY <1>1 DEF SetHandlers
<1>2. ASSUME NEW e \in Cores, Poll(e) PROVE Modes'
  BY <1>2 DEF Poll, Take
<1>3. ASSUME NEW e \in Cores, SetMode(e) PROVE Modes'
  BY <1>3 DEF SetMode
<1>4. ASSUME NEW e \in Cores, Repoll(e) PROVE Modes'
  BY <1>4 DEF Repoll, Take
<1>5. ASSUME NEW e \in Cores, ClearMode(e) PROVE Modes'
  BY <1>5 DEF ClearMode
<1>6. ASSUME NEW e \in Cores, LookAtNeighbour(e) PROVE Modes'
  BY <1>6 DEF LookAtNeighbour
<1>7. ASSUME NEW e \in Cores, StealTake(e) PROVE Modes'
  BY <1>7 DEF StealTake, LeaveLoop
<1>8. ASSUME NEW e \in Cores, StealPut(e) PROVE Modes'
  BY <1>8 DEF StealPut, LeaveLoop
<1>9. ASSUME NEW e \in Cores, StealOne(e) PROVE Modes'
  <2>1. /\ UNCHANGED <<notifyMode, armed>> /\ pc[e] = "takeone"
        /\ \/ nested' = nested /\ pc' = [pc EXCEPT ![e] = "cvlock"]
           \/ nested' = [nested EXCEPT ![e] = TRUE] /\ pc' = [pc EXCEPT ![e] = "exec"]
    BY <1>9 DEF StealOne
  <2>2. notifyMode[e] /\ armed[e]
    BY <2>1
  <2>3. \A f \in Cores \ {e} : nested'[f] = nested[f] /\ pc'[f] = pc[f]
    BY <2>1
  <2>4. pc'[e] \in {"cvlock", "exec"} /\ (nested'[e] => pc'[e] = "exec")
    BY <2>1
  <2> QED  BY <2>1, <2>2, <2>3, <2>4
<1>10. ASSUME NEW e \in Cores, EndSteal(e) PROVE Modes'
  BY <1>10 DEF EndSteal
<1>11. ASSUME NEW e \in Cores, CvWait(e) PROVE Modes'
  BY <1>11 DEF CvWait
<1>12. ASSUME NEW e \in Cores, CvWake(e) PROVE Modes'
  BY <1>12 DEF CvWake, Unblock
<1>13. ASSUME NEW e \in Cores, CvTimeout(e) PROVE Modes'
  BY <1>13 DEF CvTimeout, Unblock
<1>14. ASSUME NEW e \in Cores, CoYield(e) PROVE Modes'
  BY <1>14 DEF CoYield
<1>15. ASSUME NEW e \in Cores, Requeue(e) PROVE Modes'
  BY <1>15 DEF Requeue, Resched
<1>16. ASSUME NEW e \in Cores, CoSuspend(e) PROVE Modes'
  BY <1>16 DEF CoSuspend
<1>17. ASSUME NEW e \in Cores, Register(e) PROVE Modes'
  BY <1>17 DEF Register, Resched
<1>18. ASSUME NEW e \in Cores, CoFinish(e) PROVE Modes'
  BY <1>18 DEF CoFinish, Resched
<1>19. ASSUME NEW t \in Threads, CheckMode(t) PROVE Modes'
  BY <1>19 DEF CheckMode
<1>20. ASSUME NEW t \in Threads, Notify(t) PROVE Modes'
  BY <1>20 DEF Notify
<1>21. ASSUME NEW t \in Threads, NEW c \in Coroutines, Create(t, c) PROVE Modes'
  BY <1>21 DEF Create
<1>22. ASSUME NEW t \in Threads, NEW q \in Cores, CreateTry(t, q) PROVE Modes'
  BY <1>22 DEF CreateTry
<1>23. ASSUME NEW t \in Threads, NEW c \in Coroutines, Resume(t, c) PROVE Modes'
  BY <1>23 DEF Resume
<1>24. ASSUME UNCHANGED vars PROVE Modes'
  BY <1>24 DEF vars
<1> QED
  BY <1>1, <1>2, <1>3, <1>4, <1>5, <1>6, <1>7, <1>8, <1>9, <1>10, <1>11, <1>12, <1>13, <1>14, <1>15, <1>16, <1>17, <1>18, <1>19, <1>20, <1>21, <1>22, <1>23, <1>24
  DEF Next, Dequeue, Steal, Sleep, Execute, Leave, Enqueue, UserCalls

\* A push leaves the threads that are alerting at their work, and the pusher
\* joins them for the queue it pushed to.
LEMMA DeliverAlerts ==
  ASSUME TypeOK, NEW t \in Threads, NEW c \in Coroutines, NEW q \in Cores, Deliver(t, c, q),
         send[t].at \in {"idle", "try"}, NEW f \in Cores
  PROVE  /\ \A u \in Threads : Alerting(u, f) => Alerting(u, f)'
         /\ queue'[f] # <<>> => queue[f] # <<>> \/ Alerting(t, f)'
<1>1. CASE ~Full(q)
  <2>1. /\ queue' = [queue EXCEPT ![q] = Append(@, c)]
        /\ send' = [send EXCEPT ![t] = [at |-> "check", q |-> q, tries |-> 0]]
    BY <1>1 DEF Deliver
  <2>2. send'[t].at = "check" /\ send'[t].q = q
    BY <2>1 DEF TypeOK
  <2>3. \A u \in Threads \ {t} : send'[u] = send[u]
    BY <2>1 DEF TypeOK
  <2>4. f # q => queue'[f] = queue[f]
    BY <2>1 DEF TypeOK
  <2> QED  BY <2>2, <2>3, <2>4 DEF Alerting
<1>2. CASE Full(q)
  BY <1>2 DEF Deliver, Alerting
<1> QED  BY <1>1, <1>2

\* An executor that polled an empty queue in notify mode is told of what is
\* pushed afterwards.
LEMMA NotifiedStep ==
  ASSUME TypeOK, Held, Modes, [Next]_vars, NEW f \in Cores, Notified(f)
  PROVE  Notified(f)'
<1> USE DEF Notified, Committed, Goto, Between, queueVars, stealVars, coVars
<1>1. ASSUME NEW e \in Cores, SetHandlers(e) PROVE Notified(f)'
  BY <1>1 DEF SetHandlers, TypeOK, Modes, Alerting
<1>2. ASSUME NEW e \in Cores, Poll(e) PROVE Notified(f)'
  BY <1>2 DEF Poll, TypeOK, Modes, Alerting, Take
<1>3. ASSUME NEW e \in Cores, SetMode(e) PROVE Notified(f)'
  BY <1>3 DEF SetMode, TypeOK, Modes, Alerting
<1>4. ASSUME NEW e \in Cores, Repoll(e) PROVE Notified(f)'
  BY <1>4 DEF Repoll, TypeOK, Modes, Alerting, Take
<1>5. ASSUME NEW e \in Cores, ClearMode(e) PROVE Notified(f)'
  BY <1>5 DEF ClearMode, TypeOK, Modes, Alerting
<1>6. ASSUME NEW e \in Cores, LookAtNeighbour(e) PROVE Notified(f)'
  BY <1>6 DEF LookAtNeighbour, TypeOK, Modes, Alerting
<1>7. ASSUME NEW e \in Cores, StealTake(e) PROVE Notified(f)'
  BY <1>7, NeighbourType DEF StealTake, TypeOK, Modes, Alerting, LeaveLoop
<1>8. ASSUME NEW e \in Cores, StealPut(e) PROVE Notified(f)'
  BY <1>8 DEF StealPut, TypeOK, Modes, Alerting, LeaveLoop
<1>9. ASSUME NEW e \in Cores, StealOne(e) PROVE Notified(f)'
  BY <1>9, NeighbourType DEF StealOne, TypeOK, Modes, Alerting, Take
<1>10. ASSUME NEW e \in Cores, EndSteal(e) PROVE Notified(f)'
  BY <1>10 DEF EndSteal, TypeOK, Modes, Alerting
<1>11. ASSUME NEW e \in Cores, CvWait(e) PROVE Notified(f)'
  BY <1>11 DEF CvWait, TypeOK, Modes, Alerting
<1>12. ASSUME NEW e \in Cores, CvWake(e) PROVE Notified(f)'
  BY <1>12 DEF CvWake, TypeOK, Modes, Alerting, Unblock
<1>13. ASSUME NEW e \in Cores, CvTimeout(e) PROVE Notified(f)'
  BY <1>13 DEF CvTimeout, TypeOK, Modes, Alerting, Unblock
<1>14. ASSUME NEW e \in Cores, CoYield(e) PROVE Notified(f)'
  BY <1>14 DEF CoYield, TypeOK, Modes, Alerting
<1>15. ASSUME NEW e \in Cores, Requeue(e) PROVE Notified(f)'
  <2>1. /\ e \in Threads /\ cur[e] \in Coroutines /\ send[e].at = "idle"
        /\ Deliver(e, cur[e], e) /\ UNCHANGED <<notified, stole>>
        /\ pc' = [pc EXCEPT ![e] = IF nested[e] THEN "endsteal" ELSE "poll"]
    BY <1>15, CoresAreThreads, HeldCo DEF Requeue, Resched, Held, Running
  <2>2. Committed(f)' => Committed(f)
    BY <2>1 DEF TypeOK
  <2> QED  BY <2>1, <2>2, DeliverAlerts
<1>16. ASSUME NEW e \in Cores, CoSuspend(e) PROVE Notified(f)'
  BY <1>16 DEF CoSuspend, TypeOK, Modes, Alerting
<1>17. ASSUME NEW e \in Cores, Register(e) PROVE Notified(f)'
  BY <1>17 DEF Register, TypeOK, Modes, Alerting, Resched
<1>18. ASSUME NEW e \in Cores, CoFinish(e) PROVE Notified(f)'
  BY <1>18 DEF CoFinish, TypeOK, Modes, Alerting, Resched
<1>19. ASSUME NEW t \in Threads, CheckMode(t) PROVE Notified(f)'
  BY <1>19 DEF CheckMode, TypeOK, Modes, Alerting, Polling
<1>20. ASSUME NEW t \in Threads, Notify(t) PROVE Notified(f)'
  BY <1>20 DEF Notify, TypeOK, Modes, Alerting, Polling
<1>21. ASSUME NEW t \in Threads, NEW c \in Coroutines, Create(t, c) PROVE Notified(f)'
  <2>1. /\ send[t].at = "idle" /\ UNCHANGED <<queue, notified, pc, stole>>
        /\ \A u \in Threads \ {t} : send'[u] = send[u]
    BY <1>21 DEF Create, RunsUserCode, TypeOK
  <2> QED  BY <2>1 DEF Alerting
<1>22. ASSUME NEW t \in Threads, NEW q \in Cores, CreateTry(t, q) PROVE Notified(f)'
  <2>1. /\ send[t].at = "try" /\ hand[t] \in Coroutines
        /\ UNCHANGED <<notified, pc, stole>>
    BY <1>22, HeldCo DEF CreateTry
  <2>2. CASE ~Full(q)
    BY <1>22, <2>1, <2>2, DeliverAlerts DEF CreateTry
  <2>3. CASE Full(q)
    <3>1. queue' = queue /\ \A u \in Threads \ {t} : send'[u] = send[u]
      BY <1>22, <2>3 DEF CreateTry, TypeOK
    <3> QED  BY <2>1, <3>1 DEF Alerting
  <2> QED  BY <2>2, <2>3
<1>23. ASSUME NEW t \in Threads, NEW c \in Coroutines, Resume(t, c) PROVE Notified(f)'
  <2>1. /\ send[t].at = "idle" /\ waiting[c] \in Cores /\ Deliver(t, c, waiting[c])
        /\ UNCHANGED <<notified, pc, stole>>
    BY <1>23 DEF Resume, RunsUserCode, TypeOK
  <2> QED  BY <2>1, DeliverAlerts
<1>24. ASSUME UNCHANGED vars PROVE Notified(f)'
  BY <1>24 DEF vars, Alerting
<1> QED
  BY <1>1, <1>2, <1>3, <1>4, <1>5, <1>6, <1>7, <1>8, <1>9, <1>10, <1>11, <1>12, <1>13, <1>14, <1>15, <1>16, <1>17, <1>18, <1>19, <1>20, <1>21, <1>22, <1>23, <1>24
  DEF Next, Dequeue, Steal, Sleep, Execute, Leave, Enqueue, UserCalls

-----------------------------------------------------------------------------
LEMMA InitInv == Init => Inv
  BY ZeroCore, CoresAssumption, MainAssumption, NoneAssumption, SizesAssumption, CoresAreThreads
  DEF Init, Inv, TypeOK, Held, Modes, Notified, Committed, Running, Polling, Locations, Sends, Idle

LEMMA StepInv == Inv /\ [Next]_vars => Inv'
  BY TypeHeldStep, ModesStep, NotifiedStep DEF Inv

LEMMA InvHolds == Spec => []Inv
<1>1. Init => Inv
  BY InitInv
<1>2. Inv /\ [Next]_vars => Inv'
  BY StepInv
<1> QED  BY <1>1, <1>2, PTL DEF Spec

\* Every variable of the scheduler keeps its type, for any number of cores.
THEOREM TypeCorrect == Spec => []TypeOK
<1>1. Inv => TypeOK
  BY DEF Inv
<1> QED  BY <1>1, InvHolds, PTL

\* The notify-to-poll protocol of np_queue_t::dequeue loses no wake-up: an
\* executor asleep beside a task has been notified or is about to be, for any
\* number of executors, thieves and enqueuing threads.
THEOREM WakeUpsKept == Spec => []NoLostWakeup
<1>1. Inv => NoLostWakeup
  <2> SUFFICES ASSUME Inv, NEW e \in Cores, pc[e] = "blocked", queue[e] # <<>>
               PROVE  \/ notified[e]
                      \/ notifyMode[e] /\ armed[e] /\ \E t \in Threads : Alerting(t, e)
    BY DEF NoLostWakeup
  <2>1. notifyMode[e] /\ armed[e]
    BY DEF Inv, Modes, Polling
  <2>2. notified[e] \/ \E t \in Threads : Alerting(t, e)
    BY DEF Inv, Notified, Committed
  <2> QED  BY <2>1, <2>2
<1> QED  BY <1>1, InvHolds, PTL

-----------------------------------------------------------------------------
(* Where the coroutines are.                                               *)

\* The kinds of place that can hold a coroutine; "unborn" is that of the
\* coroutines that do not exist yet.
Kinds == {"unborn", "queue", "hand", "cur", "waiting", "finished", "dropped"}

Queued(c) == \E q \in Cores : \E i \in DOMAIN queue[q] : queue[q][i] = c
Handed(c) == \E t \in Threads : hand[t] = c
Runs(c)   == \E e \in Cores : cur[e] = c

\* Coroutine c is in a place of kind k.
In(c, k) ==
    \/ k = "unborn" /\ c \notin created
    \/ k = "queue" /\ Queued(c)
    \/ k = "hand" /\ Handed(c)
    \/ k = "cur" /\ Runs(c)
    \/ k = "waiting" /\ waiting[c] # None
    \/ k = "finished" /\ c \in finished
    \/ k = "dropped" /\ c \in dropped

\* Every coroutine is in places of one kind.
OneKind == \A c \in Coroutines : \E k \in Kinds : \A j \in Kinds : In(c, j) <=> j = k

\* No kind of place holds a coroutine twice.
OnceQueued ==
    \A q, r \in Cores : \A i \in DOMAIN queue[q], j \in DOMAIN queue[r] :
        queue[q][i] = queue[r][j] => q = r /\ i = j
OnceHanded == \A t, u \in Threads : hand[t] = hand[u] => t = u \/ hand[t] = None
OnceRun    == \A e, f \in Cores : cur[e] = cur[f] => e = f \/ cur[e] = None

\* What an executor runs, and what a thread holds, by where it is.
Empty ==
    /\ \A e \in Cores : pc[e] \notin Running => cur[e] = None
    /\ \A t \in Threads : hand[t] # None =>
        send[t].at = "try" \/ (t \in Cores /\ pc[t] = "put")

PlaceInv == OneKind /\ OnceQueued /\ OnceHanded /\ OnceRun /\ Empty

\* A push adds the coroutine to those that are queued.
LEMMA PushMoves ==
  ASSUME TypeOK, OnceQueued, NEW q \in Cores, NEW c \in Coroutines, ~Queued(c),
         queue' = [queue EXCEPT ![q] = Append(@, c)]
  PROVE  OnceQueued' /\ \A d \in Coroutines : Queued(d)' <=> Queued(d) \/ d = c
<1>1. /\ DOMAIN queue'[q] = 1 .. Len(queue[q]) + 1 /\ DOMAIN queue[q] = 1 .. Len(queue[q])
      /\ \A i \in DOMAIN queue[q] : queue'[q][i] = queue[q][i]
      /\ queue'[q][Len(queue[q]) + 1] = c /\ Len(queue[q]) \in Nat
  BY DEF TypeOK
<1>2. \A r \in Cores \ {q} : queue'[r] = queue[r]
  BY DEF TypeOK
<1>3. ASSUME NEW r \in Cores, NEW i \in DOMAIN queue'[r]
      PROVE  \/ i \in DOMAIN queue[r] /\ queue'[r][i] = queue[r][i]
             \/ r = q /\ i = Len(queue[q]) + 1 /\ queue'[r][i] = c
  BY <1>1, <1>2
<1>4. OnceQueued'
  BY <1>3 DEF OnceQueued, Queued
<1>5. ASSUME NEW d \in Coroutines PROVE Queued(d)' <=> Queued(d) \/ d = c
  <2>1. Queued(d)' => Queued(d) \/ d = c
    BY <1>3 DEF Queued
  <2>2. Queued(d) => Queued(d)'
    BY <1>1, <1>2 DEF Queued
  <2>3. Queued(c)'
    BY <1>1 DEF Queued
  <2> QED  BY <2>1, <2>2, <2>3
<1> QED  BY <1>4, <1>5

\* A pop takes the coroutine it returns, and no other, out of the queues.
LEMMA PopMoves ==
  ASSUME TypeOK, OnceQueued, NEW q \in Cores, queue[q] # <<>>,
         queue' = [queue EXCEPT ![q] = Tail(@)], NEW c, c = Head(queue[q])
  PROVE  /\ c \in Coroutines /\ Queued(c) /\ OnceQueued'
         /\ \A d \in Coroutines : Queued(d)' <=> Queued(d) /\ d # c
<1>1. /\ DOMAIN queue[q] = 1 .. Len(queue[q]) /\ Len(queue[q]) \in Nat \ {0}
      /\ DOMAIN queue'[q] = 1 .. Len(queue[q]) - 1
      /\ \A i \in DOMAIN queue'[q] : queue'[q][i] = queue[q][i + 1]
      /\ c = queue[q][1] /\ c \in Coroutines
  BY DEF TypeOK
<1>2. \A r \in Cores \ {q} : queue'[r] = queue[r]
  BY DEF TypeOK
<1>3. Queued(c)
  BY <1>1 DEF Queued
<1> DEFINE at(r, i) == IF r = q THEN i + 1 ELSE i
<1>4. ASSUME NEW r \in Cores, NEW i \in DOMAIN queue'[r]
      PROVE  /\ at(r, i) \in DOMAIN queue[r] /\ queue'[r][i] = queue[r][at(r, i)]
             /\ <<r, at(r, i)>> # <<q, 1>>
  BY <1>1, <1>2
<1>5. ASSUME NEW r \in Cores, NEW i \in DOMAIN queue[r], <<r, i>> # <<q, 1>>
      PROVE  \E j \in DOMAIN queue'[r] : queue'[r][j] = queue[r][i]
  <2>1. CASE r = q
    <3>1. i - 1 \in DOMAIN queue'[q] /\ queue'[q][i - 1] = queue[q][i]
      BY <1>1, <1>5, <2>1
    <3> QED  BY <2>1, <3>1
  <2> QED  BY <1>2, <2>1
<1>6. OnceQueued'
  <2> SUFFICES ASSUME NEW r \in Cores, NEW s \in Cores,
                      NEW i \in DOMAIN queue'[r], NEW j \in DOMAIN queue'[s],
                      queue'[r][i] = queue'[s][j]
               PROVE  r = s /\ i = j
    BY DEF OnceQueued
  <2>1. r = s /\ at(r, i) = at(s, j)
    <3>1. queue[r][at(r, i)] = queue[s][at(s, j)]
      BY <1>4
    <3> QED  BY <1>4, <3>1 DEF OnceQueued
  <2> QED  BY <1>1, <1>2, <2>1
<1>7. ASSUME NEW d \in Coroutines PROVE Queued(d)' <=> Queued(d) /\ d # c
  <2>1. Queued(d)' => Queued(d)
    BY <1>4 DEF Queued
  <2>2. ~Queued(c)'
    <3> SUFFICES ASSUME NEW r \in Cores, NEW i \in DOMAIN queue'[r], queue'[r][i] = c PROVE FALSE
      BY DEF Queued
    <3>1. at(r, i) \in DOMAIN queue[r] /\ queue[r][at(r, i)] = queue[q][1] /\ 1 \in DOMAIN queue[q]
      BY <1>1, <1>4
    <3>2. r = q /\ at(r, i) = 1
      BY <3>1 DEF OnceQueued
    <3> QED  BY <1>4, <3>2
  <2>3. Queued(d) /\ d # c => Queued(d)'
    BY <1>1, <1>5 DEF Queued
  <2> QED  BY <2>1, <2>2, <2>3
<1> QED  BY <1>1, <1>3, <1>6, <1>7

\* A thread takes a coroutine in hand, or lets go of the one it has.
LEMMA HandTakes ==
  ASSUME TypeOK, OnceHanded, NEW t \in Threads, NEW c \in Coroutines, hand[t] = None, ~Handed(c),
         hand' = [hand EXCEPT ![t] = c]
  PROVE  OnceHanded' /\ \A d \in Coroutines : Handed(d)' <=> Handed(d) \/ d = c
<1>1. hand'[t] = c /\ \A u \in Threads \ {t} : hand'[u] = hand[u]
  BY DEF TypeOK
<1> QED  BY <1>1, NoneAssumption DEF OnceHanded, Handed

LEMMA HandGives ==
  ASSUME TypeOK, OnceHanded, NEW t \in Threads, NEW c \in Coroutines, hand[t] = c,
         hand' = [hand EXCEPT ![t] = None]
  PROVE  /\ Handed(c) /\ OnceHanded'
         /\ \A d \in Coroutines : Handed(d)' <=> Handed(d) /\ d # c
<1>1. hand'[t] = None /\ \A u \in Threads \ {t} : hand'[u] = hand[u]
  BY DEF TypeOK
<1> QED  BY <1>1, NoneAssumption DEF OnceHanded, Handed

\* An executor starts to run a coroutine, or gives back the one it runs.
LEMMA RunStarts ==
  ASSUME TypeOK, OnceRun, NEW e \in Cores, NEW c \in Coroutines, cur[e] = None, ~Runs(c),
         cur' = [cur EXCEPT ![e] = c]
  PROVE  OnceRun' /\ \A d \in Coroutines : Runs(d)' <=> Runs(d) \/ d = c
<1>1. cur'[e] = c /\ \A f \in Cores \ {e} : cur'[f] = cur[f]
  BY DEF TypeOK
<1> QED  BY <1>1, NoneAssumption DEF OnceRun, Runs

LEMMA RunEnds ==
  ASSUME TypeOK, OnceRun, NEW e \in Cores, NEW c \in Coroutines, cur[e] = c,
         cur' = [cur EXCEPT ![e] = None]
  PROVE  /\ Runs(c) /\ OnceRun'
         /\ \A d \in Coroutines : Runs(d)' <=> Runs(d) /\ d # c
<1>1. cur'[e] = None /\ \A f \in Cores \ {e} : cur'[f] = cur[f]
  BY DEF TypeOK
<1> QED  BY <1>1, NoneAssumption DEF OnceRun, Runs

\* A step that takes coroutine c from one kind of place to another and leaves
\* the other coroutines where they are.
Moved(c, from, to) ==
    /\ In(c, from) /\ In(c, to)' /\ ~In(c, from)'
    /\ \A j \in Kinds \ {from, to} : In(c, j)' <=> In(c, j)
    /\ \A d \in Coroutines \ {c} : \A j \in Kinds : In(d, j)' <=> In(d, j)

Stays == \A d \in Coroutines : \A j \in Kinds : In(d, j)' <=> In(d, j)

LEMMA MovedKind ==
  ASSUME OneKind, NEW c \in Coroutines, NEW from \in Kinds, NEW to \in Kinds, from # to,
         Moved(c, from, to)
  PROVE  OneKind'
<1>1. \A j \in Kinds : In(c, j)' <=> j = to
  BY DEF OneKind, Moved
<1>2. ASSUME NEW d \in Coroutines \ {c} PROVE \E k \in Kinds : \A j \in Kinds : In(d, j)' <=> j = k
  BY DEF OneKind, Moved
<1> QED  BY <1>1, <1>2 DEF OneKind

LEMMA StaysKind == ASSUME OneKind, Stays PROVE OneKind'
  BY DEF OneKind, Stays

\* A coroutine in a place of one kind is in none of the others.
LEMMA NotElsewhere ==
  ASSUME OneKind, NEW c \in Coroutines, NEW k \in Kinds, In(c, k)
  PROVE  \A j \in Kinds : j # k => ~In(c, j)
  BY DEF OneKind

\* What In says, one kind at a time.
LEMMA InKinds ==
  ASSUME NEW c
  PROVE  /\ In(c, "unborn") <=> c \notin created
         /\ In(c, "queue") <=> Queued(c)
         /\ In(c, "hand") <=> Handed(c)
         /\ In(c, "cur") <=> Runs(c)
         /\ In(c, "waiting") <=> waiting[c] # None
         /\ In(c, "finished") <=> c \in finished
         /\ In(c, "dropped") <=> c \in dropped
  BY DEF In

Once == OnceQueued /\ OnceHanded /\ OnceRun

\* The moves of coroutine c that leave the executors with what they run.
Shifts ==
    {<<"unborn", "hand">>, <<"queue", "hand">>, <<"hand", "queue">>, <<"hand", "dropped">>,
     <<"waiting", "queue">>, <<"waiting", "dropped">>}

\* What a step does to the coroutines: nothing, or it moves one of them.
Move ==
    \/ Stays /\ UNCHANGED cur
    \/ \E c \in Coroutines, s \in Shifts : Moved(c, s[1], s[2]) /\ UNCHANGED cur
    \/ \E c \in Coroutines, e \in Cores :
        cur[e] = None /\ cur' = [cur EXCEPT ![e] = c] /\ Moved(c, "queue", "cur")
    \/ \E c \in Coroutines, e \in Cores, to \in {"queue", "waiting", "finished", "dropped"} :
        cur[e] = c /\ cur' = [cur EXCEPT ![e] = None] /\ Moved(c, "cur", to)

\* A step that moves a coroutine and leaves the executors as they are.
LEMMA Shift ==
  ASSUME NEW c \in Coroutines, NEW from, NEW to, <<from, to>> \in Shifts,
         Moved(c, from, to), UNCHANGED cur
  PROVE  Move
<1>1. <<from, to>>[1] = from /\ <<from, to>>[2] = to
  OBVIOUS
<1> QED  BY <1>1 DEF Move

\* A step leaves the coroutines in place if it leaves the parts of the state that place them.
LEMMA StaysIf ==
  ASSUME \A d \in Coroutines : Queued(d)' <=> Queued(d),
         \A d \in Coroutines : Handed(d)' <=> Handed(d),
         \A d \in Coroutines : Runs(d)' <=> Runs(d),
         UNCHANGED <<waiting, created, finished, dropped>>
  PROVE  Stays
  BY DEF Stays, In

\* An executor with nothing to run pops a coroutine and runs it.
LEMMA TakeMoves ==
  ASSUME TypeOK, OneKind, Once, NEW e \in Cores, NEW q \in Cores, Take(e, q), cur[e] = None,
         UNCHANGED <<hand, waiting, created, finished, dropped>>
  PROVE  Once' /\ Move
<1>1. PICK c : c = Head(queue[q])
  OBVIOUS
<1>2. queue[q] # <<>> /\ queue' = [queue EXCEPT ![q] = Tail(@)] /\ cur' = [cur EXCEPT ![e] = c]
  BY <1>1 DEF Take
<1>3. /\ c \in Coroutines /\ Queued(c) /\ OnceQueued'
      /\ \A d \in Coroutines : Queued(d)' <=> Queued(d) /\ d # c
  BY <1>1, <1>2, PopMoves DEF Once
<1>4. ~Runs(c)
  BY <1>3, NotElsewhere, InKinds DEF Kinds
<1>5. OnceRun' /\ \A d \in Coroutines : Runs(d)' <=> Runs(d) \/ d = c
  BY <1>2, <1>3, <1>4, RunStarts DEF Once
<1>6. OnceHanded' /\ \A d \in Coroutines : Handed(d)' <=> Handed(d)
  BY DEF Once, OnceHanded, Handed
<1>7. Moved(c, "queue", "cur")
  BY <1>3, <1>4, <1>5, <1>6 DEF Moved, In
<1> QED  BY <1>2, <1>3, <1>5, <1>6, <1>7 DEF Once, Move

\* Steps that leave the queues, the hands or the executors alone.
LEMMA SameQueue ==
  ASSUME UNCHANGED queue, OnceQueued
  PROVE  OnceQueued' /\ \A d \in Coroutines : Queued(d)' <=> Queued(d)
  BY DEF OnceQueued, Queued

LEMMA SameHand ==
  ASSUME UNCHANGED hand, OnceHanded
  PROVE  OnceHanded' /\ \A d \in Coroutines : Handed(d)' <=> Handed(d)
  BY DEF OnceHanded, Handed

LEMMA SameCur ==
  ASSUME UNCHANGED cur, OnceRun
  PROVE  OnceRun' /\ \A d \in Coroutines : Runs(d)' <=> Runs(d)
  BY DEF OnceRun, Runs

LEMMA NoMove ==
  ASSUME Once, UNCHANGED <<queue, hand, cur, waiting, created, finished, dropped>>
  PROVE  Once' /\ Move
  BY SameQueue, SameHand, SameCur, StaysIf DEF Once, Move

\* An attempt to push a coroutine that is in no queue.
LEMMA DeliverMoves ==
  ASSUME TypeOK, OnceQueued, NEW t \in Threads, NEW c \in Coroutines, NEW q \in Cores,
         ~Queued(c), c \notin dropped, Deliver(t, c, q)
  PROVE  /\ OnceQueued'
         /\ \/ /\ \A d \in Coroutines : Queued(d)' <=> Queued(d) \/ d = c
               /\ dropped' = dropped
            \/ /\ \A d \in Coroutines : Queued(d)' <=> Queued(d)
               /\ dropped' = dropped \cup {c}
<1>1. CASE ~Full(q)
  BY <1>1, PushMoves DEF Deliver
<1>2. CASE Full(q)
  BY <1>2, SameQueue DEF Deliver
<1> QED  BY <1>1, <1>2

LEMMA StealTakeMoves ==
  ASSUME Inv, PlaceInv, NEW e \in Cores, StealTake(e)
  PROVE  Once' /\ Move
<1> DEFINE v == Neighbour(e)
<1>0. /\ TypeOK /\ OneKind /\ OnceQueued /\ OnceHanded /\ OnceRun /\ e \in Threads /\ v \in Cores
      /\ hand[e] = None
      /\ UNCHANGED <<cur, waiting, created, finished, dropped>>
  BY NeighbourType, CoresAreThreads DEF Inv, PlaceInv, StealTake, Empty, Held, coVars
<1> HIDE DEF v
<1>1. CASE quota[e] > 0 /\ queue[v] # <<>>
  <2>1. PICK c : c = Head(queue[v])
    OBVIOUS
  <2>2. hand' = [hand EXCEPT ![e] = c] /\ queue' = [queue EXCEPT ![v] = Tail(@)]
    BY <1>1, <2>1 DEF StealTake, v
  <2>3. /\ c \in Coroutines /\ Queued(c) /\ OnceQueued'
        /\ \A d \in Coroutines : Queued(d)' <=> Queued(d) /\ d # c
    BY <1>0, <1>1, <2>1, <2>2, PopMoves
  <2>4. ~Handed(c)
    BY <1>0, <2>3, NotElsewhere, InKinds DEF Kinds
  <2>5. OnceHanded' /\ \A d \in Coroutines : Handed(d)' <=> Handed(d) \/ d = c
    BY <1>0, <2>2, <2>3, <2>4, HandTakes
  <2>6. OnceRun' /\ \A d \in Coroutines : Runs(d)' <=> Runs(d)
    BY <1>0, SameCur
  <2>7. Moved(c, "queue", "hand")
    BY <1>0, <2>3, <2>4, <2>5, <2>6 DEF Moved, In
  <2> QED  BY <1>0, <2>3, <2>5, <2>6, <2>7, Shift DEF Once, Shifts
<1>2. CASE ~(quota[e] > 0 /\ queue[v] # <<>>)
  <2>1. UNCHANGED <<queue, hand>>
    BY <1>2 DEF StealTake, v
  <2> QED  BY <1>0, <2>1, NoMove DEF Once
<1> QED  BY <1>1, <1>2

LEMMA StealPutMoves ==
  ASSUME Inv, PlaceInv, NEW e \in Cores, StealPut(e)
  PROVE  Once' /\ Move
<1>0. /\ TypeOK /\ Held /\ OneKind /\ OnceQueued /\ OnceHanded /\ OnceRun /\ e \in Threads
      /\ hand' = [hand EXCEPT ![e] = None] /\ hand[e] \in Coroutines
      /\ UNCHANGED <<cur, waiting, created, finished>>
  BY CoresAreThreads, HeldCo DEF Inv, PlaceInv, StealPut
<1>1. PICK c \in Coroutines : c = hand[e]
  BY <1>0
<1>2. /\ Handed(c) /\ OnceHanded'
      /\ \A d \in Coroutines : Handed(d)' <=> Handed(d) /\ d # c
  BY <1>0, <1>1, HandGives
<1>3. ~Queued(c) /\ c \notin dropped
  BY <1>0, <1>2, NotElsewhere, InKinds DEF Kinds
<1>4. OnceRun' /\ \A d \in Coroutines : Runs(d)' <=> Runs(d)
  BY <1>0, SameCur
<1>5. CASE ~Full(e)
  <2>1. OnceQueued' /\ \A d \in Coroutines : Queued(d)' <=> Queued(d) \/ d = c
    BY <1>0, <1>1, <1>3, <1>5, PushMoves DEF StealPut
  <2>2. Moved(c, "hand", "queue")
    BY <1>0, <1>2, <1>3, <1>4, <1>5, <2>1 DEF Moved, In, StealPut
  <2> QED  BY <1>0, <1>2, <1>4, <2>1, <2>2, Shift DEF Once, Shifts
<1>6. CASE Full(e)
  <2>1. dropped' = dropped \cup {c} /\ UNCHANGED queue
    BY <1>1, <1>6 DEF StealPut
  <2>2. OnceQueued' /\ \A d \in Coroutines : Queued(d)' <=> Queued(d)
    BY <1>0, <2>1, SameQueue
  <2>3. Moved(c, "hand", "dropped")
    BY <1>0, <1>2, <1>3, <1>4, <2>1, <2>2 DEF Moved, In
  <2> QED  BY <1>0, <1>2, <1>4, <2>2, <2>3, Shift DEF Once, Shifts
<1> QED  BY <1>5, <1>6

\* An executor that is given its coroutine back runs nothing.
LEMMA LeavesCur ==
  ASSUME Inv, PlaceInv, NEW e \in Cores, pc[e] \in Running, cur' = [cur EXCEPT ![e] = None],
         UNCHANGED hand
  PROVE  \E c \in Coroutines :
           /\ cur[e] = c /\ Runs(c) /\ OnceRun' /\ OnceHanded'
           /\ \A j \in Kinds : j # "cur" => ~In(c, j)
           /\ \A d \in Coroutines : Runs(d)' <=> Runs(d) /\ d # c
           /\ \A d \in Coroutines : Handed(d)' <=> Handed(d)
<1>1. PICK c \in Coroutines : c = cur[e]
  BY HeldCo DEF Inv
<1>2. Runs(c) /\ OnceRun' /\ \A d \in Coroutines : Runs(d)' <=> Runs(d) /\ d # c
  BY <1>1, RunEnds DEF Inv, PlaceInv
<1>3. \A j \in Kinds : j # "cur" => ~In(c, j)
  BY <1>2, NotElsewhere, InKinds DEF PlaceInv, Kinds
<1> QED  BY <1>1, <1>2, <1>3, SameHand DEF PlaceInv

LEMMA RequeueMoves ==
  ASSUME Inv, PlaceInv, NEW e \in Cores, Requeue(e)
  PROVE  Once' /\ Move
<1>0. /\ TypeOK /\ OnceQueued /\ e \in Threads /\ pc[e] \in Running
      /\ Deliver(e, cur[e], e) /\ cur' = [cur EXCEPT ![e] = None]
      /\ UNCHANGED <<hand, waiting, created, finished>>
  BY CoresAreThreads DEF Inv, PlaceInv, Requeue, Running
<1>1. PICK c \in Coroutines :
        /\ cur[e] = c /\ Runs(c) /\ OnceRun' /\ OnceHanded'
        /\ \A j \in Kinds : j # "cur" => ~In(c, j)
        /\ \A d \in Coroutines : Runs(d)' <=> Runs(d) /\ d # c
        /\ \A d \in Coroutines : Handed(d)' <=> Handed(d)
  BY <1>0, LeavesCur
<1>2. ~Queued(c) /\ c \notin dropped
  BY <1>1, InKinds DEF Kinds
<1>3. /\ OnceQueued'
      /\ \/ /\ \A d \in Coroutines : Queued(d)' <=> Queued(d) \/ d = c
            /\ dropped' = dropped
         \/ /\ \A d \in Coroutines : Queued(d)' <=> Queued(d)
            /\ dropped' = dropped \cup {c}
  BY <1>0, <1>1, <1>2, DeliverMoves
<1>4. CASE /\ \A d \in Coroutines : Queued(d)' <=> Queued(d) \/ d = c
           /\ dropped' = dropped
  <2>1. Moved(c, "cur", "queue")
    BY <1>0, <1>1, <1>2, <1>4 DEF Moved, In
  <2> QED  BY <1>0, <1>1, <1>3, <2>1 DEF Once, Move
<1>5. CASE /\ \A d \in Coroutines : Queued(d)' <=> Queued(d)
           /\ dropped' = dropped \cup {c}
  <2>1. Moved(c, "cur", "dropped")
    BY <1>0, <1>1, <1>2, <1>5 DEF Moved, In
  <2> QED  BY <1>0, <1>1, <1>3, <2>1 DEF Once, Move
<1> QED  BY <1>3, <1>4, <1>5

LEMMA RegisterMoves ==
  ASSUME Inv, PlaceInv, NEW e \in Cores, Register(e)
  PROVE  Once' /\ Move
<1>0. /\ TypeOK /\ OnceQueued /\ pc[e] \in Running
      /\ waiting' = [waiting EXCEPT ![cur[e]] = e] /\ cur' = [cur EXCEPT ![e] = None]
      /\ UNCHANGED <<queue, hand, created, finished, dropped>>
  BY DEF Inv, PlaceInv, Register, Running, queueVars
<1>1. PICK c \in Coroutines :
        /\ cur[e] = c /\ Runs(c) /\ OnceRun' /\ OnceHanded'
        /\ \A j \in Kinds : j # "cur" => ~In(c, j)
        /\ \A d \in Coroutines : Runs(d)' <=> Runs(d) /\ d # c
        /\ \A d \in Coroutines : Handed(d)' <=> Handed(d)
  BY <1>0, LeavesCur
<1>2. /\ waiting[c] = None /\ waiting'[c] # None
      /\ \A d \in Coroutines \ {c} : waiting'[d] = waiting[d]
  BY <1>0, <1>1, InKinds, NoneAssumption DEF Kinds, TypeOK
<1>3. OnceQueued' /\ \A d \in Coroutines : Queued(d)' <=> Queued(d)
  BY <1>0, SameQueue
<1>4. Moved(c, "cur", "waiting")
  BY <1>0, <1>1, <1>2, <1>3 DEF Moved, In
<1> QED  BY <1>0, <1>1, <1>3, <1>4 DEF Once, Move

LEMMA CoFinishMoves ==
  ASSUME Inv, PlaceInv, NEW e \in Cores, CoFinish(e)
  PROVE  Once' /\ Move
<1>0. /\ TypeOK /\ OnceQueued /\ pc[e] \in Running
      /\ finished' = finished \cup {cur[e]} /\ cur' = [cur EXCEPT ![e] = None]
      /\ UNCHANGED <<queue, hand, waiting, created, dropped>>
  BY DEF Inv, PlaceInv, CoFinish, Running, queueVars
<1>1. PICK c \in Coroutines :
        /\ cur[e] = c /\ Runs(c) /\ OnceRun' /\ OnceHanded'
        /\ \A j \in Kinds : j # "cur" => ~In(c, j)
        /\ \A d \in Coroutines : Runs(d)' <=> Runs(d) /\ d # c
        /\ \A d \in Coroutines : Handed(d)' <=> Handed(d)
  BY <1>0, LeavesCur
<1>3. OnceQueued' /\ \A d \in Coroutines : Queued(d)' <=> Queued(d)
  BY <1>0, SameQueue
<1>4. Moved(c, "cur", "finished")
  BY <1>0, <1>1, <1>3 DEF Moved, In
<1> QED  BY <1>0, <1>1, <1>3, <1>4 DEF Once, Move

LEMMA CreateMoves ==
  ASSUME Inv, PlaceInv, NEW t \in Threads, NEW c \in Coroutines, Create(t, c)
  PROVE  Once' /\ Move
<1>0. /\ TypeOK /\ OneKind /\ OnceQueued /\ OnceHanded /\ OnceRun
      /\ hand[t] = None /\ hand' = [hand EXCEPT ![t] = c]
      /\ c \notin created /\ created' = created \cup {c}
      /\ UNCHANGED <<queue, cur, waiting, finished, dropped>>
  BY DEF Inv, PlaceInv, Create, RunsUserCode, queueVars
<1>1. ~Handed(c)
  BY <1>0, NotElsewhere, InKinds DEF Kinds
<1>2. OnceHanded' /\ \A d \in Coroutines : Handed(d)' <=> Handed(d) \/ d = c
  BY <1>0, <1>1, HandTakes
<1>3. OnceQueued' /\ \A d \in Coroutines : Queued(d)' <=> Queued(d)
  BY <1>0, SameQueue
<1>4. OnceRun' /\ \A d \in Coroutines : Runs(d)' <=> Runs(d)
  BY <1>0, SameCur
<1>5. Moved(c, "unborn", "hand")
  BY <1>0, <1>1, <1>2, <1>3, <1>4 DEF Moved, In
<1> QED  BY <1>0, <1>2, <1>3, <1>4, <1>5, Shift DEF Once, Shifts

LEMMA CreateTryMoves ==
  ASSUME Inv, PlaceInv, NEW t \in Threads, NEW q \in Cores, CreateTry(t, q)
  PROVE  Once' /\ Move
<1>0. /\ TypeOK /\ OneKind /\ OnceQueued /\ OnceHanded /\ OnceRun
      /\ hand[t] \in Coroutines
      /\ UNCHANGED <<cur, waiting, created, finished>>
  BY HeldCo DEF Inv, PlaceInv, CreateTry
<1>1. CASE UNCHANGED <<queue, hand, dropped>>
  BY <1>0, <1>1, NoMove DEF Once
<1>2. CASE hand' = [hand EXCEPT ![t] = None]
  <2>1. PICK c \in Coroutines : c = hand[t]
    BY <1>0
  <2>2. /\ Handed(c) /\ OnceHanded'
        /\ \A d \in Coroutines : Handed(d)' <=> Handed(d) /\ d # c
    BY <1>0, <1>2, <2>1, HandGives
  <2>3. ~Queued(c) /\ c \notin dropped
    BY <1>0, <2>2, NotElsewhere, InKinds DEF Kinds
  <2>4. OnceRun' /\ \A d \in Coroutines : Runs(d)' <=> Runs(d)
    BY <1>0, SameCur
  <2>5. /\ OnceQueued'
        /\ \/ /\ \A d \in Coroutines : Queued(d)' <=> Queued(d) \/ d = c
              /\ dropped' = dropped
           \/ /\ \A d \in Coroutines : Queued(d)' <=> Queued(d)
              /\ dropped' = dropped \cup {c}
    <3>1. CASE ~Full(q)
      <4>1. Deliver(t, c, q)
        BY <2>1, <3>1 DEF CreateTry
      <4> QED  BY <1>0, <2>3, <4>1, DeliverMoves
    <3>2. CASE Full(q)
      <4>1. UNCHANGED queue /\ dropped' = dropped \cup {c}
        BY <1>0, <1>2, <2>1, <3>2, NoneAssumption DEF CreateTry, TypeOK
      <4> QED  BY <1>0, <4>1, SameQueue
    <3> QED  BY <3>1, <3>2
  <2>6. Moved(c, "hand", "queue") \/ Moved(c, "hand", "dropped")
    BY <1>0, <2>2, <2>3, <2>4, <2>5 DEF Moved, In
  <2> QED  BY <1>0, <2>2, <2>4, <2>5, <2>6, Shift DEF Once, Shifts
<1>3. UNCHANGED <<queue, hand, dropped>> \/ hand' = [hand EXCEPT ![t] = None]
  BY DEF CreateTry
<1> QED  BY <1>1, <1>2, <1>3

LEMMA ResumeMoves ==
  ASSUME Inv, PlaceInv, NEW t \in Threads, NEW c \in Coroutines, Resume(t, c)
  PROVE  Once' /\ Move
<1>0. /\ TypeOK /\ OneKind /\ OnceQueued /\ OnceHanded /\ OnceRun
      /\ waiting[c] \in Cores /\ waiting[c] # None /\ Deliver(t, c, waiting[c])
      /\ waiting' = [waiting EXCEPT ![c] = None]
      /\ UNCHANGED <<hand, cur, created, finished>>
  BY DEF Inv, PlaceInv, Resume, TypeOK
<1>1. ~Queued(c) /\ c \notin dropped
  BY <1>0, NotElsewhere, InKinds DEF Kinds
<1>2. /\ OnceQueued'
      /\ \/ /\ \A d \in Coroutines : Queued(d)' <=> Queued(d) \/ d = c
            /\ dropped' = dropped
         \/ /\ \A d \in Coroutines : Queued(d)' <=> Queued(d)
            /\ dropped' = dropped \cup {c}
  BY <1>0, <1>1, DeliverMoves
<1>3. waiting'[c] = None /\ \A d \in Coroutines \ {c} : waiting'[d] = waiting[d]
  BY <1>0 DEF TypeOK
<1>4. OnceHanded' /\ \A d \in Coroutines : Handed(d)' <=> Handed(d)
  BY <1>0, SameHand
<1>5. OnceRun' /\ \A d \in Coroutines : Runs(d)' <=> Runs(d)
  BY <1>0, SameCur
<1>6. Moved(c, "waiting", "queue") \/ Moved(c, "waiting", "dropped")
  BY <1>0, <1>1, <1>2, <1>3, <1>4, <1>5 DEF Moved, In
<1> QED  BY <1>0, <1>2, <1>4, <1>5, <1>6, Shift DEF Once, Shifts

\* Every step moves at most one coroutine, and puts it nowhere twice.
LEMMA NextMoves ==
  ASSUME Inv, PlaceInv, [Next]_vars
  PROVE  Once' /\ Move
<1> USE DEF queueVars, stealVars, coVars
<1>0. TypeOK /\ OneKind /\ Once
  BY DEF Inv, PlaceInv, Once
<1>1. ASSUME NEW e \in Cores, NEW q \in Cores, pc[e] \notin Running, Take(e, q),
             UNCHANGED <<hand, waiting, created, finished, dropped>>
      PROVE  Once' /\ Move
  BY <1>0, <1>1, TakeMoves DEF PlaceInv, Empty
<1>2. ASSUME NEW e \in Cores, Poll(e) \/ Repoll(e) PROVE Once' /\ Move
  <2>1. CASE queue[e] # <<>>
    BY <1>1, <1>2, <2>1 DEF Poll, Repoll, Running
  <2>2. CASE queue[e] = <<>>
    BY <1>0, <1>2, <2>2, NoMove DEF Poll, Repoll, Take
  <2> QED  BY <2>1, <2>2
<1>3. ASSUME NEW e \in Cores, StealOne(e) PROVE Once' /\ Move
  <2>1. CASE queue[Neighbour(e)] # <<>>
    BY <1>1, <1>3, <2>1, NeighbourType DEF StealOne, Running
  <2>2. CASE queue[Neighbour(e)] = <<>>
    BY <1>0, <1>3, <2>2, NoMove DEF StealOne, Take
  <2> QED  BY <2>1, <2>2
<1>4. ASSUME NEW e \in Cores,
             \/ SetHandlers(e) \/ SetMode(e) \/ ClearMode(e) \/ LookAtNeighbour(e) \/ EndSteal(e)
             \/ CvWait(e) \/ CvWake(e) \/ CvTimeout(e) \/ CoYield(e) \/ CoSuspend(e)
      PROVE  Once' /\ Move
  BY <1>0, <1>4, NoMove
  DEF SetHandlers, SetMode, ClearMode, LookAtNeighbour, EndSteal, CvWait, CvWake, CvTimeout,
      Unblock, CoYield, CoSuspend
<1>5. ASSUME NEW t \in Threads, CheckMode(t) \/ Notify(t) PROVE Once' /\ Move
  BY <1>0, <1>5, NoMove DEF CheckMode, Notify
<1>6. ASSUME UNCHANGED vars PROVE Once' /\ Move
  BY <1>0, <1>6, NoMove DEF vars
<1> QED
  BY <1>2, <1>3, <1>4, <1>5, <1>6, StealTakeMoves, StealPutMoves, RequeueMoves, RegisterMoves,
     CoFinishMoves, CreateMoves, CreateTryMoves, ResumeMoves
  DEF Next, Dequeue, Steal, Sleep, Execute, Leave, Enqueue, UserCalls

\* A thread keeps its hands and its executor free where its program says so.
LEMMA EmptyStep ==
  ASSUME TypeOK, Held, Empty, [Next]_vars
  PROVE  Empty'
<1> USE NoneAssumption
<1> USE DEF TypeOK, Empty, Running, Goto, queueVars, stealVars, coVars
<1>1. ASSUME NEW e \in Cores,
             SetHandlers(e) \/ SetMode(e) \/ ClearMode(e) \/ LookAtNeighbour(e) \/ EndSteal(e)
      PROVE  Empty'
  BY <1>1 DEF SetHandlers, SetMode, ClearMode, LookAtNeighbour, EndSteal
<1>2. ASSUME NEW e \in Cores, CvWait(e) \/ CvWake(e) \/ CvTimeout(e) \/ CoYield(e) \/ CoSuspend(e)
      PROVE  Empty'
  BY <1>2 DEF CvWait, CvWake, CvTimeout, Unblock, CoYield, CoSuspend
<1>3. ASSUME NEW e \in Cores, Poll(e) \/ Repoll(e) \/ StealOne(e) PROVE Empty'
  BY <1>3 DEF Poll, Repoll, StealOne, Take
<1>4. ASSUME NEW e \in Cores, StealTake(e) PROVE Empty'
  <2>1. /\ UNCHANGED <<cur, send>> /\ pc[e] = "take" /\ pc'[e] \notin Running
        /\ \A f \in Cores \ {e} : pc'[f] = pc[f]
        /\ \A t \in Threads \ {e} : hand'[t] = hand[t]
    BY <1>4 DEF StealTake, LeaveLoop
  <2>2. pc'[e] = "put" \/ hand'[e] = None
    BY <1>4, CoresAreThreads DEF StealTake, Held
  <2> QED  BY <2>1, <2>2
<1>5. ASSUME NEW e \in Cores, StealPut(e) PROVE Empty'
  BY <1>5, CoresAreThreads DEF StealPut, LeaveLoop
<1>6. ASSUME NEW e \in Cores, Requeue(e) PROVE Empty'
  <2>1. /\ send[e].at = "idle" /\ Deliver(e, cur[e], e) /\ cur' = [cur EXCEPT ![e] = None]
        /\ pc[e] = "requeue" /\ UNCHANGED hand
        /\ \A f \in Cores \ {e} : pc'[f] = pc[f]
    BY <1>6 DEF Requeue, Resched, Held
  <2>2. \A t \in Threads : t # e => send'[t] = send[t]
    BY <2>1, CoresAreThreads DEF Deliver
  <2>3. hand[e] = None
    BY <2>1, CoresAreThreads
  <2> QED  BY <2>1, <2>2, <2>3
<1>7. ASSUME NEW e \in Cores, Register(e) \/ CoFinish(e) PROVE Empty'
  BY <1>7 DEF Register, CoFinish, Resched
<1>8. ASSUME NEW t \in Threads, CheckMode(t) \/ Notify(t) PROVE Empty'
  BY <1>8 DEF CheckMode, Notify
<1>9. ASSUME NEW t \in Threads, NEW c \in Coroutines, Create(t, c) PROVE Empty'
  <2>1. send'[t].at = "try"
    BY <1>9 DEF Create
  <2> QED  BY <1>9, <2>1 DEF Create
<1>10. ASSUME NEW t \in Threads, NEW q \in Cores, CreateTry(t, q) PROVE Empty'
  <2>1. \A u \in Threads \ {t} : send'[u] = send[u] /\ hand'[u] = hand[u]
    BY <1>10 DEF CreateTry, Deliver
  <2>2. hand'[t] = None \/ send'[t].at = "try"
    BY <1>10 DEF CreateTry
  <2> QED  BY <1>10, <2>1, <2>2 DEF CreateTry
<1>11. ASSUME NEW t \in Threads, NEW c \in Coroutines, Resume(t, c) PROVE Empty'
  <2>1. \A u \in Threads \ {t} : send'[u] = send[u]
    BY <1>11 DEF Resume, Deliver
  <2> QED  BY <1>11, <2>1 DEF Resume, RunsUserCode
<1>12. ASSUME UNCHANGED vars PROVE Empty'
  BY <1>12 DEF vars
<1> QED
  BY <1>1, <1>2, <1>3, <1>4, <1>5, <1>6, <1>7, <1>8, <1>9, <1>10, <1>11, <1>12
  DEF Next, Dequeue, Steal, Sleep, Execute, Leave, Enqueue, UserCalls

LEMMA MoveKeeps == ASSUME OneKind, Move PROVE OneKind'
<1>1. ASSUME NEW c \in Coroutines, NEW s \in Shifts, Moved(c, s[1], s[2]) PROVE OneKind'
  <2>1. s[1] \in Kinds /\ s[2] \in Kinds /\ s[1] # s[2]
    BY DEF Shifts, Kinds
  <2>2. PICK from \in Kinds, to \in Kinds : from = s[1] /\ to = s[2]
    BY <2>1
  <2> QED  BY <1>1, <2>1, <2>2, MovedKind
<1>2. ASSUME NEW c \in Coroutines, NEW to \in {"queue", "waiting", "finished", "dropped"},
             Moved(c, "cur", to)
      PROVE  OneKind'
  <2>1. to \in Kinds /\ "cur" \in Kinds /\ to # "cur"
    BY DEF Kinds
  <2> QED  BY <1>2, <2>1, MovedKind
<1>3. ASSUME NEW c \in Coroutines, Moved(c, "queue", "cur") PROVE OneKind'
  BY <1>3, MovedKind DEF Kinds
<1> QED  BY <1>1, <1>2, <1>3, StaysKind DEF Move

LEMMA InitPlaces == Init => PlaceInv
<1> SUFFICES ASSUME Init PROVE PlaceInv
  OBVIOUS
<1> USE NoneAssumption, MainAssumption, ZeroCore
<1>1. \A q \in Cores : \A i \in DOMAIN queue[q] : q = 0 /\ i = 1 /\ queue[q][i] = Main
  BY DEF Init
<1>2. queue[0][1] = Main /\ 1 \in DOMAIN queue[0]
  BY DEF Init
<1>3. \A c \in Coroutines : /\ Queued(c) <=> c = Main
                            /\ ~Handed(c) /\ ~Runs(c) /\ waiting[c] = None
                            /\ c \notin finished /\ c \notin dropped
                            /\ c \in created <=> c = Main
  BY <1>1, <1>2 DEF Init, Queued, Handed, Runs
<1>4. OneKind
  <2>1. \A j \in Kinds : In(Main, j) <=> j = "queue"
    BY <1>3 DEF In, Kinds
  <2>2. ASSUME NEW c \in Coroutines, c # Main PROVE \A j \in Kinds : In(c, j) <=> j = "unborn"
    BY <1>3, <2>2 DEF In, Kinds
  <2> QED  BY <2>1, <2>2 DEF OneKind, Kinds
<1>5. OnceQueued
  BY <1>1 DEF OnceQueued
<1>6. OnceHanded /\ OnceRun /\ Empty
  BY CoresAreThreads DEF Init, OnceHanded, OnceRun, Empty
<1> QED  BY <1>4, <1>5, <1>6 DEF PlaceInv

LEMMA StepPlaces == Inv /\ PlaceInv /\ [Next]_vars => PlaceInv'
  BY NextMoves, MoveKeeps, EmptyStep DEF Inv, PlaceInv, Once

LEMMA PlacesHold == Spec => [](Inv /\ PlaceInv)
<1>1. Init => Inv /\ PlaceInv
  BY InitInv, InitPlaces
<1>2. Inv /\ PlaceInv /\ [Next]_vars => Inv' /\ PlaceInv'
  BY StepInv, StepPlaces
<1> QED  BY <1>1, <1>2, PTL DEF Spec

-----------------------------------------------------------------------------
\* The parts of Places, one kind of place at a time.
LEMMA PlacesParts ==
  ASSUME NEW c, NEW p
  PROVE  p \in Places(c) <=>
           \/ \E q \in Cores : \E i \in DOMAIN queue[q] : queue[q][i] = c /\ p = <<"queue", q, i>>
           \/ \E t \in Threads : hand[t] = c /\ p = <<"hand", t>>
           \/ \E e \in Cores : cur[e] = c /\ p = <<"cur", e>>
           \/ waiting[c] # None /\ p = <<"waiting">>
           \/ c \in finished /\ p = <<"finished">>
           \/ c \in dropped /\ p = <<"dropped">>
<1> DEFINE Slots == UNION {{q} \X DOMAIN queue[q] : q \in Cores}
           Found == {r \in Slots : queue[r[1]][r[2]] = c}
<1>1. \A r : r \in Found <=>
        \E q \in Cores : \E i \in DOMAIN queue[q] : r = <<q, i>> /\ queue[q][i] = c
  <2>1. \A r : r \in Slots <=> \E q \in Cores : \E i \in DOMAIN queue[q] : r = <<q, i>>
    OBVIOUS
  <2> QED  BY <2>1
<1>2. p \in {<<"queue", r[1], r[2]>> : r \in Found} <=>
        \E q \in Cores : \E i \in DOMAIN queue[q] : queue[q][i] = c /\ p = <<"queue", q, i>>
  <2>1. ASSUME NEW r \in Found, p = <<"queue", r[1], r[2]>>
        PROVE  \E q \in Cores : \E i \in DOMAIN queue[q] : queue[q][i] = c /\ p = <<"queue", q, i>>
    BY <1>1, <2>1
  <2>2. ASSUME NEW q \in Cores, NEW i \in DOMAIN queue[q], queue[q][i] = c, p = <<"queue", q, i>>
        PROVE  p \in {<<"queue", r[1], r[2]>> : r \in Found}
    <3>1. <<q, i>> \in Found
      BY <1>1, <2>2
    <3>2. <<q, i>>[1] = q /\ <<q, i>>[2] = i
      OBVIOUS
    <3> QED  BY <2>2, <3>1, <3>2
  <2> QED  BY <2>1, <2>2
<1> QED  BY <1>2 DEF Places

LEMMA PlaceOf ==
  ASSUME PlaceInv, NEW c \in Coroutines
  PROVE  IF c \in created THEN \E p : Places(c) = {p} ELSE Places(c) = {}
<1>1. PICK k \in Kinds : \A j \in Kinds : In(c, j) <=> j = k
  BY DEF PlaceInv, OneKind
<1>2. CASE k = "unborn"
  <2>1. /\ c \notin created /\ ~Queued(c) /\ ~Handed(c) /\ ~Runs(c)
        /\ waiting[c] = None /\ c \notin finished /\ c \notin dropped
    BY <1>1, <1>2, InKinds DEF Kinds
  <2>2. \A p : p \notin Places(c)
    BY <2>1, PlacesParts DEF Queued, Handed, Runs
  <2> QED  BY <2>1, <2>2
<1>3. CASE k # "unborn"
  <2>1. c \in created /\ In(c, k)
    BY <1>1, <1>3, InKinds DEF Kinds
  <2>2. \E p : p \in Places(c)
    <3>1. Queued(c) \/ Handed(c) \/ Runs(c) \/ waiting[c] # None \/ c \in finished \/ c \in dropped
      BY <1>3, <2>1 DEF In
    <3>2. ASSUME NEW q \in Cores, NEW i \in DOMAIN queue[q], queue[q][i] = c
          PROVE  <<"queue", q, i>> \in Places(c)
      BY <3>2, PlacesParts
    <3>3. ASSUME NEW t \in Threads, hand[t] = c PROVE <<"hand", t>> \in Places(c)
      BY <3>3, PlacesParts
    <3>4. ASSUME NEW e \in Cores, cur[e] = c PROVE <<"cur", e>> \in Places(c)
      BY <3>4, PlacesParts
    <3>5. /\ waiting[c] # None => <<"waiting">> \in Places(c)
          /\ c \in finished => <<"finished">> \in Places(c)
          /\ c \in dropped => <<"dropped">> \in Places(c)
      BY PlacesParts
    <3> QED  BY <3>1, <3>2, <3>3, <3>4, <3>5 DEF Queued, Handed, Runs
  <2>3. ASSUME NEW p \in Places(c), NEW r \in Places(c) PROVE p = r
    <3>1. /\ c \in Coroutines /\ c # None
          /\ OnceQueued /\ OnceHanded /\ OnceRun
      BY NoneAssumption DEF PlaceInv
    <3>2. CASE k = "queue"
      <4>1. ~Handed(c) /\ ~Runs(c) /\ waiting[c] = None /\ c \notin finished /\ c \notin dropped
        BY <1>1, <3>2, InKinds DEF Kinds
      <4>2. \E q \in Cores : \E i \in DOMAIN queue[q] : queue[q][i] = c /\ p = <<"queue", q, i>>
        BY <4>1, PlacesParts DEF Handed, Runs
      <4>3. \E q \in Cores : \E i \in DOMAIN queue[q] : queue[q][i] = c /\ r = <<"queue", q, i>>
        BY <4>1, PlacesParts DEF Handed, Runs
      <4> QED  BY <3>1, <4>2, <4>3 DEF OnceQueued
    <3>3. CASE k = "hand"
      <4>1. ~Queued(c) /\ ~Runs(c) /\ waiting[c] = None /\ c \notin finished /\ c \notin dropped
        BY <1>1, <3>3, InKinds DEF Kinds
      <4>2. /\ \E t \in Threads : hand[t] = c /\ p = <<"hand", t>>
            /\ \E t \in Threads : hand[t] = c /\ r = <<"hand", t>>
        BY <4>1, PlacesParts DEF Queued, Runs
      <4> QED  BY <3>1, <4>2 DEF OnceHanded
    <3>4. CASE k = "cur"
      <4>1. ~Queued(c) /\ ~Handed(c) /\ waiting[c] = None /\ c \notin finished /\ c \notin dropped
        BY <1>1, <3>4, InKinds DEF Kinds
      <4>2. /\ \E e \in Cores : cur[e] = c /\ p = <<"cur", e>>
            /\ \E e \in Cores : cur[e] = c /\ r = <<"cur", e>>
        BY <4>1, PlacesParts DEF Queued, Handed
      <4> QED  BY <3>1, <4>2 DEF OnceRun
    <3>5. CASE k \in {"waiting", "finished", "dropped"}
      <4>1. ~Queued(c) /\ ~Handed(c) /\ ~Runs(c)
        BY <1>1, <3>5, InKinds DEF Kinds
      <4>2. /\ waiting[c] # None <=> k = "waiting"
            /\ c \in finished <=> k = "finished"
            /\ c \in dropped <=> k = "dropped"
        BY <1>1, InKinds DEF Kinds
      <4> QED  BY <4>1, <4>2, PlacesParts DEF Queued, Handed, Runs
    <3> QED  BY <1>3, <3>2, <3>3, <3>4, <3>5 DEF Kinds
  <2> QED  BY <2>1, <2>2, <2>3
<1> QED  BY <1>2, <1>3

\* Every coroutine that was created is in exactly one place, for any number of
\* executors, threads and coroutines: stealing, yielding, suspension and
\* resumption never give it to two executors, line it up twice or forget it.
THEOREM InOnePlace == Spec => []OnePlace
<1>1. PlaceInv => OnePlace
  <2> SUFFICES ASSUME PlaceInv, NEW c \in Coroutines
               PROVE  Cardinality(Places(c)) = IF c \in created THEN 1 ELSE 0
    BY DEF OnePlace
  <2>1. CASE c \in created
    <3>1. PICK p : Places(c) = {p}
      BY <2>1, PlaceOf
    <3> QED  BY <2>1, <3>1, FS_Singleton
  <2>2. CASE c \notin created
    BY <2>2, PlaceOf, FS_EmptySet
  <2> QED  BY <2>1, <2>2
<1> QED  BY <1>1, PlacesHold, PTL

\* What the users of the runtime see of a coroutine in a place of kind k.
LifeIn(k) ==
    CASE k = "unborn" -> "unborn"
      [] k \in {"queue", "hand"} -> "ready"
      [] k = "cur" -> "running"
      [] k = "waiting" -> "waiting"
      [] k = "finished" -> "done"
      [] k = "dropped" -> "lost"

LEMMA LifeOfKind ==
  ASSUME NEW c, NEW k \in Kinds, \A j \in Kinds : In(c, j) <=> j = k
  PROVE  Life(c) = LifeIn(k)
<1>1. /\ c \notin created <=> k = "unborn"
      /\ Runs(c) <=> k = "cur"
      /\ waiting[c] # None <=> k = "waiting"
      /\ c \in finished <=> k = "finished"
      /\ c \in dropped <=> k = "dropped"
  BY InKinds DEF Kinds
<1> QED  BY <1>1 DEF Life, LifeIn, Kinds, Runs

LEMMA LifeOfKindNext ==
  ASSUME NEW c, NEW k \in Kinds, \A j \in Kinds : In(c, j)' <=> j = k
  PROVE  Life(c)' = LifeIn(k)
<1>1. (/\ c \notin created <=> k = "unborn"
       /\ Runs(c) <=> k = "cur"
       /\ waiting[c] # None <=> k = "waiting"
       /\ c \in finished <=> k = "finished"
       /\ c \in dropped <=> k = "dropped")'
  BY DEF Kinds, In
<1> QED  BY <1>1 DEF Life, LifeIn, Kinds, Runs

\* The lives of the coroutines, as the refinement mapping gives them.
Lives == [c \in Coroutines |-> Life(c)]

LEMMA StaysLife == ASSUME OneKind, Stays PROVE UNCHANGED Lives
<1> SUFFICES ASSUME NEW d \in Coroutines PROVE Life(d)' = Life(d)
  BY DEF Lives
<1>1. PICK k \in Kinds : \A j \in Kinds : In(d, j) <=> j = k
  BY DEF OneKind
<1>2. \A j \in Kinds : In(d, j)' <=> j = k
  BY <1>1 DEF Stays
<1> QED  BY <1>1, <1>2, LifeOfKind, LifeOfKindNext

LEMMA MovedLife ==
  ASSUME OneKind, NEW c \in Coroutines, NEW from \in Kinds, NEW to \in Kinds, from # to,
         Moved(c, from, to)
  PROVE  Lives[c] = LifeIn(from) /\ Lives' = [Lives EXCEPT ![c] = LifeIn(to)]
<1>1. \A j \in Kinds : In(c, j) <=> j = from
  BY DEF OneKind, Moved
<1>2. \A j \in Kinds : In(c, j)' <=> j = to
  BY <1>1 DEF Moved
<1>3. Life(c) = LifeIn(from) /\ Life(c)' = LifeIn(to)
  BY <1>1, <1>2, LifeOfKind, LifeOfKindNext
<1>4. ASSUME NEW d \in Coroutines \ {c} PROVE Life(d)' = Life(d)
  <2>1. PICK k \in Kinds : \A j \in Kinds : In(d, j) <=> j = k
    BY DEF OneKind
  <2>2. \A j \in Kinds : In(d, j)' <=> j = k
    BY <2>1 DEF Moved
  <2> QED  BY <2>1, <2>2, LifeOfKind, LifeOfKindNext
<1> QED  BY <1>3, <1>4 DEF Lives

\* A move between places is a step of the life of the coroutine it moves.
LEMMA ShiftLives ==
  ASSUME OneKind, NEW c \in Coroutines, NEW s \in Shifts, Moved(c, s[1], s[2]), UNCHANGED cur
  PROVE  [Lifecycle!Next]_(Lifecycle!vars)
<1>1. PICK from \in Kinds, to \in Kinds : from = s[1] /\ to = s[2] /\ from # to
  BY DEF Shifts, Kinds
<1>2. Lives[c] = LifeIn(from) /\ Lives' = [Lives EXCEPT ![c] = LifeIn(to)]
  BY <1>1, MovedLife
<1>3. \/ Lives[c] = "unborn" /\ Lives' = [Lives EXCEPT ![c] = "ready"]
      \/ Lives[c] = "ready" /\ Lives' = [Lives EXCEPT ![c] = "ready"]
      \/ Lives[c] = "ready" /\ Lives' = [Lives EXCEPT ![c] = "lost"]
      \/ Lives[c] = "waiting" /\ Lives' = [Lives EXCEPT ![c] = "ready"]
      \/ Lives[c] = "waiting" /\ Lives' = [Lives EXCEPT ![c] = "lost"]
  <2>1. \/ from = "unborn" /\ to = "hand"
        \/ from = "queue" /\ to = "hand"
        \/ from = "hand" /\ to \in {"queue", "dropped"}
        \/ from = "waiting" /\ to \in {"queue", "dropped"}
    BY <1>1 DEF Shifts
  <2>2. /\ LifeIn("unborn") = "unborn" /\ LifeIn("queue") = "ready" /\ LifeIn("hand") = "ready"
        /\ LifeIn("waiting") = "waiting" /\ LifeIn("dropped") = "lost"
    BY DEF LifeIn
  <2> QED  BY <1>2, <2>1, <2>2
<1>4. CASE Lives[c] = "ready" /\ Lives' = [Lives EXCEPT ![c] = "ready"]
  <2>1. UNCHANGED Lives
    BY <1>4 DEF Lives
  <2> QED  BY <2>1 DEF Lifecycle!vars, Lives
<1>5. CASE ~(Lives[c] = "ready" /\ Lives' = [Lives EXCEPT ![c] = "ready"])
  <2>1. Lifecycle!Create(c) \/ Lifecycle!Resume(c) \/ Lifecycle!Lose(c) \/ Lifecycle!LoseResumed(c)
    BY <1>3, <1>5
    DEF Lifecycle!Create, Lifecycle!Resume, Lifecycle!Lose, Lifecycle!LoseResumed,
        Lifecycle!Become, Lives
  <2> QED  BY <2>1 DEF Lifecycle!Next
<1> QED  BY <1>4, <1>5

LEMMA MoveLives ==
  ASSUME OneKind, Move
  PROVE  [Lifecycle!Next]_(Lifecycle!vars)
<1>1. CASE Stays /\ UNCHANGED cur
  BY <1>1, StaysLife DEF Lifecycle!vars, Lives
<1>2. ASSUME NEW c \in Coroutines, NEW e \in Cores,
             cur[e] = None, cur' = [cur EXCEPT ![e] = c], Moved(c, "queue", "cur")
      PROVE  Lifecycle!Next
  <2>1. Lives[c] = "ready" /\ Lives' = [Lives EXCEPT ![c] = "running"]
    BY <1>2, MovedLife DEF Kinds, LifeIn
  <2>2. Lifecycle!Dispatch(e, c)
    BY <1>2, <2>1 DEF Lifecycle!Dispatch, Lifecycle!Become, Lives
  <2> QED  BY <2>2 DEF Lifecycle!Next
<1>3. ASSUME NEW c \in Coroutines, NEW e \in Cores,
             NEW to \in {"queue", "waiting", "finished", "dropped"},
             cur[e] = c, cur' = [cur EXCEPT ![e] = None], Moved(c, "cur", to)
      PROVE  Lifecycle!Next
  <2>1. to \in Kinds /\ "cur" \in Kinds /\ to # "cur"
    BY DEF Kinds
  <2>2. Lives[c] = "running" /\ Lives' = [Lives EXCEPT ![c] = LifeIn(to)]
    BY <1>3, <2>1, MovedLife DEF LifeIn
  <2>3. LifeIn(to) \in {"ready", "waiting", "done", "lost"}
    BY DEF LifeIn
  <2>4. Lifecycle!Leave(e, LifeIn(to))
    BY <1>3, <2>2, NoneAssumption DEF Lifecycle!Leave, Lifecycle!Become, Lives
  <2> QED  BY <2>3, <2>4 DEF Lifecycle!Next
<1> QED  BY <1>1, <1>2, <1>3, ShiftLives DEF Move

\* The scheduler, with its queues, thieves and wake-ups, gives coroutines the
\* life that CoroutineLifecycle promises and no other: none is run by an
\* executor that runs another, run without having been lined up, or resumed
\* without having waited.
THEOREM SchedulerImplementsLifecycle == Spec => ImplementsLifecycle
<1>1. Init => Lifecycle!Init
  <2> SUFFICES ASSUME Init PROVE Lifecycle!Init
    OBVIOUS
  <2>1. ASSUME NEW c \in Coroutines PROVE Life(c) = IF c = Main THEN "ready" ELSE "unborn"
    BY NoneAssumption DEF Init, Life
  <2>2. cur = [e \in Cores |-> None]
    BY DEF Init
  <2> QED  BY <2>1, <2>2 DEF Lifecycle!Init
<1>2. Inv /\ PlaceInv /\ [Next]_vars => [Lifecycle!Next]_(Lifecycle!vars)
  BY NextMoves, MoveLives DEF PlaceInv
<1> QED  BY <1>1, <1>2, PlacesHold, PTL DEF Spec, ImplementsLifecycle, Lifecycle!Spec


=============================================================================
