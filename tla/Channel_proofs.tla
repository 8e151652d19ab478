---------------------------- MODULE Channel_proofs ----------------------------
(* Proofs about Channel: types, no lost wake-up, one resumption per wait.    *)
EXTENDS Channel, TLAPS

\* The reader has found the queue empty under notify mode, and waits or is
\* about to.
Waiting == {"lock", "yield", "suspended", "sleep", "asleep"}

\* Where wrap_func has still to look at m_notified.
Early == {"lock", "store", "test"}

\* Someone has called m_resume_f and has still to reset it.
Clearing == (\E w \in Writers : wpc[w] = "clear") \/ \E x \in Executors : wrap[x] = "clear"

\* What the reader's place says about the mode and its executor.
Reading ==
    /\ rpc \in Waiting \cup {"repoll", "woken"} => mode
    /\ kind = "thr_r_cor_w" => rpc \notin {"lock", "yield", "suspended", "woken", "timedout"}
    /\ kind # "thr_r_cor_w" /\ rpc # "suspended" => host # None
    /\ host # None => wrap[host] = "none"

\* Who is inside the mutex has it.
Locked ==
    /\ \A w \in Writers : wpc[w] \in {"call", "clear", "unlock"} => owner = w
    /\ \A x \in Executors : wrap[x] \in {"store", "test", "clear", "unlock"} => owner = x
    /\ rpc = "yield" /\ kind = "cor" => owner = "reader"

\* A message that came after the reader's poll has raised m_notified, or will:
\* no one but the reader resets it, before it polls again.
Told ==
    rpc \in Waiting /\ queue > 0 =>
        \/ notified
        \/ \E w \in Writers : wpc[w] = "raise" \/ (wpc[w] = "check" /\ mode)

\* When m_resume_f is reset under a waiting reader that is not in line, its own
\* wrap_func is yet to come.
Fresh ==
    rpc = "suspended" /\ Idle /\ ~dropped /\ Clearing => \E x \in Executors : wrap[x] = "lock"

\* A waiting reader that is not in line can be put there.
Reachable ==
    rpc = "suspended" /\ Idle /\ ~dropped => resumeF \/ \E x \in Executors : wrap[x] \in {"lock", "store"}

\* ... and is going to be when m_notified is up.
Called ==
    rpc = "suspended" /\ Idle /\ ~dropped /\ notified =>
        \/ \E x \in Executors : wrap[x] \in Early
        \/ resumeF /\ \E w \in Writers : wpc[w] \in {"lock", "call"}

\* Without timeouts m_resume_f and a wrap_func that has still to look belong to
\* the wait that is going on.
Once ==
    ~timed =>
        /\ timer = "new" /\ tasks["timeout"] = 0 /\ OneResumption
        /\ rpc # "timedout" /\ \A x \in Executors : wrap[x] # "add"
        /\ \A x \in Executors : wrap[x] \in Early => rpc = "suspended" /\ Idle
        /\ \A x, y \in Executors : wrap[x] \in Early /\ wrap[y] \in Early => x = y
        /\ resumeF /\ ~Clearing =>
               /\ rpc = "suspended" /\ Idle
               /\ \A x \in Executors : wrap[x] \notin {"lock", "store"}

\* The types, in two parts.
Flags ==
    /\ timed \in BOOLEAN /\ mode \in BOOLEAN /\ notified \in BOOLEAN /\ resumeF \in BOOLEAN
    /\ dropped \in BOOLEAN /\ unserved \in BOOLEAN

Places ==
    /\ kind \in Kinds
    /\ queue \in 0 .. Capacity
    /\ owner \in Writers \cup Executors \cup {"reader", "nobody", None}
    /\ wpc \in [Writers -> {"idle", "check", "raise", "lock", "call", "clear", "unlock"}]
    /\ rpc \in {"user", "poll", "setmode", "repoll", "clear", "lock", "yield", "suspended",
                "woken", "timedout", "sleep", "asleep"}
    /\ host \in Executors \cup {None}
    /\ wrap \in [Executors -> {"none", "lock", "store", "test", "clear", "unlock", "add"}]
    /\ timer \in {"new", "armed", "canceled", "fired"}
    /\ tasks \in [Causes -> Nat]

Inv ==
    /\ TypeOK /\ Reading /\ Locked /\ Told /\ Fresh /\ Reachable /\ Called /\ Once

-----------------------------------------------------------------------------
(* Every step keeps each part of the invariant.                            *)

\* Flags are flags.
LEMMA KeepsFlags == Inv /\ [Next]_vars => Flags'
<1> SUFFICES ASSUME Inv, [Next]_vars PROVE Flags'
  OBVIOUS
<1>a. Flags
  BY DEF Inv, TypeOK, Flags
<1> USE <1>a DEF Flags, setup, losses, Others
<1>1. ASSUME NEW w \in Writers, Write(w) PROVE Flags'
  BY <1>1 DEF Write
<1>2. ASSUME NEW w \in Writers, CheckMode(w) PROVE Flags'
  BY <1>2 DEF CheckMode
<1>3. ASSUME NEW w \in Writers, Raise(w) PROVE Flags'
  BY <1>3 DEF Raise
<1>4. ASSUME NEW w \in Writers, WLock(w) PROVE Flags'
  BY <1>4 DEF WLock
<1>5. ASSUME NEW w \in Writers, WCall(w) PROVE Flags'
  BY <1>5 DEF WCall, Add
<1>6. ASSUME NEW w \in Writers, WClear(w) PROVE Flags'
  BY <1>6 DEF WClear
<1>7. ASSUME NEW w \in Writers, WUnlock(w) PROVE Flags'
  BY <1>7 DEF WUnlock, Release
<1>8. CASE Read
  BY <1>8 DEF Read
<1>9. CASE Poll
  BY <1>9 DEF Poll
<1>10. CASE SetMode
  BY <1>10 DEF SetMode
<1>11. CASE Repoll
  BY <1>11 DEF Repoll
<1>12. CASE ClearMode
  BY <1>12 DEF ClearMode
<1>13. CASE RLock
  BY <1>13 DEF RLock
<1>14. CASE Yield
  BY <1>14 DEF Yield
<1>15. CASE YieldFails
  BY <1>15 DEF YieldFails
<1>16. CASE Woken
  BY <1>16 DEF Woken
<1>17. CASE TimedOut
  BY <1>17 DEF TimedOut
<1>18. CASE Sleep
  BY <1>18 DEF Sleep
<1>19. CASE Wake
  BY <1>19 DEF Wake
<1>20. CASE SleepTimeout
  BY <1>20 DEF SleepTimeout
<1>21. ASSUME NEW x \in Executors, XLock(x) PROVE Flags'
  BY <1>21 DEF XLock
<1>22. ASSUME NEW x \in Executors, XStore(x) PROVE Flags'
  BY <1>22 DEF XStore
<1>23. ASSUME NEW x \in Executors, XTest(x) PROVE Flags'
  BY <1>23 DEF XTest, Add
<1>24. ASSUME NEW x \in Executors, XClear(x) PROVE Flags'
  BY <1>24 DEF XClear
<1>25. ASSUME NEW x \in Executors, XUnlock(x) PROVE Flags'
  BY <1>25 DEF XUnlock, Release
<1>26. ASSUME NEW x \in Executors, XAdd(x) PROVE Flags'
  BY <1>26 DEF XAdd
<1>27. ASSUME NEW x \in Executors, NEW cause \in Causes, RunTask(x, cause) PROVE Flags'
  BY <1>27 DEF RunTask
<1>28. CASE TimerFires
  BY <1>28 DEF TimerFires, Add
<1>29. CASE UNCHANGED vars
  BY <1>29 DEF vars
<1>30. QED
  BY <1>1, <1>2, <1>3, <1>4, <1>5, <1>6, <1>7, <1>8, <1>9, <1>10, <1>11, <1>12,
     <1>13, <1>14, <1>15, <1>16, <1>17, <1>18, <1>19, <1>20, <1>21, <1>22,
     <1>23, <1>24, <1>25, <1>26, <1>27, <1>28, <1>29
     DEF Next, Handler, Dequeue, Executor

\* Messages and tasks are counted only down from what is there.
LEMMA KeepsPlaces == Inv /\ [Next]_vars => Places'
<1> SUFFICES ASSUME Inv, [Next]_vars PROVE Places'
  OBVIOUS
<1>a. Places
  BY DEF Inv, TypeOK, Places
<1> USE <1>a, SizeAssumption DEF Places, Causes, setup, losses, Others, WGoto, XGoto
<1>1. ASSUME NEW w \in Writers, Write(w) PROVE Places'
  BY <1>1 DEF Write
<1>2. ASSUME NEW w \in Writers, CheckMode(w) PROVE Places'
  BY <1>2 DEF CheckMode
<1>3. ASSUME NEW w \in Writers, Raise(w) PROVE Places'
  BY <1>3 DEF Raise
<1>4. ASSUME NEW w \in Writers, WLock(w) PROVE Places'
  BY <1>4 DEF WLock
<1>5. ASSUME NEW w \in Writers, WCall(w) PROVE Places'
  BY <1>5 DEF WCall, Add
<1>6. ASSUME NEW w \in Writers, WClear(w) PROVE Places'
  BY <1>6 DEF WClear
<1>7. ASSUME NEW w \in Writers, WUnlock(w) PROVE Places'
  BY <1>7 DEF WUnlock, Release
<1>8. CASE Read
  BY <1>8 DEF Read
<1>9. CASE Poll
  BY <1>9 DEF Poll
<1>10. CASE SetMode
  BY <1>10 DEF SetMode
<1>11. CASE Repoll
  BY <1>11 DEF Repoll, Kinds
<1>12. CASE ClearMode
  BY <1>12 DEF ClearMode
<1>13. CASE RLock
  BY <1>13 DEF RLock
<1>14. CASE Yield
  BY <1>14 DEF Yield
<1>15. CASE YieldFails
  BY <1>15 DEF YieldFails
<1>16. CASE Woken
  BY <1>16 DEF Woken
<1>17. CASE TimedOut
  BY <1>17 DEF TimedOut
<1>18. CASE Sleep
  BY <1>18 DEF Sleep
<1>19. CASE Wake
  BY <1>19 DEF Wake
<1>20. CASE SleepTimeout
  BY <1>20 DEF SleepTimeout
<1>21. ASSUME NEW x \in Executors, XLock(x) PROVE Places'
  BY <1>21 DEF XLock
<1>22. ASSUME NEW x \in Executors, XStore(x) PROVE Places'
  BY <1>22 DEF XStore
<1>23. ASSUME NEW x \in Executors, XTest(x) PROVE Places'
  BY <1>23 DEF XTest, Add
<1>24. ASSUME NEW x \in Executors, XClear(x) PROVE Places'
  BY <1>24 DEF XClear
<1>25. ASSUME NEW x \in Executors, XUnlock(x) PROVE Places'
  BY <1>25 DEF XUnlock, Release
<1>26. ASSUME NEW x \in Executors, XAdd(x) PROVE Places'
  BY <1>26 DEF XAdd
<1>27. ASSUME NEW x \in Executors, NEW cause \in Causes, RunTask(x, cause) PROVE Places'
  BY <1>27 DEF RunTask
<1>28. CASE TimerFires
  BY <1>28 DEF TimerFires, Add
<1>29. CASE UNCHANGED vars
  BY <1>29 DEF vars
<1>30. QED
  BY <1>1, <1>2, <1>3, <1>4, <1>5, <1>6, <1>7, <1>8, <1>9, <1>10, <1>11, <1>12,
     <1>13, <1>14, <1>15, <1>16, <1>17, <1>18, <1>19, <1>20, <1>21, <1>22,
     <1>23, <1>24, <1>25, <1>26, <1>27, <1>28, <1>29
     DEF Next, Handler, Dequeue, Executor

LEMMA KeepsTypeOK == Inv /\ [Next]_vars => TypeOK'
  BY KeepsFlags, KeepsPlaces DEF Flags, Places, TypeOK

\* Executors: a task is run by one that is not in wrap_func.
LEMMA KeepsReading == Inv /\ [Next]_vars => Reading'
<1> SUFFICES ASSUME Inv, [Next]_vars PROVE Reading'
  OBVIOUS
<1> USE ActorsAssumption DEF Inv, TypeOK, Reading, Waiting, setup, Others, XGoto
<1>1. ASSUME NEW w \in Writers, Write(w) \/ CheckMode(w) \/ Raise(w) \/ WLock(w) PROVE Reading'
  BY <1>1 DEF Write, CheckMode, Raise, WLock
<1>2. ASSUME NEW w \in Writers, WCall(w) PROVE Reading'
  BY <1>2 DEF WCall
<1>3. ASSUME NEW w \in Writers, WClear(w) \/ WUnlock(w) PROVE Reading'
  BY <1>3 DEF WClear, WUnlock
<1>4. CASE Read \/ Poll \/ SetMode \/ ClearMode \/ RLock
  BY <1>4 DEF Read, Poll, SetMode, ClearMode, RLock
<1>5. CASE Repoll
  BY <1>5 DEF Repoll
<1>6. CASE Yield
  BY <1>6 DEF Yield
<1>7. CASE YieldFails \/ Woken \/ TimedOut \/ Sleep \/ Wake \/ SleepTimeout
  BY <1>7 DEF YieldFails, Woken, TimedOut, Sleep, Wake, SleepTimeout
<1>8. ASSUME NEW x \in Executors, XLock(x) \/ XStore(x) \/ XUnlock(x) \/ XAdd(x) PROVE Reading'
  BY <1>8 DEF XLock, XStore, XUnlock, XAdd
<1>9. ASSUME NEW x \in Executors, XTest(x) \/ XClear(x) PROVE Reading'
  BY <1>9 DEF XTest, XClear
<1>10. ASSUME NEW x \in Executors, NEW cause \in Causes, RunTask(x, cause) PROVE Reading'
  BY <1>10 DEF RunTask
<1>11. CASE TimerFires
  BY <1>11 DEF TimerFires
<1>12. CASE UNCHANGED vars
  BY <1>12 DEF vars
<1>13. QED
  BY <1>1, <1>2, <1>3, <1>4, <1>5, <1>6, <1>7, <1>8, <1>9, <1>10, <1>11, <1>12
     DEF Next, Handler, Dequeue, Executor

\* The mutex excludes; in the handler for coroutines it passes from the
\* reader to wrap_func.
LEMMA KeepsLocked == Inv /\ [Next]_vars => Locked'
<1> SUFFICES ASSUME Inv, [Next]_vars PROVE Locked'
  OBVIOUS
<1> USE ActorsAssumption, ReaderAssumption
        DEF Inv, TypeOK, Locked, setup, Others, WGoto, XGoto, Release
<1>1. ASSUME NEW w \in Writers, Write(w) \/ CheckMode(w) \/ Raise(w) \/ WLock(w) PROVE Locked'
  BY <1>1 DEF Write, CheckMode, Raise, WLock
<1>2. ASSUME NEW w \in Writers, WCall(w) PROVE Locked'
  BY <1>2 DEF WCall
<1>3. ASSUME NEW w \in Writers, WClear(w) \/ WUnlock(w) PROVE Locked'
  BY <1>3 DEF WClear, WUnlock
<1>4. CASE Read \/ Poll \/ SetMode \/ ClearMode \/ RLock
  BY <1>4 DEF Read, Poll, SetMode, ClearMode, RLock
<1>5. CASE Repoll
  BY <1>5 DEF Repoll
<1>6. CASE Yield
  BY <1>6 DEF Yield
<1>7. CASE YieldFails \/ Woken \/ TimedOut \/ Sleep \/ Wake \/ SleepTimeout
  BY <1>7 DEF YieldFails, Woken, TimedOut, Sleep, Wake, SleepTimeout
<1>8. ASSUME NEW x \in Executors, XLock(x) \/ XStore(x) \/ XUnlock(x) \/ XAdd(x) PROVE Locked'
  BY <1>8 DEF XLock, XStore, XUnlock, XAdd
<1>9. ASSUME NEW x \in Executors, XTest(x) \/ XClear(x) PROVE Locked'
  BY <1>9 DEF XTest, XClear
<1>10. ASSUME NEW x \in Executors, NEW cause \in Causes, RunTask(x, cause) PROVE Locked'
  BY <1>10 DEF RunTask
<1>11. CASE TimerFires
  BY <1>11 DEF TimerFires
<1>12. CASE UNCHANGED vars
  BY <1>12 DEF vars
<1>13. QED
  BY <1>1, <1>2, <1>3, <1>4, <1>5, <1>6, <1>7, <1>8, <1>9, <1>10, <1>11, <1>12
     DEF Next, Handler, Dequeue, Executor

\* Every push after the poll raises m_notified, or finds it up.
LEMMA KeepsTold == Inv /\ [Next]_vars => Told'
<1> SUFFICES ASSUME Inv, [Next]_vars PROVE Told'
  OBVIOUS
<1> USE DEF Inv, TypeOK, Told, Waiting, Others, WGoto
<1>1. ASSUME NEW w \in Writers, Write(w) \/ CheckMode(w) \/ Raise(w) \/ WLock(w) PROVE Told'
  BY <1>1 DEF Write, CheckMode, Raise, WLock, Reading
<1>2. ASSUME NEW w \in Writers, WCall(w) PROVE Told'
  BY <1>2 DEF WCall
<1>3. ASSUME NEW w \in Writers, WClear(w) \/ WUnlock(w) PROVE Told'
  BY <1>3 DEF WClear, WUnlock
<1>4. CASE Read \/ Poll \/ SetMode \/ ClearMode \/ RLock
  BY <1>4 DEF Read, Poll, SetMode, ClearMode, RLock
<1>5. CASE Repoll
  BY <1>5 DEF Repoll
<1>6. CASE Yield
  BY <1>6 DEF Yield
<1>7. CASE YieldFails \/ Woken \/ TimedOut \/ Sleep \/ Wake \/ SleepTimeout
  BY <1>7 DEF YieldFails, Woken, TimedOut, Sleep, Wake, SleepTimeout
<1>8. ASSUME NEW x \in Executors, XLock(x) \/ XStore(x) \/ XUnlock(x) \/ XAdd(x) PROVE Told'
  BY <1>8 DEF XLock, XStore, XUnlock, XAdd
<1>9. ASSUME NEW x \in Executors, XTest(x) \/ XClear(x) PROVE Told'
  BY <1>9 DEF XTest, XClear
<1>10. ASSUME NEW x \in Executors, NEW cause \in Causes, RunTask(x, cause) PROVE Told'
  BY <1>10 DEF RunTask
<1>11. CASE TimerFires
  BY <1>11 DEF TimerFires
<1>12. CASE UNCHANGED vars
  BY <1>12 DEF vars
<1>13. QED
  BY <1>1, <1>2, <1>3, <1>4, <1>5, <1>6, <1>7, <1>8, <1>9, <1>10, <1>11, <1>12
     DEF Next, Handler, Dequeue, Executor

\* The reader that was called and waits again cannot get past the mutex.
LEMMA KeepsFresh == Inv /\ [Next]_vars => Fresh'
<1> SUFFICES ASSUME Inv, [Next]_vars PROVE Fresh'
  OBVIOUS
<1> USE ActorsAssumption, ReaderAssumption
        DEF Inv, TypeOK, Causes, Fresh, Clearing, Idle, losses, Others, WGoto, XGoto, Add, Release
<1>1. ASSUME NEW w \in Writers, Write(w) \/ CheckMode(w) \/ Raise(w) \/ WLock(w) PROVE Fresh'
  BY <1>1 DEF Write, CheckMode, Raise, WLock
<1>2. ASSUME NEW w \in Writers, WCall(w) PROVE Fresh'
  BY <1>2 DEF WCall
<1>3. ASSUME NEW w \in Writers, WClear(w) \/ WUnlock(w) PROVE Fresh'
  BY <1>3 DEF WClear, WUnlock
<1>4. CASE Read \/ Poll \/ SetMode \/ ClearMode \/ RLock
  BY <1>4 DEF Read, Poll, SetMode, ClearMode, RLock
<1>5. CASE Repoll
  BY <1>5 DEF Repoll, Kinds
<1>6. CASE Yield
  BY <1>6 DEF Yield, Reading, Locked
<1>7. CASE YieldFails \/ Woken \/ TimedOut \/ Sleep \/ Wake \/ SleepTimeout
  BY <1>7 DEF YieldFails, Woken, TimedOut, Sleep, Wake, SleepTimeout
<1>8. ASSUME NEW x \in Executors, XLock(x) \/ XStore(x) \/ XUnlock(x) \/ XAdd(x) PROVE Fresh'
  BY <1>8 DEF XLock, XStore, XUnlock, XAdd, Locked
<1>9. ASSUME NEW x \in Executors, XTest(x) \/ XClear(x) PROVE Fresh'
  BY <1>9 DEF XTest, XClear
<1>10. ASSUME NEW x \in Executors, NEW cause \in Causes, RunTask(x, cause) PROVE Fresh'
  BY <1>10 DEF RunTask
<1>11. CASE TimerFires
  BY <1>11 DEF TimerFires
<1>12. CASE UNCHANGED vars
  BY <1>12 DEF vars
<1>13. QED
  BY <1>1, <1>2, <1>3, <1>4, <1>5, <1>6, <1>7, <1>8, <1>9, <1>10, <1>11, <1>12
     DEF Next, Handler, Dequeue, Executor

\* m_resume_f is reset only by who has called it.
LEMMA KeepsReachable == Inv /\ [Next]_vars => Reachable'
<1> SUFFICES ASSUME Inv, [Next]_vars PROVE Reachable'
  OBVIOUS
<1> USE DEF Inv, TypeOK, Reachable, Idle, losses, Others, XGoto, Add
<1>1. ASSUME NEW w \in Writers, Write(w) \/ CheckMode(w) \/ Raise(w) \/ WLock(w) PROVE Reachable'
  BY <1>1 DEF Write, CheckMode, Raise, WLock
<1>2. ASSUME NEW w \in Writers, WCall(w) PROVE Reachable'
  BY <1>2 DEF WCall
<1>3. ASSUME NEW w \in Writers, WClear(w) \/ WUnlock(w) PROVE Reachable'
  BY <1>3 DEF WClear, WUnlock, Fresh, Clearing
<1>4. CASE Read \/ Poll \/ SetMode \/ ClearMode \/ RLock
  BY <1>4 DEF Read, Poll, SetMode, ClearMode, RLock
<1>5. CASE Repoll
  BY <1>5 DEF Repoll, Kinds
<1>6. CASE Yield
  BY <1>6 DEF Yield, Reading
<1>7. CASE YieldFails \/ Woken \/ TimedOut \/ Sleep \/ Wake \/ SleepTimeout
  BY <1>7 DEF YieldFails, Woken, TimedOut, Sleep, Wake, SleepTimeout
<1>8. ASSUME NEW x \in Executors, XLock(x) \/ XStore(x) \/ XUnlock(x) \/ XAdd(x) PROVE Reachable'
  BY <1>8 DEF XLock, XStore, XUnlock, XAdd
<1>9. ASSUME NEW x \in Executors, XTest(x) \/ XClear(x) PROVE Reachable'
  BY <1>9 DEF XTest, XClear, Fresh, Clearing
<1>10. ASSUME NEW x \in Executors, NEW cause \in Causes, RunTask(x, cause) PROVE Reachable'
  BY <1>10 DEF RunTask
<1>11. CASE TimerFires
  BY <1>11 DEF TimerFires
<1>12. CASE UNCHANGED vars
  BY <1>12 DEF vars
<1>13. QED
  BY <1>1, <1>2, <1>3, <1>4, <1>5, <1>6, <1>7, <1>8, <1>9, <1>10, <1>11, <1>12
     DEF Next, Handler, Dequeue, Executor

\* wrap_func sees m_notified, or the writer m_resume_f, whoever is second.
LEMMA KeepsCalled == Inv /\ [Next]_vars => Called'
<1> SUFFICES ASSUME Inv, [Next]_vars PROVE Called'
  OBVIOUS
<1> USE DEF Inv, TypeOK, Causes, Called, Early, Idle, losses, Others, WGoto, XGoto, Add
<1>1. ASSUME NEW w \in Writers, Write(w) \/ CheckMode(w) PROVE Called'
  BY <1>1 DEF Write, CheckMode
<1>2. ASSUME NEW w \in Writers, Raise(w) PROVE Called'
  BY <1>2 DEF Raise, Reading, Reachable
<1>3. ASSUME NEW w \in Writers, WLock(w) PROVE Called'
  BY <1>3 DEF WLock
<1>4. ASSUME NEW w \in Writers, WCall(w) PROVE Called'
  BY <1>4 DEF WCall
<1>5. ASSUME NEW w \in Writers, WClear(w) \/ WUnlock(w) PROVE Called'
  BY <1>5 DEF WClear, WUnlock, Fresh, Clearing
<1>6. CASE Read \/ Poll \/ SetMode \/ ClearMode \/ RLock
  BY <1>6 DEF Read, Poll, SetMode, ClearMode, RLock
<1>7. CASE Repoll
  BY <1>7 DEF Repoll, Kinds
<1>8. CASE Yield
  BY <1>8 DEF Yield, Reading
<1>9. CASE YieldFails \/ Woken \/ TimedOut \/ Sleep \/ Wake \/ SleepTimeout
  BY <1>9 DEF YieldFails, Woken, TimedOut, Sleep, Wake, SleepTimeout
<1>10. ASSUME NEW x \in Executors, XLock(x) \/ XStore(x) \/ XUnlock(x) \/ XAdd(x) PROVE Called'
  BY <1>10 DEF XLock, XStore, XUnlock, XAdd
<1>11. ASSUME NEW x \in Executors, XTest(x) PROVE Called'
  <2>1. CASE notified
    <3>1. CASE tasks' = [tasks EXCEPT !["resume"] = @ + 1]
      <4>1. tasks'["resume"] # 0
        BY <3>1
      <4>2. QED
        BY <4>1
    <3>2. CASE dropped' = (dropped \/ rpc = "suspended") /\ rpc' = rpc
      BY <3>2
    <3>3. QED
      BY <1>11, <2>1, <3>1, <3>2 DEF XTest
  <2>2. CASE ~notified
    BY <1>11, <2>2 DEF XTest
  <2>3. QED
    BY <2>1, <2>2
<1>12. ASSUME NEW x \in Executors, XClear(x) PROVE Called'
  BY <1>12 DEF XClear, Fresh, Clearing
<1>13. ASSUME NEW x \in Executors, NEW cause \in Causes, RunTask(x, cause) PROVE Called'
  BY <1>13 DEF RunTask
<1>14. CASE TimerFires
  BY <1>14 DEF TimerFires
<1>15. CASE UNCHANGED vars
  BY <1>15 DEF vars
<1>16. QED
  BY <1>1, <1>2, <1>3, <1>4, <1>5, <1>6, <1>7, <1>8, <1>9, <1>10, <1>11, <1>12,
     <1>13, <1>14, <1>15
     DEF Next, Handler, Dequeue, Executor

\* Without timeouts a wait ends by its one task.
LEMMA KeepsOnce == Inv /\ [Next]_vars => Once'
<1> SUFFICES ASSUME Inv, [Next]_vars PROVE Once'
  OBVIOUS
<1> USE ActorsAssumption
        DEF Inv, TypeOK, Causes, Once, OneResumption, Early, Clearing, Idle,
            setup, losses, Others, WGoto, XGoto, Add, Release
<1>1. ASSUME NEW w \in Writers, Write(w) \/ CheckMode(w) \/ Raise(w) \/ WLock(w) PROVE Once'
  BY <1>1 DEF Write, CheckMode, Raise, WLock
<1>2. ASSUME NEW w \in Writers, WCall(w) PROVE Once'
  BY <1>2 DEF WCall, Locked
<1>3. ASSUME NEW w \in Writers, WClear(w) \/ WUnlock(w) PROVE Once'
  BY <1>3 DEF WClear, WUnlock
<1>4. CASE Read \/ Poll \/ SetMode \/ ClearMode \/ RLock
  BY <1>4 DEF Read, Poll, SetMode, ClearMode, RLock
<1>5. CASE Repoll
  BY <1>5 DEF Repoll, Kinds
<1>6. CASE Yield
  BY <1>6 DEF Yield, Reading
<1>7. CASE YieldFails \/ Woken \/ TimedOut \/ Sleep \/ Wake \/ SleepTimeout
  BY <1>7 DEF YieldFails, Woken, TimedOut, Sleep, Wake, SleepTimeout
<1>8. ASSUME NEW x \in Executors, XLock(x) PROVE Once'
  BY <1>8 DEF XLock
<1>9. ASSUME NEW x \in Executors, XStore(x) PROVE Once'
  BY <1>9 DEF XStore
<1>10. ASSUME NEW x \in Executors, XUnlock(x) PROVE Once'
  BY <1>10 DEF XUnlock
<1>11. ASSUME NEW x \in Executors, XAdd(x) PROVE Once'
  BY <1>11 DEF XAdd
<1>12. ASSUME NEW x \in Executors, XTest(x) \/ XClear(x) PROVE Once'
  BY <1>12 DEF XTest, XClear
<1>13. ASSUME NEW x \in Executors, NEW cause \in Causes, RunTask(x, cause) PROVE Once'
  BY <1>13 DEF RunTask
<1>14. CASE TimerFires
  BY <1>14 DEF TimerFires
<1>15. CASE UNCHANGED vars
  BY <1>15 DEF vars
<1>16. QED
  BY <1>1, <1>2, <1>3, <1>4, <1>5, <1>6, <1>7, <1>8, <1>9, <1>10, <1>11, <1>12,
     <1>13, <1>14, <1>15
     DEF Next, Handler, Dequeue, Executor

-----------------------------------------------------------------------------
(* The invariant, and what follows from it.                                *)

LEMMA Starts == Init => Inv
<1> SUFFICES ASSUME Init PROVE Inv
  OBVIOUS
<1> USE SizeAssumption, ActorsAssumption, ReaderAssumption DEF Init
<1>1. TypeOK
  <2>1. host \in Executors \cup {None} /\ queue \in 0 .. Capacity
    OBVIOUS
  <2>2. tasks \in [Causes -> Nat] /\ wpc = [w \in Writers |-> "idle"]
    OBVIOUS
  <2>3. QED
    BY <2>1, <2>2 DEF TypeOK
<1>2. Reading /\ Locked /\ Told
  BY DEF Reading, Locked, Told, Waiting, Kinds
<1>3. Fresh /\ Reachable /\ Called
  BY DEF Fresh, Reachable, Called
<1>4. Once
  BY DEF Once, OneResumption, Early, Idle, Causes
<1>5. QED
  BY <1>1, <1>2, <1>3, <1>4 DEF Inv

LEMMA Keeps == Inv /\ [Next]_vars => Inv'
  BY KeepsTypeOK, KeepsReading, KeepsLocked, KeepsTold, KeepsFresh, KeepsReachable,
     KeepsCalled, KeepsOnce DEF Inv

LEMMA Always == Spec => []Inv
  BY Starts, Keeps, PTL DEF Spec

\* The variables keep their types, for any number of writers and executors, any
\* size of the queue, and with tasks of old waits in line.
THEOREM TypeCorrect == Spec => []TypeOK
<1>1. Inv => TypeOK
  BY DEF Inv
<1>2. QED
  BY Always, <1>1, PTL

\* No wake-up is lost: a reader does not wait while there is a message for it,
\* unless it is in line, has been notified or is about to be, or its task was
\* dropped by a full task queue; neither when its
\* wait can end by a timeout.
THEOREM WakeUpsKept == Spec => []NoLostWakeup
<1>1. Inv => NoLostWakeup
  <2> SUFFICES ASSUME Inv, queue > 0
               PROVE  /\ rpc = "suspended" /\ Idle => Alerted \/ dropped
                      /\ rpc = "asleep" => notified \/ Alerted
    BY DEF NoLostWakeup
  <2>1. CASE notified
    BY <2>1 DEF Inv, Called, Early, Alerted
  <2>2. CASE ~notified
    BY <2>2 DEF Inv, Told, Waiting, Alerted
  <2>3. QED
    BY <2>1, <2>2
<1>2. QED
  BY Always, <1>1, PTL

\* Without timeouts the reader is put in line once per wait, by whichever of
\* wrap_func and the notify handlers comes second.
THEOREM ResumedOnce == Spec => []OneResumption
<1>1. Inv => OneResumption
  BY DEF Inv, Once, OneResumption
<1>2. QED
  BY Always, <1>1, PTL

==============================================================================
