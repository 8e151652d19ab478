--------------------------- MODULE CorMutex_proofs ----------------------------
(***************************************************************************)
(* Proofs about cor_mutex_t, for any number of executors, coroutines,      *)
(* waiters and operations: it excludes, its flag has an owner while it is  *)
(* set, and no waiter is left behind while it is free.  The theorems cover *)
(* the races in which the lock is leaked, which TLC shows to exist.        *)
(***************************************************************************)
EXTENDS CorMutex, FiniteSetTheorems, TLAPS

\* The executor runs the coroutine itself, or its helper.
Running == {"run", "lock", "pop", "test", "add"}
Helping == {"push", "cas", "valid", "move"}

\* A helper has taken the lock and not given it to its coroutine.
Acquiring(e) == pc[e] \in {"valid", "move"}

\* What an executor has in its variables, by where it is.
Frames ==
    \A e \in Executors :
        /\ pc[e] = "idle" => task[e] = None
        /\ pc[e] # "idle" => task[e] \in Cells
        /\ pc[e] \in Running \cup Helping => co[e] \in Coroutines
        /\ pc[e] \in Helping => callerC[e] \in Cells
        /\ pc[e] \in {"test", "add"} => ele[e] \in Cells
        /\ pc[e] \notin {"test", "add"} => ele[e] = None
        /\ pc[e] \in {"lock", "push"} => stage[co[e]] = "wants"

\* The flag has at most one owner, and is set while it has one.
OneOwner ==
    /\ \A c \in Coroutines : stage[c] = "holds" => locked
    /\ \A e \in Executors : Acquiring(e) => locked
    /\ \A e, f \in Executors : Acquiring(e) /\ Acquiring(f) => e = f
    /\ \A c \in Coroutines, e \in Executors : ~(stage[c] = "holds" /\ Acquiring(e))

Owners == OneOwner /\ MutualExclusion /\ LockHasOwner

\* A coroutine's context is in one cell, or one executor runs the coroutine.
OneCell == \A x, y \in Cells : content[x] = content[y] => x = y \/ content[x] = None
OneRunner ==
    /\ \A e, f \in Executors :
        pc[e] \in Running /\ pc[f] \in Running /\ co[e] = co[f] => e = f
    /\ \A e \in Executors : pc[e] \in Running => \A x \in Cells : content[x] # co[e]

InQueue(x) == \E i \in 1 .. Len(waitCos) : waitCos[i] = x

\* A cell is in line once: in the wait queue, in the hands of an unlocker, as
\* a ready task, or as the task of an executor.
QueuedOnce ==
    /\ \A i, j \in 1 .. Len(waitCos) : waitCos[i] = waitCos[j] => i = j
    /\ \A x \in Cells : InQueue(x) =>
        x \notin tasks /\ \A e \in Executors : task[e] # x /\ ele[e] # x
HeldOnce ==
    /\ \A e \in Executors : task[e] \notin tasks /\ ele[e] \notin tasks
    /\ \A e, f \in Executors :
        /\ task[e] = task[f] => e = f \/ task[e] = None
        /\ ele[e] = ele[f] => e = f \/ ele[e] = None
        /\ task[e] = ele[f] => task[e] = None

\* What a helper is about to share is its own until it does.
Unshared ==
    \A e \in Executors : pc[e] = "push" =>
        /\ content[callerC[e]] = co[e]
        /\ ~InQueue(callerC[e]) /\ callerC[e] \notin tasks
        /\ \A f \in Executors :
            /\ task[f] # callerC[e] /\ ele[f] # callerC[e]
            /\ callerC[f] = callerC[e] => f = e

\* A coroutine that waits in line for the lock still wants it.
Wanting ==
    \A x \in Cells :
        /\ content[x] # None
        /\ \/ InQueue(x)
           \/ \E e \in Executors : ele[e] = x \/ (pc[e] = "push" /\ callerC[e] = x)
        => stage[content[x]] = "wants"

\* Someone will try the lock, or look at the wait queue, soon: an unlocker, a
\* coroutine at one of the two compare_exchanges, or one that is scheduled; or
\* the task of the waiter that was to do so has been dropped.
Attending(e) ==
    \/ pc[e] \in {"pop", "test", "lock", "cas"}
    \/ pc[e] = "add" /\ content[ele[e]] # None
Scheduled(x) ==
    /\ content[x] # None /\ stage[content[x]] = "wants"
    /\ x \in tasks \/ \E e \in Executors : task[e] = x /\ pc[e] \in {"check", "resume"}
Abandoned == \E c \in dropped : stage[c] = "wants"
Attended ==
    ~locked /\ ~wrecked /\ (\E x \in Cells : InQueue(x) /\ content[x] # None) =>
        \/ \E e \in Executors : Attending(e)
        \/ \E x \in Cells : Scheduled(x)
        \/ Abandoned

Inv ==
    /\ TypeOK /\ Frames /\ Owners
    /\ OneCell /\ OneRunner /\ QueuedOnce /\ HeldOnce /\ Unshared
    /\ Wanting /\ Attended

-----------------------------------------------------------------------------
LEMMA CellFacts == None \notin Cells /\ None \notin Coroutines
  BY NoneAssumption DEF Cells

\* Nothing refers to a fresh cell.
LEMMA FreshUnused ==
  ASSUME NEW x \in Cells, FreshCell(x)
  PROVE  /\ ~InQueue(x) /\ x \notin tasks
         /\ \A e \in Executors : task[e] # x /\ callerC[e] # x /\ ele[e] # x
<1>1. x \notin Referred
  BY DEF FreshCell
<1>2. {waitCos[i] : i \in DOMAIN waitCos} \subseteq Referred /\ tasks \subseteq Referred
  BY DEF Referred
<1>3. ASSUME NEW e \in Executors PROVE {task[e], callerC[e], ele[e]} \subseteq Referred
  BY DEF Referred
<1>4. ~InQueue(x)
  <2> SUFFICES ASSUME NEW i \in 1 .. Len(waitCos), waitCos[i] = x PROVE FALSE
    BY DEF InQueue
  <2> QED  BY <1>1, <1>2
<1> QED  BY <1>1, <1>2, <1>3, <1>4

\* What Append and Tail do to the wait queue.
LEMMA Pushed ==
  ASSUME NEW q \in Seq(Cells), NEW x \in Cells
  PROVE  /\ Append(q, x) \in Seq(Cells) /\ Len(Append(q, x)) = Len(q) + 1 /\ Len(q) \in Nat
         /\ Append(q, x)[Len(q) + 1] = x
         /\ \A i \in 1 .. Len(q) : Append(q, x)[i] = q[i]
  OBVIOUS

LEMMA Popped ==
  ASSUME NEW q \in Seq(Cells), q # <<>>
  PROVE  /\ Head(q) = q[1] /\ Head(q) \in Cells /\ Tail(q) \in Seq(Cells)
         /\ Len(q) \in Nat \ {0} /\ Len(Tail(q)) = Len(q) - 1
         /\ \A i \in 1 .. Len(q) - 1 : Tail(q)[i] = q[i + 1]
  OBVIOUS

-----------------------------------------------------------------------------
(* What the steps with several outcomes do, one outcome at a time.         *)

\* The executor resumes coroutine c.
Resumed(e, c) ==
    /\ pc[e] = "resume" /\ task[e] \in Cells /\ content[task[e]] = c
    /\ co' = [co EXCEPT ![e] = c]
    /\ pc' = [pc EXCEPT ![e] = IF stage[c] = "wants" THEN "lock" ELSE "run"]
    /\ content' = [content EXCEPT ![task[e]] = None]
    /\ UNCHANGED <<locked, waitCos, tasks, task, callerC, ele, coVars, wrecked, leaked>>

LEMMA ResumeCoDoes ==
  ASSUME Inv, NEW e \in Executors, ResumeCo(e)
  PROVE  Wreck \/ \E c \in Coroutines : Resumed(e, c)
<1>1. pc[e] = "resume" /\ task[e] \in Cells /\ content[task[e]] \in Coroutines \cup {None}
  BY DEF Inv, Frames, TypeOK, ResumeCo, At
<1>2. CASE content[task[e]] = None
  BY <1>2 DEF ResumeCo
<1>3. CASE content[task[e]] # None
  BY <1>1, <1>3 DEF ResumeCo, Resumed, Goto
<1> QED  BY <1>2, <1>3

\* Coroutine c gets the lock at once, or cell x for its continuation.
Taken(e, c) ==
    /\ pc[e] = "lock" /\ co[e] = c /\ ~locked /\ locked'
    /\ stage' = [stage EXCEPT ![c] = "holds"]
    /\ pc' = [pc EXCEPT ![e] = "run"]
    /\ UNCHANGED <<waitCos, tasks, content, task, co, callerC, ele, budget, destroyed, dropped, wrecked, leaked>>
Helped(e, c, x) ==
    /\ pc[e] = "lock" /\ co[e] = c /\ stage[c] = "wants" /\ locked
    /\ ~InQueue(x) /\ x \notin tasks
    /\ \A f \in Executors : task[f] # x /\ callerC[f] # x /\ ele[f] # x
    /\ callerC' = [callerC EXCEPT ![e] = x]
    /\ content' = [content EXCEPT ![x] = c]
    /\ pc' = [pc EXCEPT ![e] = "push"]
    /\ UNCHANGED <<locked, waitCos, tasks, task, co, ele, coVars, wrecked, leaked>>

LEMMA LockCasDoes ==
  ASSUME Inv, NEW e \in Executors, LockCas(e)
  PROVE  \E c \in Coroutines : Taken(e, c) \/ \E x \in Cells : Helped(e, c, x)
<1>1. PICK c \in Coroutines : co[e] = c /\ pc[e] = "lock" /\ stage[c] = "wants"
  BY DEF Inv, Frames, Running, LockCas, At
<1>2. CASE ~locked
  BY <1>1, <1>2 DEF LockCas, Taken, Goto
<1>3. CASE locked
  <2>1. PICK x \in Cells : /\ FreshCell(x)
                           /\ callerC' = [callerC EXCEPT ![e] = x]
                           /\ content' = [content EXCEPT ![x] = c]
    BY <1>1, <1>3 DEF LockCas
  <2> QED  BY <1>1, <1>3, <2>1, FreshUnused DEF LockCas, Helped, Goto, coVars
<1> QED  BY <1>2, <1>3

\* The helper shares its cell x, or loses it to a full wait queue.
Shared(e, x) ==
    /\ pc[e] = "push" /\ callerC[e] = x /\ pc' = [pc EXCEPT ![e] = "cas"]
    /\ waitCos' \in Seq(Cells) /\ Len(waitCos') <= WaitSize
    /\ \A y \in Cells : InQueue(y)' <=> InQueue(y) \/ y = x
    /\ Len(waitCos') = Len(waitCos) + 1 /\ Len(waitCos) \in Nat /\ waitCos'[Len(waitCos) + 1] = x
    /\ \A i \in 1 .. Len(waitCos) : waitCos'[i] = waitCos[i]
    /\ UNCHANGED <<locked, tasks, content, task, co, callerC, ele, coVars, wrecked, leaked>>
Lost(e, x) ==
    /\ pc[e] = "push" /\ callerC[e] = x /\ co[e] \in Coroutines
    /\ content' = [content EXCEPT ![x] = None]
    /\ destroyed' = destroyed \cup {co[e]}
    /\ ToExecutor(e)
    /\ UNCHANGED <<locked, waitCos, tasks, stage, budget, dropped, wrecked, leaked>>

LEMMA PushDoes ==
  ASSUME Inv, NEW e \in Executors, Push(e)
  PROVE  \E x \in Cells : Shared(e, x) \/ Lost(e, x)
<1>1. PICK x \in Cells : callerC[e] = x /\ pc[e] = "push" /\ co[e] \in Coroutines
  BY DEF Inv, Frames, Helping, Push, At
<1>2. waitCos \in Seq(Cells) /\ Len(waitCos) \in Nat
  BY DEF Inv, TypeOK
<1>3. CASE Len(waitCos) < WaitSize
  <2>1. waitCos' = Append(waitCos, x)
    BY <1>1, <1>2, <1>3, BoundsAssumption DEF Push
  <2>2. /\ waitCos' \in Seq(Cells) /\ Len(waitCos') = Len(waitCos) + 1
        /\ waitCos'[Len(waitCos) + 1] = x
        /\ \A i \in 1 .. Len(waitCos) : waitCos'[i] = waitCos[i]
    BY <1>2, <2>1, Pushed
  <2>3. Len(waitCos') <= WaitSize
    BY <1>2, <1>3, <2>2, BoundsAssumption
  <2>4. \A y \in Cells : InQueue(y)' <=> InQueue(y) \/ y = x
    BY <1>2, <2>2 DEF InQueue
  <2>5. /\ pc' = [pc EXCEPT ![e] = "cas"]
        /\ UNCHANGED <<locked, tasks, content, task, co, callerC, ele, coVars, wrecked, leaked>>
    BY <1>2, <1>3, BoundsAssumption DEF Push, Goto, coVars
  <2> QED  BY <1>1, <1>2, <2>2, <2>3, <2>4, <2>5 DEF Shared
<1>4. CASE ~(Len(waitCos) < WaitSize)
  BY <1>1, <1>4 DEF Push, Lost
<1> QED  BY <1>3, <1>4

\* The helper, with the lock, resumes its coroutine c.
Handed(e, c) ==
    /\ pc[e] = "move" /\ co[e] = c /\ callerC[e] \in Cells /\ content[callerC[e]] = c
    /\ stage[c] = "wants"
    /\ content' = [content EXCEPT ![callerC[e]] = None]
    /\ callerC' = [callerC EXCEPT ![e] = None]
    /\ stage' = [stage EXCEPT ![c] = "holds"] /\ dropped' = dropped \ {c}
    /\ pc' = [pc EXCEPT ![e] = "run"]
    /\ UNCHANGED <<locked, waitCos, tasks, task, co, ele, budget, destroyed, wrecked, leaked>>

LEMMA MoveDoes ==
  ASSUME Inv, NEW e \in Executors, Move(e)
  PROVE  Wreck \/ \E c \in Coroutines : Handed(e, c)
<1>1. PICK c \in Coroutines : co[e] = c /\ pc[e] = "move" /\ callerC[e] \in Cells
  BY DEF Inv, Frames, Helping, Move, At
<1>2. CASE content[callerC[e]] = c /\ stage[c] = "wants"
  BY <1>1, <1>2 DEF Move, Handed, Goto
<1>3. CASE ~(content[callerC[e]] = c /\ stage[c] = "wants")
  BY <1>1, <1>3 DEF Move
<1> QED  BY <1>2, <1>3

\* The unlocker gets the oldest cell, x, or finds none.
Got(e, x) ==
    /\ pc[e] = "pop" /\ pc' = [pc EXCEPT ![e] = "test"] /\ ele' = [ele EXCEPT ![e] = x]
    /\ waitCos' \in Seq(Cells) /\ Len(waitCos') <= WaitSize
    /\ InQueue(x) /\ ~InQueue(x)'
    /\ \A y \in Cells : InQueue(y)' => InQueue(y)
    /\ Len(waitCos) \in Nat \ {0} /\ Len(waitCos') = Len(waitCos) - 1
    /\ \A i \in 1 .. Len(waitCos) - 1 : waitCos'[i] = waitCos[i + 1]
    /\ UNCHANGED <<locked, tasks, content, task, co, callerC, coVars, wrecked, leaked>>
NoneLeft(e) ==
    /\ pc[e] = "pop" /\ pc' = [pc EXCEPT ![e] = "run"] /\ \A x \in Cells : ~InQueue(x)
    /\ UNCHANGED <<waitCos, ele, locked, tasks, content, task, co, callerC, coVars, wrecked, leaked>>

LEMMA PopDoes ==
  ASSUME Inv, NEW e \in Executors, Pop(e)
  PROVE  NoneLeft(e) \/ \E x \in Cells : Got(e, x)
<1>1. waitCos \in Seq(Cells) /\ Len(waitCos) \in Nat /\ Len(waitCos) <= WaitSize
  BY DEF Inv, TypeOK
<1>2. CASE waitCos # <<>>
  <2>1. PICK x \in Cells : x = Head(waitCos)
    BY <1>1, <1>2, Popped
  <2>2. /\ waitCos' = Tail(waitCos) /\ ele' = [ele EXCEPT ![e] = x]
        /\ pc[e] = "pop" /\ pc' = [pc EXCEPT ![e] = "test"]
        /\ UNCHANGED <<locked, tasks, content, task, co, callerC, coVars, wrecked, leaked>>
    BY <1>2, <2>1 DEF Pop, At, Goto, coVars
  <2>3. /\ waitCos' \in Seq(Cells) /\ Len(waitCos) \in Nat \ {0} /\ Len(waitCos') = Len(waitCos) - 1
        /\ x = waitCos[1]
        /\ \A i \in 1 .. Len(waitCos) - 1 : waitCos'[i] = waitCos[i + 1]
    BY <1>1, <1>2, <2>1, <2>2, Popped
  <2>4. InQueue(x) /\ \A y \in Cells : InQueue(y)' => InQueue(y)
    BY <2>3 DEF InQueue
  <2>5. ~InQueue(x)'
    BY <2>3 DEF InQueue, Inv, QueuedOnce
  <2>6. Len(waitCos') <= WaitSize
    BY <1>1, <2>3, BoundsAssumption
  <2> QED  BY <2>2, <2>3, <2>4, <2>5, <2>6 DEF Got
<1>3. CASE waitCos = <<>>
  BY <1>3 DEF Pop, NoneLeft, InQueue, At, Goto
<1> QED  BY <1>2, <1>3

\* No executor starts to run a coroutine, and no cell is filled.
LEMMA NoNewRunner ==
  ASSUME Inv, \A f \in Executors : pc'[f] \in Running => pc[f] \in Running /\ co'[f] = co[f],
         UNCHANGED content
  PROVE  OneRunner'
  BY DEF Inv, OneRunner

\* Nothing new is in line.
LEMMA NoNewInLine ==
  ASSUME Inv, UNCHANGED <<waitCos, tasks>>,
         \A f \in Executors : task'[f] \in {task[f], None} /\ ele'[f] \in {ele[f], None}
  PROVE  QueuedOnce' /\ HeldOnce'
<1>1. \A x \in Cells : InQueue(x)' <=> InQueue(x)
  BY DEF InQueue
<1>2. QueuedOnce'
  BY <1>1, CellFacts DEF Inv, QueuedOnce
<1>3. HeldOnce'
  <2>1. None \notin tasks
    BY CellFacts DEF Inv, TypeOK
  <2> QED  BY <2>1 DEF Inv, HeldOnce
<1> QED  BY <1>2, <1>3

LEMMA KeepsTypeOK == ASSUME Inv, [Next]_vars PROVE TypeOK'
<1> USE CellFacts, BoundsAssumption DEF Inv, At, Goto, ownVars, coVars
<1>1. ASSUME NEW e \in Executors, Fetch(e) PROVE TypeOK'
  BY <1>1 DEF Fetch, TypeOK, Frames, Locations, Running, Helping
<1>2. ASSUME NEW e \in Executors, CanResume(e) PROVE TypeOK'
  <2>1. CASE content[task[e]] # None
    BY <1>2, <2>1 DEF CanResume, TypeOK, Frames, Locations, Running, Helping
  <2>2. CASE content[task[e]] = None
    BY <1>2, <2>2 DEF CanResume, ToExecutor, TypeOK, Frames, Locations, Running, Helping
  <2> QED  BY <2>1, <2>2
<1>3. ASSUME NEW e \in Executors, ResumeCo(e) PROVE TypeOK'
  <2>1. CASE Wreck
    BY <2>1 DEF Wreck, TypeOK, Frames, Locations, Running, Helping
  <2>2. ASSUME NEW c \in Coroutines, Resumed(e, c) PROVE TypeOK'
    BY <2>2 DEF Resumed, TypeOK, Frames, Locations, Running, Helping
  <2> QED  BY <1>3, <2>1, <2>2, ResumeCoDoes
<1>4. ASSUME NEW e \in Executors, Yield(e) PROVE TypeOK'
  BY <1>4 DEF Yield, TypeOK, Frames, Locations, Running, Helping
<1>5. ASSUME NEW e \in Executors, Requeue(e) PROVE TypeOK'
  BY <1>5 DEF Requeue, AddTask, ToExecutor, TypeOK, Frames, Locations, Running, Helping
<1>6. ASSUME NEW e \in Executors, Finish(e) PROVE TypeOK'
  BY <1>6 DEF Finish, ToExecutor, TypeOK, Frames, Locations, Running, Helping
<1>7. ASSUME NEW e \in Executors, CallLock(e) PROVE TypeOK'
  BY <1>7 DEF CallLock, TypeOK, Frames, Locations, Running, Helping
<1>8. ASSUME NEW e \in Executors, LockCas(e) PROVE TypeOK'
  <2>1. ASSUME NEW c \in Coroutines, Taken(e, c) PROVE TypeOK'
    BY <2>1 DEF Taken, TypeOK, Frames, Locations, Running, Helping
  <2>2. ASSUME NEW c \in Coroutines, NEW x \in Cells, Helped(e, c, x) PROVE TypeOK'
    BY <2>2 DEF Helped, TypeOK, Frames, Locations, Running, Helping
  <2> QED  BY <1>8, <2>1, <2>2, LockCasDoes
<1>9. ASSUME NEW e \in Executors, Push(e) PROVE TypeOK'
  <2>1. ASSUME NEW x \in Cells, Shared(e, x) PROVE TypeOK'
    BY <2>1 DEF Shared, TypeOK, Frames, Locations, Running, Helping
  <2>2. ASSUME NEW x \in Cells, Lost(e, x) PROVE TypeOK'
    BY <2>2 DEF Lost, ToExecutor, TypeOK, Frames, Locations, Running, Helping
  <2> QED  BY <1>9, <2>1, <2>2, PushDoes
<1>10. ASSUME NEW e \in Executors, HelperCas(e) PROVE TypeOK'
  <2>1. CASE locked
    BY <1>10, <2>1 DEF HelperCas, ToExecutor, TypeOK, Frames, Locations, Running, Helping
  <2>2. CASE ~locked
    BY <1>10, <2>2 DEF HelperCas, TypeOK, Frames, Locations, Running, Helping
  <2> QED  BY <2>1, <2>2
<1>11. ASSUME NEW e \in Executors, Valid(e) PROVE TypeOK'
  <2>1. CASE content[callerC[e]] # None
    BY <1>11, <2>1 DEF Valid, TypeOK, Frames, Locations, Running, Helping
  <2>2. CASE content[callerC[e]] = None
    BY <1>11, <2>2 DEF Valid, ToExecutor, TypeOK, Frames, Locations, Running, Helping
  <2> QED  BY <2>1, <2>2
<1>12. ASSUME NEW e \in Executors, Move(e) PROVE TypeOK'
  <2>1. CASE Wreck
    BY <2>1 DEF Wreck, TypeOK, Frames, Locations, Running, Helping
  <2>2. ASSUME NEW c \in Coroutines, Handed(e, c) PROVE TypeOK'
    BY <2>2 DEF Handed, TypeOK, Frames, Locations, Running, Helping
  <2> QED  BY <1>12, <2>1, <2>2, MoveDoes
<1>13. ASSUME NEW e \in Executors, UnlockCas(e) PROVE TypeOK'
  <2>1. PICK c \in Coroutines : stage' = [stage EXCEPT ![c] = "free"]
    BY <1>13 DEF UnlockCas
  <2> QED  BY <1>13, <2>1 DEF UnlockCas, TypeOK, Locations
<1>14. ASSUME NEW e \in Executors, Pop(e) PROVE TypeOK'
  <2>1. CASE NoneLeft(e)
    BY <2>1 DEF NoneLeft, TypeOK, Frames, Locations, Running, Helping
  <2>2. ASSUME NEW x \in Cells, Got(e, x) PROVE TypeOK'
    BY <2>2 DEF Got, TypeOK, Frames, Locations, Running, Helping
  <2> QED  BY <1>14, <2>1, <2>2, PopDoes
<1>15. ASSUME NEW e \in Executors, Test(e) PROVE TypeOK'
  <2>1. CASE content[ele[e]] # None
    BY <1>15, <2>1 DEF Test, TypeOK, Frames, Locations, Running, Helping
  <2>2. CASE content[ele[e]] = None
    BY <1>15, <2>2 DEF Test, TypeOK, Frames, Locations, Running, Helping
  <2> QED  BY <2>1, <2>2
<1>16. ASSUME NEW e \in Executors, Add(e) PROVE TypeOK'
  BY <1>16 DEF Add, AddTask, TypeOK, Frames, Locations, Running, Helping
<1>17. CASE UNCHANGED vars
  BY <1>17 DEF vars, TypeOK, Frames, Locations, Running, Helping
<1> QED
  BY <1>1, <1>2, <1>3, <1>4, <1>5, <1>6, <1>7, <1>8, <1>9, <1>10, <1>11, <1>12, <1>13, <1>14, <1>15, <1>16, <1>17 DEF Next, Schedule, Lock, Unlock

LEMMA KeepsFrames == ASSUME Inv, [Next]_vars PROVE Frames'
<1> USE CellFacts DEF Inv, At, Goto, ownVars, coVars
<1>1. ASSUME NEW e \in Executors, Fetch(e) PROVE Frames'
  BY <1>1 DEF Fetch, Frames, TypeOK, Running, Helping
<1>2. ASSUME NEW e \in Executors, CanResume(e) PROVE Frames'
  <2>1. CASE content[task[e]] # None
    BY <1>2, <2>1 DEF CanResume, Frames, TypeOK, Running, Helping
  <2>2. CASE content[task[e]] = None
    BY <1>2, <2>2 DEF CanResume, ToExecutor, Frames, TypeOK, Running, Helping
  <2> QED  BY <2>1, <2>2
<1>3. ASSUME NEW e \in Executors, ResumeCo(e) PROVE Frames'
  <2>1. CASE Wreck
    BY <2>1 DEF Wreck, Frames, TypeOK, Running, Helping
  <2>2. ASSUME NEW c \in Coroutines, Resumed(e, c) PROVE Frames'
    BY <2>2 DEF Resumed, Frames, TypeOK, Running, Helping
  <2> QED  BY <1>3, <2>1, <2>2, ResumeCoDoes
<1>4. ASSUME NEW e \in Executors, Yield(e) PROVE Frames'
  BY <1>4 DEF Yield, Frames, TypeOK, Running, Helping
<1>5. ASSUME NEW e \in Executors, Requeue(e) PROVE Frames'
  BY <1>5 DEF Requeue, AddTask, ToExecutor, Frames, TypeOK, Running, Helping
<1>6. ASSUME NEW e \in Executors, Finish(e) PROVE Frames'
  BY <1>6 DEF Finish, ToExecutor, Frames, TypeOK, Running, Helping
<1>7. ASSUME NEW e \in Executors, CallLock(e) PROVE Frames'
  BY <1>7 DEF CallLock, Frames, TypeOK, Running, Helping
<1>8. ASSUME NEW e \in Executors, LockCas(e) PROVE Frames'
  <2>1. ASSUME NEW c \in Coroutines, Taken(e, c) PROVE Frames'
    <3>1. \A f \in Executors : pc[f] \in {"lock", "push"} /\ co[f] = c => f = e
      BY <2>1 DEF Taken, OneRunner, Unshared, Frames, Running, Helping
    <3> QED  BY <2>1, <3>1 DEF Taken, Frames, TypeOK, Running, Helping
  <2>2. ASSUME NEW c \in Coroutines, NEW x \in Cells, Helped(e, c, x) PROVE Frames'
    BY <2>2 DEF Helped, Frames, TypeOK, Running, Helping
  <2> QED  BY <1>8, <2>1, <2>2, LockCasDoes
<1>9. ASSUME NEW e \in Executors, Push(e) PROVE Frames'
  <2>1. ASSUME NEW x \in Cells, Shared(e, x) PROVE Frames'
    BY <2>1 DEF Shared, Frames, TypeOK, Running, Helping
  <2>2. ASSUME NEW x \in Cells, Lost(e, x) PROVE Frames'
    BY <2>2 DEF Lost, ToExecutor, Frames, TypeOK, Running, Helping
  <2> QED  BY <1>9, <2>1, <2>2, PushDoes
<1>10. ASSUME NEW e \in Executors, HelperCas(e) PROVE Frames'
  <2>1. CASE locked
    <3>1. /\ pc[e] = "cas" /\ pc' = [pc EXCEPT ![e] = "idle"] /\ task' = [task EXCEPT ![e] = None]
          /\ co' = [co EXCEPT ![e] = None] /\ callerC' = [callerC EXCEPT ![e] = None]
          /\ UNCHANGED <<ele, stage>>
      BY <1>10, <2>1 DEF HelperCas, ToExecutor
    <3> QED  BY <3>1 DEF Frames, TypeOK, Running, Helping
  <2>2. CASE ~locked
    BY <1>10, <2>2 DEF HelperCas, Frames, TypeOK, Running, Helping
  <2> QED  BY <2>1, <2>2
<1>11. ASSUME NEW e \in Executors, Valid(e) PROVE Frames'
  <2>1. CASE content[callerC[e]] # None
    BY <1>11, <2>1 DEF Valid, Frames, TypeOK, Running, Helping
  <2>2. CASE content[callerC[e]] = None
    BY <1>11, <2>2 DEF Valid, ToExecutor, Frames, TypeOK, Running, Helping
  <2> QED  BY <2>1, <2>2
<1>12. ASSUME NEW e \in Executors, Move(e) PROVE Frames'
  <2>1. CASE Wreck
    BY <2>1 DEF Wreck, Frames, TypeOK, Running, Helping
  <2>2. ASSUME NEW c \in Coroutines, Handed(e, c) PROVE Frames'
    <3>1. \A f \in Executors : pc[f] \in {"lock", "push"} => co[f] # c
      BY <2>2 DEF Handed, OneRunner, OneCell, Unshared, Frames, Running, Helping
    <3> QED  BY <2>2, <3>1 DEF Handed, Frames, TypeOK, Running, Helping
  <2> QED  BY <1>12, <2>1, <2>2, MoveDoes
<1>13. ASSUME NEW e \in Executors, UnlockCas(e) PROVE Frames'
  BY <1>13 DEF UnlockCas, Frames, TypeOK, Running, Helping
<1>14. ASSUME NEW e \in Executors, Pop(e) PROVE Frames'
  <2>1. CASE NoneLeft(e)
    BY <2>1 DEF NoneLeft, Frames, TypeOK, Running, Helping
  <2>2. ASSUME NEW x \in Cells, Got(e, x) PROVE Frames'
    BY <2>2 DEF Got, Frames, TypeOK, Running, Helping
  <2> QED  BY <1>14, <2>1, <2>2, PopDoes
<1>15. ASSUME NEW e \in Executors, Test(e) PROVE Frames'
  <2>1. CASE content[ele[e]] # None
    BY <1>15, <2>1 DEF Test, Frames, TypeOK, Running, Helping
  <2>2. CASE content[ele[e]] = None
    BY <1>15, <2>2 DEF Test, Frames, TypeOK, Running, Helping
  <2> QED  BY <2>1, <2>2
<1>16. ASSUME NEW e \in Executors, Add(e) PROVE Frames'
  BY <1>16 DEF Add, AddTask, Frames, TypeOK, Running, Helping
<1>17. CASE UNCHANGED vars
  BY <1>17 DEF vars, Frames, TypeOK, Running, Helping
<1> QED
  BY <1>1, <1>2, <1>3, <1>4, <1>5, <1>6, <1>7, <1>8, <1>9, <1>10, <1>11, <1>12, <1>13, <1>14, <1>15, <1>16, <1>17 DEF Next, Schedule, Lock, Unlock

LEMMA KeepsOwners == ASSUME Inv, [Next]_vars PROVE Owners'
<1> USE CellFacts DEF Inv, At, Goto, ownVars, coVars
<1>1. ASSUME NEW e \in Executors, Fetch(e) PROVE Owners'
  BY <1>1 DEF Fetch, Owners, OneOwner, MutualExclusion, LockHasOwner, Acquiring, TypeOK
<1>2. ASSUME NEW e \in Executors, CanResume(e) PROVE Owners'
  <2>1. CASE content[task[e]] # None
    BY <1>2, <2>1 DEF CanResume, Owners, OneOwner, MutualExclusion, LockHasOwner, Acquiring, TypeOK
  <2>2. CASE content[task[e]] = None
    BY <1>2, <2>2 DEF CanResume, ToExecutor, Owners, OneOwner, MutualExclusion, LockHasOwner, Acquiring, TypeOK
  <2> QED  BY <2>1, <2>2
<1>3. ASSUME NEW e \in Executors, ResumeCo(e) PROVE Owners'
  <2>1. CASE Wreck
    BY <2>1 DEF Wreck, Owners, OneOwner, MutualExclusion, LockHasOwner, Acquiring, TypeOK
  <2>2. ASSUME NEW c \in Coroutines, Resumed(e, c) PROVE Owners'
    BY <2>2 DEF Resumed, Owners, OneOwner, MutualExclusion, LockHasOwner, Acquiring, TypeOK
  <2> QED  BY <1>3, <2>1, <2>2, ResumeCoDoes
<1>4. ASSUME NEW e \in Executors, Yield(e) PROVE Owners'
  BY <1>4 DEF Yield, Owners, OneOwner, MutualExclusion, LockHasOwner, Acquiring, TypeOK
<1>5. ASSUME NEW e \in Executors, Requeue(e) PROVE Owners'
  BY <1>5 DEF Requeue, AddTask, ToExecutor, Owners, OneOwner, MutualExclusion, LockHasOwner, Acquiring, TypeOK
<1>6. ASSUME NEW e \in Executors, Finish(e) PROVE Owners'
  BY <1>6 DEF Finish, ToExecutor, Owners, OneOwner, MutualExclusion, LockHasOwner, Acquiring, TypeOK
<1>7. ASSUME NEW e \in Executors, CallLock(e) PROVE Owners'
  BY <1>7 DEF CallLock, Owners, OneOwner, MutualExclusion, LockHasOwner, Acquiring, TypeOK
<1>8. ASSUME NEW e \in Executors, LockCas(e) PROVE Owners'
  <2>1. ASSUME NEW c \in Coroutines, Taken(e, c) PROVE Owners'
    BY <2>1 DEF Taken, Owners, OneOwner, MutualExclusion, LockHasOwner, Acquiring, TypeOK
  <2>2. ASSUME NEW c \in Coroutines, NEW x \in Cells, Helped(e, c, x) PROVE Owners'
    BY <2>2 DEF Helped, Owners, OneOwner, MutualExclusion, LockHasOwner, Acquiring, TypeOK
  <2> QED  BY <1>8, <2>1, <2>2, LockCasDoes
<1>9. ASSUME NEW e \in Executors, Push(e) PROVE Owners'
  <2>1. ASSUME NEW x \in Cells, Shared(e, x) PROVE Owners'
    BY <2>1 DEF Shared, Owners, OneOwner, MutualExclusion, LockHasOwner, Acquiring, TypeOK
  <2>2. ASSUME NEW x \in Cells, Lost(e, x) PROVE Owners'
    BY <2>2 DEF Lost, ToExecutor, Owners, OneOwner, MutualExclusion, LockHasOwner, Acquiring, TypeOK
  <2> QED  BY <1>9, <2>1, <2>2, PushDoes
<1>10. ASSUME NEW e \in Executors, HelperCas(e) PROVE Owners'
  <2>1. CASE locked
    BY <1>10, <2>1 DEF HelperCas, ToExecutor, Owners, OneOwner, MutualExclusion, LockHasOwner, Acquiring, TypeOK
  <2>2. CASE ~locked
    BY <1>10, <2>2 DEF HelperCas, Owners, OneOwner, MutualExclusion, LockHasOwner, Acquiring, TypeOK
  <2> QED  BY <2>1, <2>2
<1>11. ASSUME NEW e \in Executors, Valid(e) PROVE Owners'
  <2>1. CASE content[callerC[e]] # None
    BY <1>11, <2>1 DEF Valid, Owners, OneOwner, MutualExclusion, LockHasOwner, Acquiring, TypeOK
  <2>2. CASE content[callerC[e]] = None
    BY <1>11, <2>2 DEF Valid, ToExecutor, Owners, OneOwner, MutualExclusion, LockHasOwner, Acquiring, TypeOK
  <2> QED  BY <2>1, <2>2
<1>12. ASSUME NEW e \in Executors, Move(e) PROVE Owners'
  <2>1. CASE Wreck
    BY <2>1 DEF Wreck, Owners, OneOwner, MutualExclusion, LockHasOwner, Acquiring, TypeOK
  <2>2. ASSUME NEW c \in Coroutines, Handed(e, c) PROVE Owners'
    BY <2>2 DEF Handed, Owners, OneOwner, MutualExclusion, LockHasOwner, Acquiring, TypeOK
  <2> QED  BY <1>12, <2>1, <2>2, MoveDoes
<1>13. ASSUME NEW e \in Executors, UnlockCas(e) PROVE Owners'
  BY <1>13 DEF UnlockCas, Owners, OneOwner, MutualExclusion, LockHasOwner, Acquiring, TypeOK
<1>14. ASSUME NEW e \in Executors, Pop(e) PROVE Owners'
  <2>1. CASE NoneLeft(e)
    BY <2>1 DEF NoneLeft, Owners, OneOwner, MutualExclusion, LockHasOwner, Acquiring, TypeOK
  <2>2. ASSUME NEW x \in Cells, Got(e, x) PROVE Owners'
    BY <2>2 DEF Got, Owners, OneOwner, MutualExclusion, LockHasOwner, Acquiring, TypeOK
  <2> QED  BY <1>14, <2>1, <2>2, PopDoes
<1>15. ASSUME NEW e \in Executors, Test(e) PROVE Owners'
  <2>1. CASE content[ele[e]] # None
    BY <1>15, <2>1 DEF Test, Owners, OneOwner, MutualExclusion, LockHasOwner, Acquiring, TypeOK
  <2>2. CASE content[ele[e]] = None
    <3>1. UNCHANGED <<locked, stage, leaked>> /\ pc[e] = "test" /\ pc' = [pc EXCEPT ![e] = "pop"]
      BY <1>15, <2>2 DEF Test
    <3>2. \A f \in Executors : Acquiring(f)' <=> Acquiring(f)
      BY <3>1 DEF Acquiring, TypeOK
    <3> QED  BY <3>1, <3>2 DEF Owners, OneOwner, MutualExclusion, LockHasOwner, Acquiring
  <2> QED  BY <2>1, <2>2
<1>16. ASSUME NEW e \in Executors, Add(e) PROVE Owners'
  BY <1>16 DEF Add, AddTask, Owners, OneOwner, MutualExclusion, LockHasOwner, Acquiring, TypeOK
<1>17. CASE UNCHANGED vars
  BY <1>17 DEF vars, Owners, OneOwner, MutualExclusion, LockHasOwner, Acquiring, TypeOK
<1> QED
  BY <1>1, <1>2, <1>3, <1>4, <1>5, <1>6, <1>7, <1>8, <1>9, <1>10, <1>11, <1>12, <1>13, <1>14, <1>15, <1>16, <1>17 DEF Next, Schedule, Lock, Unlock

LEMMA KeepsOneCell == ASSUME Inv, [Next]_vars PROVE OneCell'
<1> USE CellFacts DEF Inv, At, Goto, ownVars, coVars
<1>1. ASSUME NEW e \in Executors, Fetch(e) PROVE OneCell'
  BY <1>1 DEF Fetch, OneCell, OneRunner, TypeOK, Frames, Running, Helping
<1>2. ASSUME NEW e \in Executors, CanResume(e) PROVE OneCell'
  <2>1. CASE content[task[e]] # None
    BY <1>2, <2>1 DEF CanResume, OneCell, OneRunner, TypeOK, Frames, Running, Helping
  <2>2. CASE content[task[e]] = None
    BY <1>2, <2>2 DEF CanResume, ToExecutor, OneCell, OneRunner, TypeOK, Frames, Running, Helping
  <2> QED  BY <2>1, <2>2
<1>3. ASSUME NEW e \in Executors, ResumeCo(e) PROVE OneCell'
  <2>1. CASE Wreck
    BY <2>1 DEF Wreck, OneCell, OneRunner, TypeOK, Frames, Running, Helping
  <2>2. ASSUME NEW c \in Coroutines, Resumed(e, c) PROVE OneCell'
    BY <2>2 DEF Resumed, OneCell, OneRunner, TypeOK, Frames, Running, Helping
  <2> QED  BY <1>3, <2>1, <2>2, ResumeCoDoes
<1>4. ASSUME NEW e \in Executors, Yield(e) PROVE OneCell'
  BY <1>4 DEF Yield, OneCell, OneRunner, TypeOK, Frames, Running, Helping
<1>5. ASSUME NEW e \in Executors, Requeue(e) PROVE OneCell'
  BY <1>5 DEF Requeue, AddTask, ToExecutor, OneCell, OneRunner, TypeOK, Frames, Running, Helping
<1>6. ASSUME NEW e \in Executors, Finish(e) PROVE OneCell'
  BY <1>6 DEF Finish, ToExecutor, OneCell, OneRunner, TypeOK, Frames, Running, Helping
<1>7. ASSUME NEW e \in Executors, CallLock(e) PROVE OneCell'
  BY <1>7 DEF CallLock, OneCell, OneRunner, TypeOK, Frames, Running, Helping
<1>8. ASSUME NEW e \in Executors, LockCas(e) PROVE OneCell'
  <2>1. ASSUME NEW c \in Coroutines, Taken(e, c) PROVE OneCell'
    BY <2>1 DEF Taken, OneCell, OneRunner, TypeOK, Frames, Running, Helping
  <2>2. ASSUME NEW c \in Coroutines, NEW x \in Cells, Helped(e, c, x) PROVE OneCell'
    BY <2>2 DEF Helped, OneCell, OneRunner, TypeOK, Frames, Running, Helping
  <2> QED  BY <1>8, <2>1, <2>2, LockCasDoes
<1>9. ASSUME NEW e \in Executors, Push(e) PROVE OneCell'
  <2>1. ASSUME NEW x \in Cells, Shared(e, x) PROVE OneCell'
    BY <2>1 DEF Shared, OneCell, OneRunner, TypeOK, Frames, Running, Helping
  <2>2. ASSUME NEW x \in Cells, Lost(e, x) PROVE OneCell'
    BY <2>2 DEF Lost, ToExecutor, OneCell, OneRunner, TypeOK, Frames, Running, Helping
  <2> QED  BY <1>9, <2>1, <2>2, PushDoes
<1>10. ASSUME NEW e \in Executors, HelperCas(e) PROVE OneCell'
  <2>1. CASE locked
    BY <1>10, <2>1 DEF HelperCas, ToExecutor, OneCell, OneRunner, TypeOK, Frames, Running, Helping
  <2>2. CASE ~locked
    BY <1>10, <2>2 DEF HelperCas, OneCell, OneRunner, TypeOK, Frames, Running, Helping
  <2> QED  BY <2>1, <2>2
<1>11. ASSUME NEW e \in Executors, Valid(e) PROVE OneCell'
  <2>1. CASE content[callerC[e]] # None
    BY <1>11, <2>1 DEF Valid, OneCell, OneRunner, TypeOK, Frames, Running, Helping
  <2>2. CASE content[callerC[e]] = None
    BY <1>11, <2>2 DEF Valid, ToExecutor, OneCell, OneRunner, TypeOK, Frames, Running, Helping
  <2> QED  BY <2>1, <2>2
<1>12. ASSUME NEW e \in Executors, Move(e) PROVE OneCell'
  <2>1. CASE Wreck
    BY <2>1 DEF Wreck, OneCell, OneRunner, TypeOK, Frames, Running, Helping
  <2>2. ASSUME NEW c \in Coroutines, Handed(e, c) PROVE OneCell'
    BY <2>2 DEF Handed, OneCell, OneRunner, TypeOK, Frames, Running, Helping
  <2> QED  BY <1>12, <2>1, <2>2, MoveDoes
<1>13. ASSUME NEW e \in Executors, UnlockCas(e) PROVE OneCell'
  BY <1>13 DEF UnlockCas, OneCell, OneRunner, TypeOK, Frames, Running, Helping
<1>14. ASSUME NEW e \in Executors, Pop(e) PROVE OneCell'
  <2>1. CASE NoneLeft(e)
    BY <2>1 DEF NoneLeft, OneCell, OneRunner, TypeOK, Frames, Running, Helping
  <2>2. ASSUME NEW x \in Cells, Got(e, x) PROVE OneCell'
    BY <2>2 DEF Got, OneCell, OneRunner, TypeOK, Frames, Running, Helping
  <2> QED  BY <1>14, <2>1, <2>2, PopDoes
<1>15. ASSUME NEW e \in Executors, Test(e) PROVE OneCell'
  <2>1. CASE content[ele[e]] # None
    BY <1>15, <2>1 DEF Test, OneCell, OneRunner, TypeOK, Frames, Running, Helping
  <2>2. CASE content[ele[e]] = None
    BY <1>15, <2>2 DEF Test, OneCell, OneRunner, TypeOK, Frames, Running, Helping
  <2> QED  BY <2>1, <2>2
<1>16. ASSUME NEW e \in Executors, Add(e) PROVE OneCell'
  BY <1>16 DEF Add, AddTask, OneCell, OneRunner, TypeOK, Frames, Running, Helping
<1>17. CASE UNCHANGED vars
  BY <1>17 DEF vars, OneCell, OneRunner, TypeOK, Frames, Running, Helping
<1> QED
  BY <1>1, <1>2, <1>3, <1>4, <1>5, <1>6, <1>7, <1>8, <1>9, <1>10, <1>11, <1>12, <1>13, <1>14, <1>15, <1>16, <1>17 DEF Next, Schedule, Lock, Unlock

LEMMA KeepsOneRunner == ASSUME Inv, [Next]_vars PROVE OneRunner'
<1> USE CellFacts DEF Inv, At, Goto, ownVars, coVars
<1>1. ASSUME NEW e \in Executors, Fetch(e) PROVE OneRunner'
  BY <1>1 DEF Fetch, OneRunner, OneCell, TypeOK, Frames, Running, Helping
<1>2. ASSUME NEW e \in Executors, CanResume(e) PROVE OneRunner'
  <2>1. CASE content[task[e]] # None
    <3>1. \A f \in Executors : pc'[f] \in Running => pc[f] \in Running /\ co'[f] = co[f]
      BY <1>2, <2>1 DEF CanResume, TypeOK, Running
    <3> QED  BY <1>2, <2>1, <3>1, NoNewRunner DEF CanResume
  <2>2. CASE content[task[e]] = None
    <3>1. \A f \in Executors : pc'[f] \in Running => pc[f] \in Running /\ co'[f] = co[f]
      BY <1>2, <2>2 DEF CanResume, ToExecutor, TypeOK, Running
    <3> QED  BY <1>2, <2>2, <3>1, NoNewRunner DEF CanResume
  <2> QED  BY <2>1, <2>2
<1>3. ASSUME NEW e \in Executors, ResumeCo(e) PROVE OneRunner'
  <2>1. CASE Wreck
    BY <2>1 DEF Wreck, OneRunner, OneCell, TypeOK, Frames, Running, Helping
  <2>2. ASSUME NEW c \in Coroutines, Resumed(e, c) PROVE OneRunner'
    BY <2>2 DEF Resumed, OneRunner, OneCell, TypeOK, Frames, Running, Helping
  <2> QED  BY <1>3, <2>1, <2>2, ResumeCoDoes
<1>4. ASSUME NEW e \in Executors, Yield(e) PROVE OneRunner'
  BY <1>4 DEF Yield, OneRunner, OneCell, TypeOK, Frames, Running, Helping
<1>5. ASSUME NEW e \in Executors, Requeue(e) PROVE OneRunner'
  BY <1>5 DEF Requeue, AddTask, ToExecutor, OneRunner, OneCell, TypeOK, Frames, Running, Helping
<1>6. ASSUME NEW e \in Executors, Finish(e) PROVE OneRunner'
  BY <1>6 DEF Finish, ToExecutor, OneRunner, OneCell, TypeOK, Frames, Running, Helping
<1>7. ASSUME NEW e \in Executors, CallLock(e) PROVE OneRunner'
  BY <1>7 DEF CallLock, OneRunner, OneCell, TypeOK, Frames, Running, Helping
<1>8. ASSUME NEW e \in Executors, LockCas(e) PROVE OneRunner'
  <2>1. ASSUME NEW c \in Coroutines, Taken(e, c) PROVE OneRunner'
    BY <2>1 DEF Taken, OneRunner, OneCell, TypeOK, Frames, Running, Helping
  <2>2. ASSUME NEW c \in Coroutines, NEW x \in Cells, Helped(e, c, x) PROVE OneRunner'
    BY <2>2 DEF Helped, OneRunner, OneCell, TypeOK, Frames, Running, Helping
  <2> QED  BY <1>8, <2>1, <2>2, LockCasDoes
<1>9. ASSUME NEW e \in Executors, Push(e) PROVE OneRunner'
  <2>1. ASSUME NEW x \in Cells, Shared(e, x) PROVE OneRunner'
    BY <2>1 DEF Shared, OneRunner, OneCell, TypeOK, Frames, Running, Helping
  <2>2. ASSUME NEW x \in Cells, Lost(e, x) PROVE OneRunner'
    BY <2>2 DEF Lost, ToExecutor, OneRunner, OneCell, TypeOK, Frames, Running, Helping
  <2> QED  BY <1>9, <2>1, <2>2, PushDoes
<1>10. ASSUME NEW e \in Executors, HelperCas(e) PROVE OneRunner'
  <2>1. CASE locked
    <3>1. \A f \in Executors : pc'[f] \in Running => pc[f] \in Running /\ co'[f] = co[f]
      BY <1>10, <2>1 DEF HelperCas, ToExecutor, TypeOK, Running
    <3> QED  BY <1>10, <2>1, <3>1, NoNewRunner DEF HelperCas
  <2>2. CASE ~locked
    <3>1. \A f \in Executors : pc'[f] \in Running => pc[f] \in Running /\ co'[f] = co[f]
      BY <1>10, <2>2 DEF HelperCas, TypeOK, Running
    <3> QED  BY <1>10, <2>2, <3>1, NoNewRunner DEF HelperCas
  <2> QED  BY <2>1, <2>2
<1>11. ASSUME NEW e \in Executors, Valid(e) PROVE OneRunner'
  <2>1. CASE content[callerC[e]] # None
    <3>1. \A f \in Executors : pc'[f] \in Running => pc[f] \in Running /\ co'[f] = co[f]
      BY <1>11, <2>1 DEF Valid, TypeOK, Running
    <3> QED  BY <1>11, <2>1, <3>1, NoNewRunner DEF Valid
  <2>2. CASE content[callerC[e]] = None
    <3>1. \A f \in Executors : pc'[f] \in Running => pc[f] \in Running /\ co'[f] = co[f]
      BY <1>11, <2>2 DEF Valid, ToExecutor, TypeOK, Running
    <3> QED  BY <1>11, <2>2, <3>1, NoNewRunner DEF Valid
  <2> QED  BY <2>1, <2>2
<1>12. ASSUME NEW e \in Executors, Move(e) PROVE OneRunner'
  <2>1. CASE Wreck
    BY <2>1 DEF Wreck, OneRunner, OneCell, TypeOK, Frames, Running, Helping
  <2>2. ASSUME NEW c \in Coroutines, Handed(e, c) PROVE OneRunner'
    BY <2>2 DEF Handed, OneRunner, OneCell, TypeOK, Frames, Running, Helping
  <2> QED  BY <1>12, <2>1, <2>2, MoveDoes
<1>13. ASSUME NEW e \in Executors, UnlockCas(e) PROVE OneRunner'
  BY <1>13 DEF UnlockCas, OneRunner, OneCell, TypeOK, Frames, Running, Helping
<1>14. ASSUME NEW e \in Executors, Pop(e) PROVE OneRunner'
  <2>1. CASE NoneLeft(e)
    BY <2>1 DEF NoneLeft, OneRunner, OneCell, TypeOK, Frames, Running, Helping
  <2>2. ASSUME NEW x \in Cells, Got(e, x) PROVE OneRunner'
    BY <2>2 DEF Got, OneRunner, OneCell, TypeOK, Frames, Running, Helping
  <2> QED  BY <1>14, <2>1, <2>2, PopDoes
<1>15. ASSUME NEW e \in Executors, Test(e) PROVE OneRunner'
  <2>1. CASE content[ele[e]] # None
    <3>1. \A f \in Executors : pc'[f] \in Running => pc[f] \in Running /\ co'[f] = co[f]
      BY <1>15, <2>1 DEF Test, TypeOK, Running
    <3> QED  BY <1>15, <2>1, <3>1, NoNewRunner DEF Test
  <2>2. CASE content[ele[e]] = None
    <3>1. \A f \in Executors : pc'[f] \in Running => pc[f] \in Running /\ co'[f] = co[f]
      BY <1>15, <2>2 DEF Test, TypeOK, Running
    <3> QED  BY <1>15, <2>2, <3>1, NoNewRunner DEF Test
  <2> QED  BY <2>1, <2>2
<1>16. ASSUME NEW e \in Executors, Add(e) PROVE OneRunner'
  BY <1>16 DEF Add, AddTask, OneRunner, OneCell, TypeOK, Frames, Running, Helping
<1>17. CASE UNCHANGED vars
  BY <1>17 DEF vars, OneRunner, OneCell, TypeOK, Frames, Running, Helping
<1> QED
  BY <1>1, <1>2, <1>3, <1>4, <1>5, <1>6, <1>7, <1>8, <1>9, <1>10, <1>11, <1>12, <1>13, <1>14, <1>15, <1>16, <1>17 DEF Next, Schedule, Lock, Unlock

LEMMA KeepsQueuedOnce == ASSUME Inv, [Next]_vars PROVE QueuedOnce'
<1> USE CellFacts DEF Inv, At, Goto, ownVars, coVars
<1>1. ASSUME NEW e \in Executors, Fetch(e) PROVE QueuedOnce'
  BY <1>1 DEF Fetch, QueuedOnce, InQueue, TypeOK, Frames
<1>2. ASSUME NEW e \in Executors, CanResume(e) PROVE QueuedOnce'
  <2>1. CASE content[task[e]] # None
    <3>1. \A f \in Executors : task'[f] \in {task[f], None} /\ ele'[f] \in {ele[f], None}
      BY <1>2, <2>1 DEF CanResume, TypeOK
    <3> QED  BY <1>2, <2>1, <3>1, NoNewInLine DEF CanResume
  <2>2. CASE content[task[e]] = None
    <3>1. \A f \in Executors : task'[f] \in {task[f], None} /\ ele'[f] \in {ele[f], None}
      BY <1>2, <2>2 DEF CanResume, ToExecutor, TypeOK
    <3> QED  BY <1>2, <2>2, <3>1, NoNewInLine DEF CanResume
  <2> QED  BY <2>1, <2>2
<1>3. ASSUME NEW e \in Executors, ResumeCo(e) PROVE QueuedOnce'
  <2>1. CASE Wreck
    BY <2>1, NoNewInLine DEF Wreck
  <2>2. ASSUME NEW c \in Coroutines, Resumed(e, c) PROVE QueuedOnce'
    BY <2>2 DEF Resumed, QueuedOnce, InQueue, TypeOK, Frames
  <2> QED  BY <1>3, <2>1, <2>2, ResumeCoDoes
<1>4. ASSUME NEW e \in Executors, Yield(e) PROVE QueuedOnce'
  BY <1>4 DEF Yield, QueuedOnce, InQueue, TypeOK, Frames
<1>5. ASSUME NEW e \in Executors, Requeue(e) PROVE QueuedOnce'
  <2>1. \A x \in Cells : InQueue(x)' <=> InQueue(x)
    BY <1>5 DEF Requeue, AddTask, InQueue
  <2>2. /\ tasks' \subseteq tasks \cup {task[e]} /\ task' = [task EXCEPT ![e] = None]
        /\ UNCHANGED <<waitCos, ele>>
    BY <1>5 DEF Requeue, AddTask, ToExecutor
  <2> QED  BY <2>1, <2>2 DEF QueuedOnce, TypeOK
<1>6. ASSUME NEW e \in Executors, Finish(e) PROVE QueuedOnce'
  BY <1>6 DEF Finish, ToExecutor, QueuedOnce, InQueue, TypeOK, Frames
<1>7. ASSUME NEW e \in Executors, CallLock(e) PROVE QueuedOnce'
  BY <1>7 DEF CallLock, QueuedOnce, InQueue, TypeOK, Frames
<1>8. ASSUME NEW e \in Executors, LockCas(e) PROVE QueuedOnce'
  <2>1. ASSUME NEW c \in Coroutines, Taken(e, c) PROVE QueuedOnce'
    BY <2>1 DEF Taken, QueuedOnce, InQueue, TypeOK, Frames
  <2>2. ASSUME NEW c \in Coroutines, NEW x \in Cells, Helped(e, c, x) PROVE QueuedOnce'
    BY <2>2 DEF Helped, QueuedOnce, InQueue, TypeOK, Frames
  <2> QED  BY <1>8, <2>1, <2>2, LockCasDoes
<1>9. ASSUME NEW e \in Executors, Push(e) PROVE QueuedOnce'
  <2>1. ASSUME NEW x \in Cells, Shared(e, x) PROVE QueuedOnce'
    <3>1. /\ ~InQueue(x) /\ x \notin tasks
          /\ \A f \in Executors : task[f] # x /\ ele[f] # x
      BY <2>1 DEF Shared, Unshared
    <3>2. \A i, j \in 1 .. Len(waitCos') : waitCos'[i] = waitCos'[j] => i = j
      BY <2>1, <3>1 DEF Shared, QueuedOnce, InQueue
    <3> QED  BY <2>1, <3>1, <3>2 DEF Shared, QueuedOnce
  <2>2. ASSUME NEW x \in Cells, Lost(e, x) PROVE QueuedOnce'
    <3>1. UNCHANGED <<waitCos, tasks>>
      BY <2>2 DEF Lost
    <3>2. \A f \in Executors : task'[f] \in {task[f], None} /\ ele'[f] \in {ele[f], None}
      BY <2>2 DEF Lost, ToExecutor, TypeOK
    <3> QED  BY <3>1, <3>2, NoNewInLine
  <2> QED  BY <1>9, <2>1, <2>2, PushDoes
<1>10. ASSUME NEW e \in Executors, HelperCas(e) PROVE QueuedOnce'
  <2>1. CASE locked
    <3>1. \A f \in Executors : task'[f] \in {task[f], None} /\ ele'[f] \in {ele[f], None}
      BY <1>10, <2>1 DEF HelperCas, ToExecutor, TypeOK
    <3> QED  BY <1>10, <2>1, <3>1, NoNewInLine DEF HelperCas
  <2>2. CASE ~locked
    <3>1. \A f \in Executors : task'[f] \in {task[f], None} /\ ele'[f] \in {ele[f], None}
      BY <1>10, <2>2 DEF HelperCas, TypeOK
    <3> QED  BY <1>10, <2>2, <3>1, NoNewInLine DEF HelperCas
  <2> QED  BY <2>1, <2>2
<1>11. ASSUME NEW e \in Executors, Valid(e) PROVE QueuedOnce'
  <2>1. CASE content[callerC[e]] # None
    <3>1. \A f \in Executors : task'[f] \in {task[f], None} /\ ele'[f] \in {ele[f], None}
      BY <1>11, <2>1 DEF Valid, TypeOK
    <3> QED  BY <1>11, <2>1, <3>1, NoNewInLine DEF Valid
  <2>2. CASE content[callerC[e]] = None
    <3>1. \A f \in Executors : task'[f] \in {task[f], None} /\ ele'[f] \in {ele[f], None}
      BY <1>11, <2>2 DEF Valid, ToExecutor, TypeOK
    <3> QED  BY <1>11, <2>2, <3>1, NoNewInLine DEF Valid
  <2> QED  BY <2>1, <2>2
<1>12. ASSUME NEW e \in Executors, Move(e) PROVE QueuedOnce'
  <2>1. CASE Wreck
    BY <2>1, NoNewInLine DEF Wreck
  <2>2. ASSUME NEW c \in Coroutines, Handed(e, c) PROVE QueuedOnce'
    BY <2>2 DEF Handed, QueuedOnce, InQueue, TypeOK, Frames
  <2> QED  BY <1>12, <2>1, <2>2, MoveDoes
<1>13. ASSUME NEW e \in Executors, UnlockCas(e) PROVE QueuedOnce'
  BY <1>13 DEF UnlockCas, QueuedOnce, InQueue, TypeOK, Frames
<1>14. ASSUME NEW e \in Executors, Pop(e) PROVE QueuedOnce'
  <2>1. CASE NoneLeft(e)
    BY <2>1 DEF NoneLeft, QueuedOnce, InQueue, TypeOK, Frames
  <2>2. ASSUME NEW x \in Cells, Got(e, x) PROVE QueuedOnce'
    <3>1. \A i \in 1 .. Len(waitCos') : i + 1 \in 1 .. Len(waitCos) /\ waitCos'[i] = waitCos[i + 1]
      BY <2>2 DEF Got
    <3>2. \A i, j \in 1 .. Len(waitCos') : waitCos'[i] = waitCos'[j] => i = j
      <4> SUFFICES ASSUME NEW i \in 1 .. Len(waitCos'), NEW j \in 1 .. Len(waitCos'),
                          waitCos'[i] = waitCos'[j]
                   PROVE  i = j
        OBVIOUS
      <4>1. i + 1 = j + 1
        BY <3>1 DEF QueuedOnce
      <4> QED  BY <4>1
    <3> QED  BY <2>2, <3>2 DEF Got, QueuedOnce, TypeOK
  <2> QED  BY <1>14, <2>1, <2>2, PopDoes
<1>15. ASSUME NEW e \in Executors, Test(e) PROVE QueuedOnce'
  <2>1. CASE content[ele[e]] # None
    BY <1>15, <2>1 DEF Test, QueuedOnce, InQueue, TypeOK, Frames
  <2>2. CASE content[ele[e]] = None
    <3>1. \A f \in Executors : task'[f] \in {task[f], None} /\ ele'[f] \in {ele[f], None}
      BY <1>15, <2>2 DEF Test, TypeOK
    <3> QED  BY <1>15, <2>2, <3>1, NoNewInLine DEF Test
  <2> QED  BY <2>1, <2>2
<1>16. ASSUME NEW e \in Executors, Add(e) PROVE QueuedOnce'
  <2>1. \A x \in Cells : InQueue(x)' <=> InQueue(x)
    BY <1>16 DEF Add, AddTask, InQueue
  <2>2. /\ tasks' \subseteq tasks \cup {ele[e]} /\ ele' = [ele EXCEPT ![e] = None]
        /\ UNCHANGED <<waitCos, task>>
    BY <1>16 DEF Add, AddTask
  <2> QED  BY <2>1, <2>2 DEF QueuedOnce, TypeOK
<1>17. CASE UNCHANGED vars
  BY <1>17 DEF vars, QueuedOnce, InQueue, TypeOK, Frames
<1> QED
  BY <1>1, <1>2, <1>3, <1>4, <1>5, <1>6, <1>7, <1>8, <1>9, <1>10, <1>11, <1>12, <1>13, <1>14, <1>15, <1>16, <1>17 DEF Next, Schedule, Lock, Unlock

LEMMA KeepsHeldOnce == ASSUME Inv, [Next]_vars PROVE HeldOnce'
<1> USE CellFacts DEF Inv, At, Goto, ownVars, coVars
<1>1. ASSUME NEW e \in Executors, Fetch(e) PROVE HeldOnce'
  BY <1>1 DEF Fetch, HeldOnce, TypeOK, Frames
<1>2. ASSUME NEW e \in Executors, CanResume(e) PROVE HeldOnce'
  <2>1. CASE content[task[e]] # None
    <3>1. \A f \in Executors : task'[f] \in {task[f], None} /\ ele'[f] \in {ele[f], None}
      BY <1>2, <2>1 DEF CanResume, TypeOK
    <3> QED  BY <1>2, <2>1, <3>1, NoNewInLine DEF CanResume
  <2>2. CASE content[task[e]] = None
    <3>1. \A f \in Executors : task'[f] \in {task[f], None} /\ ele'[f] \in {ele[f], None}
      BY <1>2, <2>2 DEF CanResume, ToExecutor, TypeOK
    <3> QED  BY <1>2, <2>2, <3>1, NoNewInLine DEF CanResume
  <2> QED  BY <2>1, <2>2
<1>3. ASSUME NEW e \in Executors, ResumeCo(e) PROVE HeldOnce'
  <2>1. CASE Wreck
    BY <2>1, NoNewInLine DEF Wreck
  <2>2. ASSUME NEW c \in Coroutines, Resumed(e, c) PROVE HeldOnce'
    BY <2>2 DEF Resumed, HeldOnce, TypeOK, Frames
  <2> QED  BY <1>3, <2>1, <2>2, ResumeCoDoes
<1>4. ASSUME NEW e \in Executors, Yield(e) PROVE HeldOnce'
  BY <1>4 DEF Yield, HeldOnce, TypeOK, Frames
<1>5. ASSUME NEW e \in Executors, Requeue(e) PROVE HeldOnce'
  BY <1>5 DEF Requeue, AddTask, ToExecutor, HeldOnce, TypeOK, Frames
<1>6. ASSUME NEW e \in Executors, Finish(e) PROVE HeldOnce'
  BY <1>6 DEF Finish, ToExecutor, HeldOnce, TypeOK, Frames
<1>7. ASSUME NEW e \in Executors, CallLock(e) PROVE HeldOnce'
  BY <1>7 DEF CallLock, HeldOnce, TypeOK, Frames
<1>8. ASSUME NEW e \in Executors, LockCas(e) PROVE HeldOnce'
  <2>1. ASSUME NEW c \in Coroutines, Taken(e, c) PROVE HeldOnce'
    BY <2>1 DEF Taken, HeldOnce, TypeOK, Frames
  <2>2. ASSUME NEW c \in Coroutines, NEW x \in Cells, Helped(e, c, x) PROVE HeldOnce'
    BY <2>2 DEF Helped, HeldOnce, TypeOK, Frames
  <2> QED  BY <1>8, <2>1, <2>2, LockCasDoes
<1>9. ASSUME NEW e \in Executors, Push(e) PROVE HeldOnce'
  <2>1. ASSUME NEW x \in Cells, Shared(e, x) PROVE HeldOnce'
    BY <2>1 DEF Shared, HeldOnce, TypeOK, Frames
  <2>2. ASSUME NEW x \in Cells, Lost(e, x) PROVE HeldOnce'
    BY <2>2 DEF Lost, ToExecutor, HeldOnce, TypeOK, Frames
  <2> QED  BY <1>9, <2>1, <2>2, PushDoes
<1>10. ASSUME NEW e \in Executors, HelperCas(e) PROVE HeldOnce'
  <2>1. CASE locked
    <3>1. \A f \in Executors : task'[f] \in {task[f], None} /\ ele'[f] \in {ele[f], None}
      BY <1>10, <2>1 DEF HelperCas, ToExecutor, TypeOK
    <3> QED  BY <1>10, <2>1, <3>1, NoNewInLine DEF HelperCas
  <2>2. CASE ~locked
    <3>1. \A f \in Executors : task'[f] \in {task[f], None} /\ ele'[f] \in {ele[f], None}
      BY <1>10, <2>2 DEF HelperCas, TypeOK
    <3> QED  BY <1>10, <2>2, <3>1, NoNewInLine DEF HelperCas
  <2> QED  BY <2>1, <2>2
<1>11. ASSUME NEW e \in Executors, Valid(e) PROVE HeldOnce'
  <2>1. CASE content[callerC[e]] # None
    <3>1. \A f \in Executors : task'[f] \in {task[f], None} /\ ele'[f] \in {ele[f], None}
      BY <1>11, <2>1 DEF Valid, TypeOK
    <3> QED  BY <1>11, <2>1, <3>1, NoNewInLine DEF Valid
  <2>2. CASE content[callerC[e]] = None
    <3>1. \A f \in Executors : task'[f] \in {task[f], None} /\ ele'[f] \in {ele[f], None}
      BY <1>11, <2>2 DEF Valid, ToExecutor, TypeOK
    <3> QED  BY <1>11, <2>2, <3>1, NoNewInLine DEF Valid
  <2> QED  BY <2>1, <2>2
<1>12. ASSUME NEW e \in Executors, Move(e) PROVE HeldOnce'
  <2>1. CASE Wreck
    BY <2>1, NoNewInLine DEF Wreck
  <2>2. ASSUME NEW c \in Coroutines, Handed(e, c) PROVE HeldOnce'
    BY <2>2 DEF Handed, HeldOnce, TypeOK, Frames
  <2> QED  BY <1>12, <2>1, <2>2, MoveDoes
<1>13. ASSUME NEW e \in Executors, UnlockCas(e) PROVE HeldOnce'
  BY <1>13 DEF UnlockCas, HeldOnce, TypeOK, Frames
<1>14. ASSUME NEW e \in Executors, Pop(e) PROVE HeldOnce'
  <2>1. CASE NoneLeft(e)
    BY <2>1 DEF NoneLeft, HeldOnce, TypeOK, Frames
  <2>2. ASSUME NEW x \in Cells, Got(e, x) PROVE HeldOnce'
    <3>1. x \notin tasks /\ \A f \in Executors : task[f] # x /\ ele[f] # x
      BY <2>2 DEF Got, QueuedOnce
    <3> QED  BY <2>2, <3>1 DEF Got, HeldOnce, TypeOK
  <2> QED  BY <1>14, <2>1, <2>2, PopDoes
<1>15. ASSUME NEW e \in Executors, Test(e) PROVE HeldOnce'
  <2>1. CASE content[ele[e]] # None
    BY <1>15, <2>1 DEF Test, HeldOnce, TypeOK, Frames
  <2>2. CASE content[ele[e]] = None
    <3>1. \A f \in Executors : task'[f] \in {task[f], None} /\ ele'[f] \in {ele[f], None}
      BY <1>15, <2>2 DEF Test, TypeOK
    <3> QED  BY <1>15, <2>2, <3>1, NoNewInLine DEF Test
  <2> QED  BY <2>1, <2>2
<1>16. ASSUME NEW e \in Executors, Add(e) PROVE HeldOnce'
  BY <1>16 DEF Add, AddTask, HeldOnce, TypeOK, Frames
<1>17. CASE UNCHANGED vars
  BY <1>17 DEF vars, HeldOnce, TypeOK, Frames
<1> QED
  BY <1>1, <1>2, <1>3, <1>4, <1>5, <1>6, <1>7, <1>8, <1>9, <1>10, <1>11, <1>12, <1>13, <1>14, <1>15, <1>16, <1>17 DEF Next, Schedule, Lock, Unlock

LEMMA KeepsUnshared == ASSUME Inv, [Next]_vars PROVE Unshared'
<1> USE CellFacts DEF Inv, At, Goto, ownVars, coVars
<1>1. ASSUME NEW e \in Executors, Fetch(e) PROVE Unshared'
  BY <1>1 DEF Fetch, Unshared, InQueue, TypeOK, Frames
<1>2. ASSUME NEW e \in Executors, CanResume(e) PROVE Unshared'
  <2>1. CASE content[task[e]] # None
    BY <1>2, <2>1 DEF CanResume, Unshared, InQueue, TypeOK, Frames
  <2>2. CASE content[task[e]] = None
    <3>1. /\ UNCHANGED <<content, waitCos, tasks, ele>> /\ pc' = [pc EXCEPT ![e] = "idle"]
          /\ task' = [task EXCEPT ![e] = None] /\ co' = [co EXCEPT ![e] = None]
          /\ callerC' = [callerC EXCEPT ![e] = None]
      BY <1>2, <2>2 DEF CanResume, ToExecutor
    <3> QED  BY <3>1 DEF Unshared, InQueue, TypeOK, Frames, Helping
  <2> QED  BY <2>1, <2>2
<1>3. ASSUME NEW e \in Executors, ResumeCo(e) PROVE Unshared'
  <2>1. CASE Wreck
    BY <2>1 DEF Wreck, Unshared, InQueue, TypeOK, Frames
  <2>2. ASSUME NEW c \in Coroutines, Resumed(e, c) PROVE Unshared'
    BY <2>2 DEF Resumed, Unshared, InQueue, TypeOK, Frames
  <2> QED  BY <1>3, <2>1, <2>2, ResumeCoDoes
<1>4. ASSUME NEW e \in Executors, Yield(e) PROVE Unshared'
  BY <1>4 DEF Yield, Unshared, InQueue, TypeOK, Frames
<1>5. ASSUME NEW e \in Executors, Requeue(e) PROVE Unshared'
  <2>1. /\ pc[e] = "requeue" /\ tasks' \subseteq tasks \cup {task[e]}
        /\ pc' = [pc EXCEPT ![e] = "idle"] /\ task' = [task EXCEPT ![e] = None]
        /\ co' = [co EXCEPT ![e] = None] /\ callerC' = [callerC EXCEPT ![e] = None]
        /\ UNCHANGED <<waitCos, content, ele>>
    BY <1>5 DEF Requeue, AddTask, ToExecutor
  <2>2. \A f \in Executors : pc[f] = "push" => callerC[f] \in Cells /\ callerC[f] # task[e]
    BY DEF Unshared, Frames, Helping
  <2> QED  BY <2>1, <2>2 DEF Unshared, InQueue, TypeOK
<1>6. ASSUME NEW e \in Executors, Finish(e) PROVE Unshared'
  BY <1>6 DEF Finish, ToExecutor, Unshared, InQueue, TypeOK, Frames
<1>7. ASSUME NEW e \in Executors, CallLock(e) PROVE Unshared'
  BY <1>7 DEF CallLock, Unshared, InQueue, TypeOK, Frames
<1>8. ASSUME NEW e \in Executors, LockCas(e) PROVE Unshared'
  <2>1. ASSUME NEW c \in Coroutines, Taken(e, c) PROVE Unshared'
    BY <2>1 DEF Taken, Unshared, InQueue, TypeOK, Frames
  <2>2. ASSUME NEW c \in Coroutines, NEW x \in Cells, Helped(e, c, x) PROVE Unshared'
    <3>1. /\ pc[e] = "lock" /\ co[e] = c /\ pc' = [pc EXCEPT ![e] = "push"]
          /\ ~InQueue(x) /\ x \notin tasks
          /\ \A f \in Executors : task[f] # x /\ callerC[f] # x /\ ele[f] # x
          /\ callerC' = [callerC EXCEPT ![e] = x] /\ content' = [content EXCEPT ![x] = c]
          /\ UNCHANGED <<waitCos, tasks, task, co, ele>>
      BY <2>2 DEF Helped
    <3>2. \A y : InQueue(y)' <=> InQueue(y)
      BY <3>1 DEF InQueue
    <3>3. ASSUME NEW f \in Executors \ {e}, pc'[f] = "push"
          PROVE  /\ pc[f] = "push" /\ callerC'[f] = callerC[f] /\ callerC[f] # x
                 /\ content'[callerC[f]] = content[callerC[f]] /\ co'[f] = co[f]
      BY <3>1, <3>3 DEF TypeOK, Frames, Helping
    <3>4. callerC'[e] = x /\ content'[x] = c /\ co'[e] = c
      BY <3>1 DEF TypeOK
    <3> QED  BY <3>1, <3>2, <3>3, <3>4 DEF Unshared, TypeOK
  <2> QED  BY <1>8, <2>1, <2>2, LockCasDoes
<1>9. ASSUME NEW e \in Executors, Push(e) PROVE Unshared'
  <2>1. ASSUME NEW x \in Cells, Shared(e, x) PROVE Unshared'
    BY <2>1 DEF Shared, Unshared, InQueue, TypeOK, Frames
  <2>2. ASSUME NEW x \in Cells, Lost(e, x) PROVE Unshared'
    BY <2>2 DEF Lost, ToExecutor, Unshared, InQueue, TypeOK, Frames
  <2> QED  BY <1>9, <2>1, <2>2, PushDoes
<1>10. ASSUME NEW e \in Executors, HelperCas(e) PROVE Unshared'
  <2>1. CASE locked
    BY <1>10, <2>1 DEF HelperCas, ToExecutor, Unshared, InQueue, TypeOK, Frames
  <2>2. CASE ~locked
    BY <1>10, <2>2 DEF HelperCas, Unshared, InQueue, TypeOK, Frames
  <2> QED  BY <2>1, <2>2
<1>11. ASSUME NEW e \in Executors, Valid(e) PROVE Unshared'
  <2>1. CASE content[callerC[e]] # None
    BY <1>11, <2>1 DEF Valid, Unshared, InQueue, TypeOK, Frames
  <2>2. CASE content[callerC[e]] = None
    BY <1>11, <2>2 DEF Valid, ToExecutor, Unshared, InQueue, TypeOK, Frames
  <2> QED  BY <2>1, <2>2
<1>12. ASSUME NEW e \in Executors, Move(e) PROVE Unshared'
  <2>1. CASE Wreck
    BY <2>1 DEF Wreck, Unshared, InQueue, TypeOK, Frames
  <2>2. ASSUME NEW c \in Coroutines, Handed(e, c) PROVE Unshared'
    BY <2>2 DEF Handed, Unshared, InQueue, TypeOK, Frames
  <2> QED  BY <1>12, <2>1, <2>2, MoveDoes
<1>13. ASSUME NEW e \in Executors, UnlockCas(e) PROVE Unshared'
  BY <1>13 DEF UnlockCas, Unshared, InQueue, TypeOK, Frames
<1>14. ASSUME NEW e \in Executors, Pop(e) PROVE Unshared'
  <2>1. CASE NoneLeft(e)
    BY <2>1 DEF NoneLeft, Unshared, InQueue, TypeOK, Frames
  <2>2. ASSUME NEW x \in Cells, Got(e, x) PROVE Unshared'
    BY <2>2 DEF Got, Unshared, InQueue, TypeOK, Frames
  <2> QED  BY <1>14, <2>1, <2>2, PopDoes
<1>15. ASSUME NEW e \in Executors, Test(e) PROVE Unshared'
  <2>1. CASE content[ele[e]] # None
    BY <1>15, <2>1 DEF Test, Unshared, InQueue, TypeOK, Frames
  <2>2. CASE content[ele[e]] = None
    BY <1>15, <2>2 DEF Test, Unshared, InQueue, TypeOK, Frames
  <2> QED  BY <2>1, <2>2
<1>16. ASSUME NEW e \in Executors, Add(e) PROVE Unshared'
  <2>1. PICK x \in Cells : ele[e] = x
    BY <1>16 DEF Add, AddTask, Frames
  <2>2. /\ tasks' \subseteq tasks \cup {x} /\ ele' = [ele EXCEPT ![e] = None]
        /\ pc' = [pc EXCEPT ![e] = "run"] /\ UNCHANGED <<waitCos, content, task, co, callerC>>
    BY <1>16, <2>1 DEF Add, AddTask
  <2>3. \A f \in Executors : pc[f] = "push" => callerC[f] \in Cells /\ callerC[f] # x
    BY <2>1 DEF Unshared, Frames, Helping
  <2> QED  BY <2>2, <2>3 DEF Unshared, InQueue, TypeOK
<1>17. CASE UNCHANGED vars
  BY <1>17 DEF vars, Unshared, InQueue, TypeOK, Frames
<1> QED
  BY <1>1, <1>2, <1>3, <1>4, <1>5, <1>6, <1>7, <1>8, <1>9, <1>10, <1>11, <1>12, <1>13, <1>14, <1>15, <1>16, <1>17 DEF Next, Schedule, Lock, Unlock

LEMMA KeepsWanting == ASSUME Inv, [Next]_vars PROVE Wanting'
<1> USE CellFacts DEF Inv, At, Goto, ownVars, coVars
<1>1. ASSUME NEW e \in Executors, Fetch(e) PROVE Wanting'
  BY <1>1 DEF Fetch, Wanting, OneRunner, InQueue, TypeOK, Frames, Running
<1>2. ASSUME NEW e \in Executors, CanResume(e) PROVE Wanting'
  <2>1. CASE content[task[e]] # None
    BY <1>2, <2>1 DEF CanResume, Wanting, OneRunner, InQueue, TypeOK, Frames, Running
  <2>2. CASE content[task[e]] = None
    <3>1. /\ UNCHANGED <<content, waitCos, ele, stage>> /\ pc' = [pc EXCEPT ![e] = "idle"]
          /\ callerC' = [callerC EXCEPT ![e] = None]
      BY <1>2, <2>2 DEF CanResume, ToExecutor
    <3> QED  BY <3>1 DEF Wanting, InQueue, TypeOK
  <2> QED  BY <2>1, <2>2
<1>3. ASSUME NEW e \in Executors, ResumeCo(e) PROVE Wanting'
  <2>1. CASE Wreck
    BY <2>1 DEF Wreck, Wanting, OneRunner, InQueue, TypeOK, Frames, Running
  <2>2. ASSUME NEW c \in Coroutines, Resumed(e, c) PROVE Wanting'
    BY <2>2 DEF Resumed, Wanting, OneRunner, InQueue, TypeOK, Frames, Running
  <2> QED  BY <1>3, <2>1, <2>2, ResumeCoDoes
<1>4. ASSUME NEW e \in Executors, Yield(e) PROVE Wanting'
  <2>1. /\ pc[e] = "run" /\ content' = [content EXCEPT ![task[e]] = co[e]]
        /\ pc' = [pc EXCEPT ![e] = "requeue"] /\ UNCHANGED <<waitCos, ele, stage, callerC>>
    BY <1>4 DEF Yield
  <2>2. /\ task[e] \in Cells /\ ~InQueue(task[e])
        /\ \A f \in Executors : ele[f] # task[e] /\ (pc[f] = "push" => callerC[f] # task[e])
    BY <2>1 DEF Frames, QueuedOnce, HeldOnce, Unshared
  <2> QED  BY <2>1, <2>2 DEF Wanting, InQueue, TypeOK
<1>5. ASSUME NEW e \in Executors, Requeue(e) PROVE Wanting'
  BY <1>5 DEF Requeue, AddTask, ToExecutor, Wanting, OneRunner, InQueue, TypeOK, Frames, Running
<1>6. ASSUME NEW e \in Executors, Finish(e) PROVE Wanting'
  BY <1>6 DEF Finish, ToExecutor, Wanting, OneRunner, InQueue, TypeOK, Frames, Running
<1>7. ASSUME NEW e \in Executors, CallLock(e) PROVE Wanting'
  BY <1>7 DEF CallLock, Wanting, OneRunner, InQueue, TypeOK, Frames, Running
<1>8. ASSUME NEW e \in Executors, LockCas(e) PROVE Wanting'
  <2>1. ASSUME NEW c \in Coroutines, Taken(e, c) PROVE Wanting'
    BY <2>1 DEF Taken, Wanting, OneRunner, InQueue, TypeOK, Frames, Running
  <2>2. ASSUME NEW c \in Coroutines, NEW x \in Cells, Helped(e, c, x) PROVE Wanting'
    BY <2>2 DEF Helped, Wanting, OneRunner, InQueue, TypeOK, Frames, Running
  <2> QED  BY <1>8, <2>1, <2>2, LockCasDoes
<1>9. ASSUME NEW e \in Executors, Push(e) PROVE Wanting'
  <2>1. ASSUME NEW x \in Cells, Shared(e, x) PROVE Wanting'
    <3>1. \A y \in Cells : InQueue(y)' => InQueue(y) \/ (pc[e] = "push" /\ callerC[e] = y)
      BY <2>1 DEF Shared
    <3> QED  BY <2>1, <3>1 DEF Shared, Wanting, TypeOK
  <2>2. ASSUME NEW x \in Cells, Lost(e, x) PROVE Wanting'
    BY <2>2 DEF Lost, ToExecutor, Wanting, OneRunner, InQueue, TypeOK, Frames, Running
  <2> QED  BY <1>9, <2>1, <2>2, PushDoes
<1>10. ASSUME NEW e \in Executors, HelperCas(e) PROVE Wanting'
  <2>1. CASE locked
    BY <1>10, <2>1 DEF HelperCas, ToExecutor, Wanting, OneRunner, InQueue, TypeOK, Frames, Running
  <2>2. CASE ~locked
    BY <1>10, <2>2 DEF HelperCas, Wanting, OneRunner, InQueue, TypeOK, Frames, Running
  <2> QED  BY <2>1, <2>2
<1>11. ASSUME NEW e \in Executors, Valid(e) PROVE Wanting'
  <2>1. CASE content[callerC[e]] # None
    BY <1>11, <2>1 DEF Valid, Wanting, OneRunner, InQueue, TypeOK, Frames, Running
  <2>2. CASE content[callerC[e]] = None
    <3>1. /\ pc[e] = "valid" /\ pc' = [pc EXCEPT ![e] = "idle"]
          /\ callerC' = [callerC EXCEPT ![e] = None]
          /\ UNCHANGED <<waitCos, content, ele, stage>>
      BY <1>11, <2>2 DEF Valid, ToExecutor
    <3>2. \A x \in Cells : InQueue(x)' <=> InQueue(x)
      BY <3>1 DEF InQueue
    <3> QED  BY <3>1, <3>2 DEF Wanting, TypeOK
  <2> QED  BY <2>1, <2>2
<1>12. ASSUME NEW e \in Executors, Move(e) PROVE Wanting'
  <2>1. CASE Wreck
    BY <2>1 DEF Wreck, Wanting, OneRunner, InQueue, TypeOK, Frames, Running
  <2>2. ASSUME NEW c \in Coroutines, Handed(e, c) PROVE Wanting'
    <3>1. \A y \in Cells : content'[y] # None => content'[y] = content[y] /\ content[y] # c
      BY <2>2 DEF Handed, OneCell, TypeOK
    <3> QED  BY <2>2, <3>1 DEF Handed, Wanting, InQueue, TypeOK
  <2> QED  BY <1>12, <2>1, <2>2, MoveDoes
<1>13. ASSUME NEW e \in Executors, UnlockCas(e) PROVE Wanting'
  BY <1>13 DEF UnlockCas, Wanting, OneRunner, InQueue, TypeOK, Frames, Running
<1>14. ASSUME NEW e \in Executors, Pop(e) PROVE Wanting'
  <2>1. CASE NoneLeft(e)
    BY <2>1 DEF NoneLeft, Wanting, OneRunner, InQueue, TypeOK, Frames, Running
  <2>2. ASSUME NEW x \in Cells, Got(e, x) PROVE Wanting'
    BY <2>2 DEF Got, Wanting, OneRunner, InQueue, TypeOK, Frames, Running
  <2> QED  BY <1>14, <2>1, <2>2, PopDoes
<1>15. ASSUME NEW e \in Executors, Test(e) PROVE Wanting'
  <2>1. CASE content[ele[e]] # None
    BY <1>15, <2>1 DEF Test, Wanting, OneRunner, InQueue, TypeOK, Frames, Running
  <2>2. CASE content[ele[e]] = None
    BY <1>15, <2>2 DEF Test, Wanting, OneRunner, InQueue, TypeOK, Frames, Running
  <2> QED  BY <2>1, <2>2
<1>16. ASSUME NEW e \in Executors, Add(e) PROVE Wanting'
  BY <1>16 DEF Add, AddTask, Wanting, OneRunner, InQueue, TypeOK, Frames, Running
<1>17. CASE UNCHANGED vars
  BY <1>17 DEF vars, Wanting, OneRunner, InQueue, TypeOK, Frames, Running
<1> QED
  BY <1>1, <1>2, <1>3, <1>4, <1>5, <1>6, <1>7, <1>8, <1>9, <1>10, <1>11, <1>12, <1>13, <1>14, <1>15, <1>16, <1>17 DEF Next, Schedule, Lock, Unlock

LEMMA KeepsAttended == ASSUME Inv, [Next]_vars PROVE Attended'
<1> USE CellFacts DEF Inv, At, Goto, ownVars, coVars
<1>1. ASSUME NEW e \in Executors, Fetch(e) PROVE Attended'
  BY <1>1 DEF Fetch, Attended, Abandoned, Attending, Scheduled, InQueue, TypeOK, Frames, Running
<1>2. ASSUME NEW e \in Executors, CanResume(e) PROVE Attended'
  <2>1. CASE content[task[e]] # None
    BY <1>2, <2>1 DEF CanResume, Attended, Abandoned, Attending, Scheduled, InQueue, TypeOK, Frames, Running
  <2>2. CASE content[task[e]] = None
    BY <1>2, <2>2 DEF CanResume, ToExecutor, Attended, Abandoned, Attending, Scheduled, InQueue, TypeOK, Frames, Running
  <2> QED  BY <2>1, <2>2
<1>3. ASSUME NEW e \in Executors, ResumeCo(e) PROVE Attended'
  <2>1. CASE Wreck
    BY <2>1 DEF Wreck, Attended, Abandoned, Attending, Scheduled, InQueue, TypeOK, Frames, Running
  <2>2. ASSUME NEW c \in Coroutines, Resumed(e, c) PROVE Attended'
    <3>1. /\ ~InQueue(task[e]) /\ task[e] \notin tasks /\ \A f \in Executors : ele[f] # task[e]
          /\ \A f \in Executors \ {e} : task[f] # task[e]
      BY <2>2 DEF Resumed, QueuedOnce, HeldOnce
    <3>2. \A x \in Cells : InQueue(x)' <=> InQueue(x)
      BY <2>2 DEF Resumed, InQueue
    <3>3. \A f \in Executors : Attending(f) => Attending(f)'
      BY <2>2, <3>1 DEF Resumed, Attending, TypeOK, Frames
    <3>4. \A x \in Cells : Scheduled(x) => Scheduled(x)' \/ Attending(e)'
      BY <2>2, <3>1 DEF Resumed, Scheduled, Attending, TypeOK
    <3>5. Abandoned => Abandoned'
      BY <2>2 DEF Resumed, Abandoned
    <3> QED  BY <2>2, <3>1, <3>2, <3>3, <3>4, <3>5 DEF Resumed, Attended, TypeOK
  <2> QED  BY <1>3, <2>1, <2>2, ResumeCoDoes
<1>4. ASSUME NEW e \in Executors, Yield(e) PROVE Attended'
  <2>1. /\ pc[e] = "run" /\ content' = [content EXCEPT ![task[e]] = co[e]]
        /\ pc' = [pc EXCEPT ![e] = "requeue"]
        /\ UNCHANGED <<locked, wrecked, waitCos, tasks, task, ele, stage, dropped>>
    BY <1>4 DEF Yield
  <2>2. /\ task[e] \in Cells /\ ~InQueue(task[e]) /\ task[e] \notin tasks
        /\ \A f \in Executors : ele[f] # task[e]
        /\ \A f \in Executors \ {e} : task[f] # task[e]
    BY <2>1 DEF Frames, QueuedOnce, HeldOnce
  <2>3. \A x \in Cells : InQueue(x)' <=> InQueue(x)
    BY <2>1 DEF InQueue
  <2>4. \A f \in Executors : Attending(f) => Attending(f)'
    BY <2>1, <2>2 DEF Attending, TypeOK, Frames
  <2>5. \A x \in Cells : Scheduled(x) => Scheduled(x)'
    BY <2>1, <2>2 DEF Scheduled, TypeOK
  <2>6. Abandoned => Abandoned'
    BY <2>1 DEF Abandoned
  <2> QED  BY <2>1, <2>2, <2>3, <2>4, <2>5, <2>6 DEF Attended, TypeOK
<1>5. ASSUME NEW e \in Executors, Requeue(e) PROVE Attended'
  BY <1>5 DEF Requeue, AddTask, ToExecutor, Attended, Abandoned, Attending, Scheduled, InQueue, TypeOK, Frames, Running
<1>6. ASSUME NEW e \in Executors, Finish(e) PROVE Attended'
  <2>1. \A x \in Cells : content[x] # co[e]
    BY <1>6 DEF Finish, OneRunner, Running
  <2>2. /\ pc[e] = "run" /\ stage' = [stage EXCEPT ![co[e]] = "done"] /\ task[e] \in Cells
        /\ stage[co[e]] = "free"
        /\ pc' = [pc EXCEPT ![e] = "idle"] /\ task' = [task EXCEPT ![e] = None]
        /\ UNCHANGED <<locked, wrecked, waitCos, tasks, content, ele, dropped>>
    BY <1>6 DEF Finish, ToExecutor, Frames
  <2>3. \A f \in Executors : Attending(f) => Attending(f)'
    BY <2>2 DEF Attending, TypeOK
  <2>4. \A x \in Cells : Scheduled(x) => Scheduled(x)'
    BY <2>1, <2>2 DEF Scheduled, TypeOK
  <2>5. Abandoned => Abandoned'
    BY <2>2 DEF Abandoned, TypeOK
  <2> QED  BY <2>2, <2>3, <2>4, <2>5 DEF Attended, InQueue
<1>7. ASSUME NEW e \in Executors, CallLock(e) PROVE Attended'
  BY <1>7 DEF CallLock, Attended, Abandoned, Attending, Scheduled, InQueue, TypeOK, Frames, Running
<1>8. ASSUME NEW e \in Executors, LockCas(e) PROVE Attended'
  <2>1. ASSUME NEW c \in Coroutines, Taken(e, c) PROVE Attended'
    BY <2>1 DEF Taken, Attended, Abandoned, Attending, Scheduled, InQueue, TypeOK, Frames, Running
  <2>2. ASSUME NEW c \in Coroutines, NEW x \in Cells, Helped(e, c, x) PROVE Attended'
    BY <2>2 DEF Helped, Attended, Abandoned, Attending, Scheduled, InQueue, TypeOK, Frames, Running
  <2> QED  BY <1>8, <2>1, <2>2, LockCasDoes
<1>9. ASSUME NEW e \in Executors, Push(e) PROVE Attended'
  <2>1. ASSUME NEW x \in Cells, Shared(e, x) PROVE Attended'
    BY <2>1 DEF Shared, Attended, Abandoned, Attending, Scheduled, InQueue, TypeOK, Frames, Running
  <2>2. ASSUME NEW x \in Cells, Lost(e, x) PROVE Attended'
    <3>1. /\ ~InQueue(x) /\ x \notin tasks
          /\ \A f \in Executors : task[f] # x /\ ele[f] # x
      BY <2>2 DEF Lost, Unshared
    <3>2. /\ pc[e] = "push" /\ content' = [content EXCEPT ![x] = None]
          /\ pc' = [pc EXCEPT ![e] = "idle"] /\ task' = [task EXCEPT ![e] = None]
          /\ UNCHANGED <<locked, wrecked, waitCos, tasks, ele, stage, dropped>>
      BY <2>2 DEF Lost, ToExecutor
    <3>3. \A f \in Executors : Attending(f) => Attending(f)'
      BY <3>1, <3>2 DEF Attending, TypeOK, Frames
    <3>4. \A y \in Cells : Scheduled(y) => Scheduled(y)'
      BY <3>1, <3>2 DEF Scheduled, TypeOK
    <3>5. Abandoned => Abandoned'
      BY <3>2 DEF Abandoned
    <3> QED  BY <3>1, <3>2, <3>3, <3>4, <3>5 DEF Attended, InQueue, TypeOK
  <2> QED  BY <1>9, <2>1, <2>2, PushDoes
<1>10. ASSUME NEW e \in Executors, HelperCas(e) PROVE Attended'
  <2>1. CASE locked
    BY <1>10, <2>1 DEF HelperCas, ToExecutor, Attended, Abandoned, Attending, Scheduled, InQueue, TypeOK, Frames, Running
  <2>2. CASE ~locked
    BY <1>10, <2>2 DEF HelperCas, Attended, Abandoned, Attending, Scheduled, InQueue, TypeOK, Frames, Running
  <2> QED  BY <2>1, <2>2
<1>11. ASSUME NEW e \in Executors, Valid(e) PROVE Attended'
  <2>1. CASE content[callerC[e]] # None
    BY <1>11, <2>1 DEF Valid, Attended, Abandoned, Attending, Scheduled, InQueue, TypeOK, Frames, Running
  <2>2. CASE content[callerC[e]] = None
    BY <1>11, <2>2 DEF Valid, ToExecutor, Attended, Abandoned, Attending, Scheduled, InQueue, TypeOK, Frames, Running
  <2> QED  BY <2>1, <2>2
<1>12. ASSUME NEW e \in Executors, Move(e) PROVE Attended'
  <2>1. CASE Wreck
    BY <2>1 DEF Wreck, Attended, Abandoned, Attending, Scheduled, InQueue, TypeOK, Frames, Running
  <2>2. ASSUME NEW c \in Coroutines, Handed(e, c) PROVE Attended'
    BY <2>2 DEF Handed, Attended, Owners, OneOwner, Acquiring
  <2> QED  BY <1>12, <2>1, <2>2, MoveDoes
<1>13. ASSUME NEW e \in Executors, UnlockCas(e) PROVE Attended'
  BY <1>13 DEF UnlockCas, Attended, Abandoned, Attending, Scheduled, InQueue, TypeOK, Frames, Running
<1>14. ASSUME NEW e \in Executors, Pop(e) PROVE Attended'
  <2>1. CASE NoneLeft(e)
    BY <2>1 DEF NoneLeft, Attended, Abandoned, Attending, Scheduled, InQueue, TypeOK, Frames, Running
  <2>2. ASSUME NEW x \in Cells, Got(e, x) PROVE Attended'
    BY <2>2 DEF Got, Attended, Abandoned, Attending, Scheduled, InQueue, TypeOK, Frames, Running
  <2> QED  BY <1>14, <2>1, <2>2, PopDoes
<1>15. ASSUME NEW e \in Executors, Test(e) PROVE Attended'
  <2>1. CASE content[ele[e]] # None
    BY <1>15, <2>1 DEF Test, Attended, Abandoned, Attending, Scheduled, InQueue, TypeOK, Frames, Running
  <2>2. CASE content[ele[e]] = None
    BY <1>15, <2>2 DEF Test, Attended, Abandoned, Attending, Scheduled, InQueue, TypeOK, Frames, Running
  <2> QED  BY <2>1, <2>2
<1>16. ASSUME NEW e \in Executors, Add(e) PROVE Attended'
  <2>1. PICK x \in Cells : ele[e] = x
    BY <1>16 DEF Add, AddTask, Frames
  <2>2. /\ pc[e] = "add" /\ ele' = [ele EXCEPT ![e] = None] /\ pc' = [pc EXCEPT ![e] = "run"]
        /\ UNCHANGED <<locked, wrecked, waitCos, content, task, stage>>
    BY <1>16, <2>1 DEF Add
  <2>3. \/ tasks' = tasks \cup {x} /\ UNCHANGED dropped
        \/ tasks' = tasks /\ dropped' = dropped \cup ({content[x]} \ {None})
    BY <1>16, <2>1 DEF Add, AddTask
  <2>4. Attending(e) => content[x] # None /\ stage[content[x]] = "wants"
    BY <2>1, <2>2 DEF Attending, Wanting
  <2>5. Attending(e) => Scheduled(x)' \/ Abandoned'
    <3>1. CASE tasks' = tasks \cup {x}
      BY <2>2, <2>4, <3>1 DEF Scheduled
    <3>2. CASE dropped' = dropped \cup ({content[x]} \ {None})
      BY <2>2, <2>4, <3>2 DEF Abandoned
    <3> QED  BY <2>3, <3>1, <3>2
  <2>6. \A f \in Executors \ {e} : Attending(f) => Attending(f)'
    BY <2>2 DEF Attending, TypeOK
  <2>7. \A y \in Cells : Scheduled(y) => Scheduled(y)'
    BY <2>2, <2>3 DEF Scheduled, TypeOK
  <2>8. Abandoned => Abandoned'
    BY <2>2, <2>3 DEF Abandoned
  <2> QED  BY <2>2, <2>5, <2>6, <2>7, <2>8 DEF Attended, InQueue
<1>17. CASE UNCHANGED vars
  BY <1>17 DEF vars, Attended, Abandoned, Attending, Scheduled, InQueue, TypeOK, Frames, Running
<1> QED
  BY <1>1, <1>2, <1>3, <1>4, <1>5, <1>6, <1>7, <1>8, <1>9, <1>10, <1>11, <1>12, <1>13, <1>14, <1>15, <1>16, <1>17 DEF Next, Schedule, Lock, Unlock

\* The initial tasks are cells, and hold the coroutines, each of them once.
LEMMA OrderFacts ==
  /\ DOMAIN Order \subseteq Cells
  /\ \A x \in DOMAIN Order : Order[x] \in Coroutines
  /\ \A x, y \in DOMAIN Order : Order[x] = Order[y] => x = y
<1> DEFINE n == Cardinality(Coroutines)
<1>1. n \in Nat /\ Cardinality(Executors) \in Nat
  BY ActorsAssumption, FS_CardinalityType
<1>2. Order \in Bijection(1 .. n, Coroutines)
  BY ActorsAssumption, FS_CardinalityType DEF Order, ExistsBijection
<1>3. /\ Order \in [1 .. n -> Coroutines]
      /\ \A x, y \in 1 .. n : Order[x] = Order[y] => x = y
  BY <1>2 DEF Bijection, Injection, IsInjective
<1>4. 1 .. n \subseteq Cells
  BY <1>1, BoundsAssumption DEF Cells
<1> QED  BY <1>3, <1>4

LEMMA InvInit == Init => Inv
<1> SUFFICES ASSUME Init PROVE Inv
  OBVIOUS
<1> USE CellFacts DEF Init
<1>1. /\ waitCos = <<>> /\ Len(waitCos) = 0 /\ \A x \in Cells : ~InQueue(x)
      /\ tasks \subseteq Cells
      /\ \A x \in Cells : content[x] \in Coroutines \cup {None}
      /\ content \in [Cells -> Coroutines \cup {None}]
  BY OrderFacts DEF InQueue
<1>2. TypeOK
  <2>1. waitCos \in Seq(Cells) /\ Len(waitCos) <= WaitSize
    BY <1>1, BoundsAssumption
  <2>2. budget \in [Coroutines -> Nat]
    BY BoundsAssumption
  <2>3. {locked, wrecked, leaked} \subseteq BOOLEAN
    OBVIOUS
  <2>4. /\ pc \in [Executors -> Locations] /\ task \in [Executors -> Cells \cup {None}]
        /\ co \in [Executors -> Coroutines \cup {None}]
        /\ callerC \in [Executors -> Cells \cup {None}]
        /\ ele \in [Executors -> Cells \cup {None}]
    BY DEF Locations
  <2> QED  BY <1>1, <2>1, <2>2, <2>3, <2>4 DEF TypeOK
<1>3. Frames /\ Owners /\ OneRunner /\ Unshared
  BY DEF Frames, Running, Helping, Owners, OneOwner, Acquiring, MutualExclusion, LockHasOwner,
         OneRunner, Unshared
<1>4. OneCell
  BY OrderFacts DEF OneCell
<1>5. QueuedOnce /\ HeldOnce
  BY <1>1 DEF QueuedOnce, HeldOnce
<1>6. Wanting /\ Attended
  BY <1>1 DEF Wanting, Attended
<1> QED  BY <1>2, <1>3, <1>4, <1>5, <1>6 DEF Inv

LEMMA InvHolds == Spec => []Inv
<1>1. Inv /\ [Next]_vars => Inv'
  BY KeepsTypeOK, KeepsFrames, KeepsOwners, KeepsOneCell, KeepsOneRunner, KeepsQueuedOnce,
     KeepsHeldOnce, KeepsUnshared, KeepsWanting, KeepsAttended DEF Inv
<1> QED  BY InvInit, <1>1, PTL DEF Spec

\* The state of the lock, of the wait queue and of each executor's thread is
\* what the code's types allow; the wait queue keeps to its size.
THEOREM TypeCorrect == Spec => []TypeOK
<1>1. Inv => TypeOK
  BY DEF Inv
<1> QED  BY <1>1, InvHolds, PTL

\* lock() returns to one coroutine at a time, for any number of executors.
THEOREM Exclusion == Spec => []MutualExclusion
<1>1. Inv => MutualExclusion
  BY DEF Inv, Owners
<1> QED  BY <1>1, InvHolds, PTL

\* m_lock_acquired is never left set with nobody to clear it, except where
\* lock() logs that its caller_c has become invalid.
THEOREM HasOwner == Spec => []LockHasOwner
<1>1. Inv => LockHasOwner
  BY DEF Inv, Owners
<1> QED  BY <1>1, InvHolds, PTL

\* No wakeup is lost: with the flag clear and a coroutine in m_wait_cos, some
\* unlocker or some coroutine at a compare_exchange has still to look.
THEOREM NobodyStranded == Spec => []NoStrandedWaiter
<1>1. ASSUME Inv PROVE NoStrandedWaiter
  <2>1. \A x \in Cells : Waits(x) => InQueue(x) /\ content[x] # None
    <3>1. DOMAIN waitCos = 1 .. Len(waitCos)
      BY <1>1 DEF Inv, TypeOK
    <3> QED  BY <3>1 DEF Waits, InQueue
  <2>2. ASSUME NEW e \in Executors, Attending(e)
        PROVE  pc[e] \in {"pop", "test", "add", "lock", "push", "cas"}
    BY <2>2 DEF Attending
  <2>3. ASSUME NEW x \in Cells, Scheduled(x)
        PROVE  /\ x \in tasks \cup {task[e] : e \in {f \in Executors : pc[f] \in {"check", "resume"}}}
               /\ content[x] # None /\ stage[content[x]] = "wants"
    BY <2>3 DEF Scheduled
  <2> QED  BY <1>1, <2>1, <2>2, <2>3 DEF Inv, Attended, Abandoned, NoStrandedWaiter
<1> QED  BY <1>1, InvHolds, PTL

==============================================================================
