--------------------------- MODULE CorJoin_proofs ---------------------------
(***************************************************************************)
(* Proofs about join(): the continuation of a joiner is never resumed      *)
(* twice, no joiner is left in the wait queue, and join() implements a     *)
(* latch, for any number of executors and joiners and any wait queue.      *)
(***************************************************************************)
EXTENDS CorJoin, TLAPS

\* The executor runs the coroutine itself, or is about to share it.
Running == {"run", "look", "pop", "test", "add"}
Holding == Running \cup {"push"}
Helping == {"again", "valid", "move"}

JoinCell(c) == <<c, "join">>
OwnCell(c)  == <<c, "own">>
InQueue(x)  == \E i \in 1 .. Len(waitCos) : waitCos[i] = x

\* Someone else can get at the continuation that join() made for c.
Shared(c) ==
    \/ InQueue(JoinCell(c)) \/ ele = JoinCell(c) \/ JoinCell(c) \in tasks
    \/ \E e \in Executors : task[e] = JoinCell(c) \/ (pc[e] \in Helping /\ co[e] = c)

\* What an executor's place says about the coroutine it has.
Frames ==
    \A e \in Executors :
        /\ pc[e] # "idle" => task[e] \in Cells
        /\ pc[e] \notin {"idle", "check", "resume", "requeue"} => co[e] = task[e][1]
        /\ pc[e] \in {"look", "push"} \cup Helping => co[e] # Target
        /\ pc[e] \in {"pop", "test", "add"} => co[e] = Target
        /\ pc[e] \in {"test", "add"} => ele \in Cells
        /\ pc[e] = "run" => phase[co[e]] # "joining"
        /\ pc[e] \in {"look", "push"} => phase[co[e]] = "joining"

\* A cell holds its own coroutine, and not while that runs or is in another
\* cell; a joiner that waits is not in the cell it was created with.
Single ==
    /\ \A x \in Cells : content[x] \in {None, x[1]}
    /\ \A c \in Coroutines :
        /\ content[OwnCell(c)] = None \/ content[JoinCell(c)] = None
        /\ phase[c] = "joining" => content[OwnCell(c)] = None
    /\ \A e \in Executors : pc[e] \in Running =>
        content[OwnCell(co[e])] = None /\ content[JoinCell(co[e])] = None
    /\ \A e, f \in Executors :
        pc[e] \in Holding /\ pc[f] \in Holding /\ co[e] = co[f] => e = f

\* A continuation is shared once, by the helper.
SharedOnce ==
    \A c \in Coroutines : Shared(c) =>
        /\ phase[c] # "before"
        /\ \A e \in Executors : pc[e] \in {"look", "push"} => co[e] # c

\* What only happens after the coroutine has returned.
AfterStop ==
    /\ stopped => started
    /\ phase[Target] = "done" => stopped
    /\ \A c \in Coroutines : (ele = JoinCell(c) \/ JoinCell(c) \in tasks) => stopped
    /\ \A e \in Executors :
        /\ \A c \in Coroutines : task[e] = JoinCell(c) => stopped
        /\ pc[e] \in {"pop", "test", "add", "valid", "move"} => stopped
        /\ pc[e] \in Running /\ co[e] = Target => started

\* A continuation is in line once, and not both in the wait queue and beyond.
QueuedOnce ==
    /\ \A i, j \in 1 .. Len(waitCos) : waitCos[i] = waitCos[j] => i = j
    /\ \A i \in 1 .. Len(waitCos) :
        /\ waitCos[i] # ele /\ waitCos[i] \notin tasks
        /\ \A e \in Executors : task[e] # waitCos[i]

\* NoStrandedJoiner, also after the model has stopped.
Attended ==
    phase[Target] = "done" =>
        \A i \in 1 .. Len(waitCos) : content[waitCos[i]] # None =>
            \E e \in Executors : pc[e] \in Helping /\ JoinCell(co[e]) = waitCos[i]

Inv == TypeOK /\ Frames /\ Single /\ SharedOnce /\ AfterStop /\ QueuedOnce /\ Attended

-----------------------------------------------------------------------------
\* What cells are made of; their structure matters nowhere else.
LEMMA CellFacts ==
    /\ None \notin Cells /\ None \notin Coroutines /\ Target \in Coroutines
    /\ \A c \in Coroutines :
        /\ OwnCell(c) \in Cells /\ OwnCell(c)[1] = c
        /\ JoinCell(c) \in Cells /\ JoinCell(c)[1] = c
    /\ \A c, d \in Coroutines : OwnCell(c) # JoinCell(d) /\ (c # d => JoinCell(c) # JoinCell(d))
    /\ \A x \in Cells : x[1] \in Coroutines /\ x \in {OwnCell(x[1]), JoinCell(x[1])}
    /\ \A e \in Executors : CallerC(e) = JoinCell(co[e])
BY NamesAssumption DEF Cells, Coroutines, OwnCell, JoinCell, CallerC

\* What Append and Tail do to the wait queue.
LEMMA Appended ==
    ASSUME NEW q \in Seq(Cells), NEW x \in Cells
    PROVE  /\ Append(q, x) \in Seq(Cells) /\ Len(Append(q, x)) = Len(q) + 1
           /\ Len(q) \in Nat
           /\ Append(q, x)[Len(q) + 1] = x
           /\ \A i \in 1 .. Len(q) : Append(q, x)[i] = q[i]
OBVIOUS

LEMMA Popped ==
    ASSUME NEW q \in Seq(Cells), q # <<>>
    PROVE  /\ Head(q) = q[1] /\ Head(q) \in Cells /\ Tail(q) \in Seq(Cells)
           /\ Len(q) \in Nat \ {0} /\ Len(Tail(q)) = Len(q) - 1
           /\ \A i \in 1 .. Len(q) - 1 : Tail(q)[i] = q[i + 1]
OBVIOUS

LEMMA UnmovedKeeps ==
    ASSUME Inv, wrecked' \in BOOLEAN,
           UNCHANGED <<started, stopped, waitCos, tasks, content, ownVars, phase, budget, dropped>>
    PROVE  Inv'
<1> USE DEF Inv, ownVars
<1>1. TypeOK' BY DEF TypeOK
<1>2. Frames' BY DEF Frames
<1>3. Single' BY DEF Single
<1>4. SharedOnce' BY DEF SharedOnce, Shared, InQueue
<1>5. AfterStop' BY DEF AfterStop
<1>6. QueuedOnce' BY DEF QueuedOnce
<1>7. Attended' BY DEF Attended
<1> QED BY <1>1, <1>2, <1>3, <1>4, <1>5, <1>6, <1>7

LEMMA FetchKeeps == ASSUME Inv, NEW e \in Executors, Fetch(e) PROVE Inv'
<1> USE DEF Inv, At, Goto, Becomes, ToExecutor, Fetch
<1>1. TypeOK' BY DEF TypeOK, Locations
<1>2. Frames' BY DEF TypeOK, Frames, Helping
<1>3. Single' BY DEF TypeOK, Single, Running, Holding
<1>4. SharedOnce' BY DEF TypeOK, SharedOnce, Shared, InQueue, Helping
<1>5. AfterStop' BY DEF TypeOK, AfterStop, Running
<1>6. QueuedOnce' BY DEF QueuedOnce
<1>7. Attended' BY DEF TypeOK, Attended, Helping
<1> QED BY <1>1, <1>2, <1>3, <1>4, <1>5, <1>6, <1>7

LEMMA CanResumeKeeps == ASSUME Inv, NEW e \in Executors, CanResume(e) PROVE Inv'
<1> USE DEF Inv, At, Goto, Becomes, ToExecutor, CanResume
<1>1. CASE content[task[e]] # None
    <2>1. TypeOK' BY <1>1 DEF TypeOK, Locations
    <2>2. Frames' BY <1>1 DEF TypeOK, Frames, Helping
    <2>3. Single' BY <1>1 DEF TypeOK, Single, Running, Holding
    <2>4. SharedOnce' BY <1>1 DEF TypeOK, SharedOnce, Shared, InQueue, Helping
    <2>5. AfterStop' BY <1>1 DEF TypeOK, AfterStop, Running
    <2>6. QueuedOnce' BY <1>1 DEF QueuedOnce
    <2>7. Attended' BY <1>1 DEF TypeOK, Attended, Helping
    <2> QED BY <2>1, <2>2, <2>3, <2>4, <2>5, <2>6, <2>7
<1>2. CASE content[task[e]] = None
    <2>1. TypeOK' BY <1>2 DEF TypeOK, Locations
    <2>2. Frames' BY <1>2 DEF TypeOK, Frames, Helping
    <2>3. Single' BY <1>2 DEF TypeOK, Single, Running, Holding
    <2>4. SharedOnce' BY <1>2, CellFacts DEF TypeOK, SharedOnce, Shared, InQueue, Helping
    <2>5. AfterStop' BY <1>2, CellFacts DEF TypeOK, AfterStop, Running
    <2>6. QueuedOnce' BY <1>2, CellFacts DEF TypeOK, QueuedOnce, Frames
    <2>7. Attended' BY <1>2 DEF TypeOK, Attended, Helping
    <2> QED BY <2>1, <2>2, <2>3, <2>4, <2>5, <2>6, <2>7
<1> QED BY <1>1, <1>2

LEMMA ResumeCoKeeps == ASSUME Inv, NEW e \in Executors, ResumeCo(e) PROVE Inv'
<1> USE DEF Inv, At, Goto
<1>1. CASE Wreck BY <1>1, UnmovedKeeps DEF Wreck, TypeOK
<1>2. CASE ~Wreck
    <2> DEFINE c == content[task[e]]
    <2>1. /\ pc[e] = "resume" /\ task[e] \in Cells
          /\ c \in Coroutines /\ c = task[e][1] /\ content[task[e]] = c
        BY <1>2, CellFacts DEF ResumeCo, TypeOK, Frames, Single
    <2>2. /\ pc' = [pc EXCEPT ![e] = "run"]
          /\ co' = [co EXCEPT ![e] = c]
          /\ started' = (started \/ c = Target)
          /\ phase' = [phase EXCEPT ![c] = IF phase[c] = "joining" THEN "through" ELSE phase[c]]
          /\ content' = [content EXCEPT ![task[e]] = None]
          /\ UNCHANGED <<stopped, waitCos, tasks, task, ele, budget, dropped, wrecked>>
        BY <1>2 DEF ResumeCo
    <2>3. task[e] \in {OwnCell(c), JoinCell(c)} BY <2>1, CellFacts
    <2>4. \A f \in Executors : pc[f] \in Running => co[f] # c
        BY <2>1, <2>3, CellFacts DEF Single, TypeOK
    <2>5. \A f \in Executors : pc[f] \in {"look", "push"} => co[f] # c
        BY <2>1, <2>3, CellFacts DEF Single, Frames, SharedOnce, Shared, TypeOK
    <2> HIDE DEF c
    <2>6. TypeOK' BY <2>1, <2>2 DEF TypeOK, Locations
    <2>7. Frames' BY <2>1, <2>2, <2>5 DEF TypeOK, Frames, Helping
    <2>8. Single'
        <3>1. (\A x \in Cells : content[x] \in {None, x[1]})'
            BY <2>1, <2>2 DEF Single, TypeOK
        <3>2. \A d \in Coroutines : (content[OwnCell(d)] = None \/ content[JoinCell(d)] = None)'
            BY <2>1, <2>2, CellFacts DEF Single, TypeOK
        <3>3. \A d \in Coroutines : (phase[d] = "joining" => content[OwnCell(d)] = None)'
            BY <2>1, <2>2, CellFacts DEF Single, TypeOK
        <3>4. content'[OwnCell(c)] = None /\ content'[JoinCell(c)] = None
            BY <2>1, <2>2, <2>3, CellFacts DEF Single, TypeOK
        <3>5. \A f \in Executors : pc'[f] \in Running =>
                  content'[OwnCell(co'[f])] = None /\ content'[JoinCell(co'[f])] = None
            BY <2>1, <2>2, <3>4 DEF Single, TypeOK, Running
        <3>6. \A f \in Executors : pc[f] \in Holding => co[f] # c
            BY <2>4, <2>5 DEF Holding
        <3>7. \A f, g \in Executors :
                  pc'[f] \in Holding /\ pc'[g] \in Holding /\ co'[f] = co'[g] => f = g
            BY <2>1, <2>2, <3>6 DEF Single, TypeOK
        <3> QED BY <3>1, <3>2, <3>3, <3>5, <3>7 DEF Single
    <2>9. SharedOnce' BY <2>1, <2>2, <2>5 DEF TypeOK, SharedOnce, Shared, InQueue, Helping
    <2>10. AfterStop'
        <3>1. (started => started') /\ (c = Target => started') BY <2>2
        <3> QED BY <2>1, <2>2, <3>1 DEF TypeOK, AfterStop, Running
    <2>11. QueuedOnce' BY <2>2 DEF QueuedOnce
    <2>12. Attended'
        <3>1. \A f \in Executors : pc[f] \in Helping => pc'[f] \in Helping /\ co'[f] = co[f]
            BY <2>1, <2>2 DEF TypeOK, Helping
        <3>2. phase'[Target] = "done" => phase[Target] = "done"
            BY <2>1, <2>2, CellFacts DEF TypeOK
        <3>3. \A x \in Cells : content'[x] # None => content[x] # None
            BY <2>1, <2>2 DEF TypeOK
        <3> QED BY <2>2, <3>1, <3>2, <3>3 DEF TypeOK, Attended
    <2> QED BY <2>6, <2>7, <2>8, <2>9, <2>10, <2>11, <2>12
<1> QED BY <1>1, <1>2

LEMMA YieldKeeps == ASSUME Inv, NEW e \in Executors, Yield(e) PROVE Inv'
<1> USE DEF Inv, At, Goto, Becomes, ToExecutor, Yield
<1>1. TypeOK' BY CellFacts, BoundsAssumption DEF TypeOK, Locations, Frames, Single
<1>2. Frames' BY DEF TypeOK, Frames, Helping
<1>3. Single' BY CellFacts DEF TypeOK, Frames, Single, Running, Holding, Helping
<1>4. SharedOnce' BY DEF TypeOK, SharedOnce, Shared, InQueue, Helping
<1>5. AfterStop' BY DEF TypeOK, AfterStop, Running
<1>6. QueuedOnce' BY DEF QueuedOnce
<1>7. Attended' BY CellFacts DEF TypeOK, Frames, AfterStop, QueuedOnce, Attended, Running, Helping
<1> QED BY <1>1, <1>2, <1>3, <1>4, <1>5, <1>6, <1>7

LEMMA RequeueKeeps == ASSUME Inv, NEW e \in Executors, Requeue(e) PROVE Inv'
<1> USE DEF Inv, At, Goto, Becomes, ToExecutor, Requeue, AddTask
<1>1. TypeOK' BY CellFacts DEF TypeOK, Locations, Frames
<1>2. Frames' BY DEF TypeOK, Frames, Helping
<1>3. Single' BY DEF TypeOK, Single, Running, Holding
<1>4. SharedOnce' BY CellFacts DEF TypeOK, SharedOnce, Shared, InQueue, Helping
<1>5. AfterStop' BY CellFacts DEF TypeOK, AfterStop, Running
<1>6. QueuedOnce' BY CellFacts DEF TypeOK, QueuedOnce
<1>7. Attended' BY DEF TypeOK, Attended, Helping
<1> QED BY <1>1, <1>2, <1>3, <1>4, <1>5, <1>6, <1>7

LEMMA FinishKeeps == ASSUME Inv, NEW e \in Executors, Finish(e) PROVE Inv'
<1> USE DEF Inv, At, Goto, Becomes, ToExecutor, Finish
<1>1. TypeOK' BY DEF TypeOK, Locations
<1>2. Frames' BY DEF TypeOK, Frames, Helping
<1>3. Single' BY DEF TypeOK, Single, Running, Holding
<1>4. SharedOnce' BY CellFacts DEF TypeOK, SharedOnce, Shared, InQueue, Helping
<1>5. AfterStop' BY CellFacts DEF TypeOK, AfterStop, Running
<1>6. QueuedOnce' BY CellFacts DEF TypeOK, QueuedOnce
<1>7. Attended' BY DEF TypeOK, Attended, Helping
<1> QED BY <1>1, <1>2, <1>3, <1>4, <1>5, <1>6, <1>7

LEMMA CallJoinKeeps == ASSUME Inv, NEW e \in Executors, CallJoin(e) PROVE Inv'
<1> USE DEF Inv, At, Goto, Becomes, ToExecutor, CallJoin
<1>1. CASE started
    <2>1. TypeOK' BY <1>1 DEF TypeOK, Locations
    <2>2. Frames' BY <1>1, CellFacts DEF TypeOK, Frames, Helping, Single, Running, Holding
    <2>3. Single' BY <1>1 DEF TypeOK, Single, Running, Holding
    <2>4. SharedOnce' BY <1>1 DEF TypeOK, SharedOnce, Shared, InQueue, Helping
    <2>5. AfterStop' BY <1>1, CellFacts DEF TypeOK, AfterStop, Running
    <2>6. QueuedOnce' BY <1>1 DEF QueuedOnce
    <2>7. Attended' BY <1>1, CellFacts DEF TypeOK, Attended, Helping
    <2> QED BY <2>1, <2>2, <2>3, <2>4, <2>5, <2>6, <2>7
<1>2. CASE ~started
    <2>1. TypeOK' BY <1>2 DEF TypeOK, Locations
    <2>2. Frames' BY <1>2, CellFacts DEF TypeOK, Frames, Helping
    <2>3. Single' BY <1>2 DEF TypeOK, Single, Running, Holding
    <2>4. SharedOnce' BY <1>2 DEF TypeOK, SharedOnce, Shared, InQueue, Helping
    <2>5. AfterStop' BY <1>2, CellFacts DEF TypeOK, AfterStop, Running
    <2>6. QueuedOnce' BY <1>2 DEF QueuedOnce
    <2>7. Attended' BY <1>2, CellFacts DEF TypeOK, Attended, Helping
    <2> QED BY <2>1, <2>2, <2>3, <2>4, <2>5, <2>6, <2>7
<1> QED BY <1>1, <1>2

LEMMA LookKeeps == ASSUME Inv, NEW e \in Executors, Look(e) PROVE Inv'
<1> USE DEF Inv, At, Goto, Becomes
<1> DEFINE c == co[e]
<1>1. /\ pc[e] = "look" /\ c \in Coroutines /\ c # Target /\ c = task[e][1] /\ task[e] \in Cells
      /\ phase[c] = "joining" /\ CallerC(e) = JoinCell(c) /\ JoinCell(c) \in Cells
      /\ content[OwnCell(c)] = None /\ content[JoinCell(c)] = None
    BY CellFacts DEF Look, TypeOK, Frames, Single, Running
<1>2. \A f \in Executors : pc[f] \in Holding /\ co[f] = c => f = e
    BY <1>1 DEF Single, Holding, Running
<1>3. CASE stopped
    <2>1. /\ phase' = [phase EXCEPT ![c] = "through"]
          /\ pc' = [pc EXCEPT ![e] = "run"]
          /\ UNCHANGED <<started, stopped, waitCos, tasks, content, task, co, ele, budget, dropped, wrecked>>
        BY <1>3 DEF Look
    <2>2. TypeOK' BY <1>1, <2>1 DEF TypeOK, Locations
    <2>3. Frames' BY <1>1, <1>2, <2>1 DEF TypeOK, Frames, Holding, Running, Helping
    <2>4. Single' BY <1>1, <2>1 DEF TypeOK, Single, Running, Holding
    <2>5. SharedOnce' BY <1>1, <2>1 DEF TypeOK, SharedOnce, Shared, InQueue, Helping
    <2>6. AfterStop' BY <1>1, <1>3, <2>1 DEF TypeOK, AfterStop, Running
    <2>7. QueuedOnce' BY <2>1 DEF QueuedOnce
    <2> HIDE DEF c
    <2>8. Attended'
        <3>1. \A f \in Executors : pc[f] \in Helping => pc'[f] \in Helping
            BY <1>1, <2>1 DEF TypeOK, Helping
        <3>2. phase'[Target] = "done" => phase[Target] = "done"
            BY <1>1, <2>1, CellFacts DEF TypeOK
        <3> QED BY <2>1, <3>1, <3>2 DEF Attended
    <2> QED BY <2>2, <2>3, <2>4, <2>5, <2>6, <2>7, <2>8
<1>4. CASE ~stopped
    <2>1. /\ content' = [content EXCEPT ![JoinCell(c)] = c]
          /\ pc' = [pc EXCEPT ![e] = "push"]
          /\ UNCHANGED <<started, stopped, waitCos, tasks, task, co, ele, phase, budget, dropped, wrecked>>
        BY <1>1, <1>4 DEF Look
    <2>2. TypeOK' BY <1>1, <2>1 DEF TypeOK, Locations
    <2>3. Frames' BY <1>1, <2>1 DEF TypeOK, Frames, Helping
    <2>4. Single'
        <3>1. \A f \in Executors : pc'[f] \in Running => pc[f] \in Running /\ f # e
            BY <2>1 DEF TypeOK, Running
        <3>2. \A f \in Executors : pc[f] \in Running => co[f] \in Coroutines
            BY CellFacts DEF Frames, Running
        <3> HIDE DEF c
        <3>3. \A f \in Executors : pc'[f] \in Running => co[f] # c
            BY <1>2, <3>1 DEF Holding
        <3>4. \A f \in Executors : pc'[f] \in Holding => pc[f] \in Holding
            BY <1>1, <2>1 DEF TypeOK, Holding, Running
        <3> QED BY <1>1, <2>1, <3>1, <3>2, <3>3, <3>4, CellFacts DEF TypeOK, Single
    <2>5. SharedOnce' BY <1>1, <2>1 DEF TypeOK, SharedOnce, Shared, InQueue, Helping
    <2>6. AfterStop' BY <1>1, <2>1 DEF TypeOK, AfterStop, Running
    <2>7. QueuedOnce' BY <2>1 DEF QueuedOnce
    <2>8. Attended' BY <1>1, <1>4, <2>1 DEF Attended, AfterStop
    <2> QED BY <2>2, <2>3, <2>4, <2>5, <2>6, <2>7, <2>8
<1> QED BY <1>3, <1>4

LEMMA PushKeeps == ASSUME Inv, NEW e \in Executors, Push(e) PROVE Inv'
<1> USE DEF Inv, At, Goto, Becomes, ToExecutor
<1> DEFINE c == co[e]
<1>1. /\ pc[e] = "push" /\ c \in Coroutines /\ c # Target
      /\ phase[c] = "joining" /\ CallerC(e) = JoinCell(c) /\ JoinCell(c) \in Cells
    BY CellFacts DEF Push, TypeOK, Frames
<1>2. \A f \in Executors : pc[f] \in Holding /\ co[f] = c => f = e
    BY <1>1 DEF Single, Holding
<1>3. ~Shared(c) BY <1>1 DEF SharedOnce
<1>4. CASE Len(waitCos) < WaitSize
    <2>1. /\ waitCos' = Append(waitCos, JoinCell(c))
          /\ pc' = [pc EXCEPT ![e] = "again"]
          /\ UNCHANGED <<content, task, co, phase, started, stopped, tasks, ele, budget, dropped, wrecked>>
        BY <1>1, <1>4, BoundsAssumption DEF Push, TypeOK
    <2> HIDE DEF c
    <2>2. /\ waitCos' \in Seq(Cells) /\ Len(waitCos') = Len(waitCos) + 1 /\ Len(waitCos) \in Nat
          /\ waitCos'[Len(waitCos) + 1] = JoinCell(c)
          /\ \A i \in 1 .. Len(waitCos) : waitCos'[i] = waitCos[i]
        BY <1>1, <2>1, Appended DEF TypeOK
    <2>3. TypeOK' BY <1>1, <1>4, <2>1, <2>2, BoundsAssumption DEF TypeOK, Locations
    <2>4. Frames' BY <1>1, <2>1 DEF TypeOK, Frames, Helping, c
    <2>5. Single' BY <1>1, <2>1 DEF TypeOK, Single, Running, Holding
    <2>6. SharedOnce'
        <3>1. \A d \in Coroutines : Shared(d)' => d = c \/ Shared(d)
            BY <1>1, <2>1, <2>2, CellFacts DEF TypeOK, Shared, InQueue, Helping, c
        <3>2. \A f \in Executors : pc'[f] \in {"look", "push"} => pc[f] \in Holding /\ f # e
            BY <1>1, <2>1 DEF TypeOK, Holding, Running
        <3>3. \A f \in Executors : pc'[f] \in {"look", "push"} => pc[f] \in {"look", "push"} /\ co'[f] # c
            BY <1>2, <2>1, <3>2 DEF TypeOK
        <3> QED BY <1>1, <2>1, <3>1, <3>3 DEF SharedOnce
    <2>7. AfterStop' BY <1>1, <2>1 DEF TypeOK, AfterStop, Running
    <2>8. QueuedOnce'
        <3>1. \A i \in 1 .. Len(waitCos) : waitCos[i] # JoinCell(c)
            BY <1>3 DEF Shared, InQueue
        <3>2. ele # JoinCell(c) /\ JoinCell(c) \notin tasks
              /\ \A f \in Executors : task[f] # JoinCell(c)
            BY <1>3 DEF Shared
        <3> QED BY <2>1, <2>2, <3>1, <3>2 DEF QueuedOnce
    <2>9. Attended'
        <3>1. pc'[e] \in Helping /\ JoinCell(co'[e]) = JoinCell(c)
            BY <2>1 DEF TypeOK, Helping, c
        <3>2. \A f \in Executors : pc[f] \in Helping => pc'[f] \in Helping /\ co'[f] = co[f]
            BY <2>1 DEF TypeOK, Helping
        <3> QED BY <2>1, <2>2, <3>1, <3>2 DEF Attended
    <2> QED BY <2>3, <2>4, <2>5, <2>6, <2>7, <2>8, <2>9
<1>5. CASE Len(waitCos) >= WaitSize
    <2>1. /\ phase' = [phase EXCEPT ![c] = "destroyed"]
          /\ content' = [content EXCEPT ![JoinCell(c)] = None]
          /\ pc' = [pc EXCEPT ![e] = "idle"]
          /\ task' = [task EXCEPT ![e] = None]
          /\ co' = [co EXCEPT ![e] = None]
          /\ UNCHANGED <<waitCos, started, stopped, tasks, ele, budget, dropped, wrecked>>
        BY <1>1, <1>5, BoundsAssumption DEF Push, TypeOK
    <2> HIDE DEF c
    <2>2. TypeOK' BY <1>1, <2>1 DEF TypeOK, Locations
    <2>3. Frames' BY <1>1, <1>2, <2>1, CellFacts DEF TypeOK, Frames, Holding, Running, Helping
    <2>4. Single' BY <1>1, <2>1, CellFacts DEF TypeOK, Single, Running, Holding
    <2>5. SharedOnce' BY <1>1, <2>1, CellFacts DEF TypeOK, SharedOnce, Shared, InQueue, Helping
    <2>6. AfterStop' BY <1>1, <2>1, CellFacts DEF TypeOK, AfterStop, Running
    <2>7. QueuedOnce' BY <1>1, <2>1, CellFacts DEF TypeOK, QueuedOnce
    <2>8. Attended' BY <1>1, <2>1, CellFacts DEF TypeOK, Attended, Helping
    <2> QED BY <2>2, <2>3, <2>4, <2>5, <2>6, <2>7, <2>8
<1> QED BY <1>4, <1>5, BoundsAssumption DEF TypeOK

LEMMA AgainKeeps == ASSUME Inv, NEW e \in Executors, Again(e) PROVE Inv'
<1> USE DEF Inv, At, Goto, Becomes, ToExecutor, Again
<1>1. CASE stopped
    <2>1. TypeOK' BY <1>1 DEF TypeOK, Locations
    <2>2. Frames' BY <1>1 DEF TypeOK, Frames, Helping
    <2>3. Single' BY <1>1 DEF TypeOK, Single, Running, Holding
    <2>4. SharedOnce' BY <1>1 DEF TypeOK, SharedOnce, Shared, InQueue, Helping
    <2>5. AfterStop' BY <1>1 DEF TypeOK, AfterStop, Running
    <2>6. QueuedOnce' BY <1>1 DEF QueuedOnce
    <2>7. Attended' BY <1>1 DEF TypeOK, Attended, Helping
    <2> QED BY <2>1, <2>2, <2>3, <2>4, <2>5, <2>6, <2>7
<1>2. CASE ~stopped
    <2>1. TypeOK' BY <1>2 DEF TypeOK, Locations
    <2>2. Frames' BY <1>2 DEF TypeOK, Frames, Helping
    <2>3. Single' BY <1>2 DEF TypeOK, Single, Running, Holding
    <2>4. SharedOnce' BY <1>2, CellFacts DEF TypeOK, SharedOnce, Shared, InQueue, Helping
    <2>5. AfterStop' BY <1>2, CellFacts DEF TypeOK, AfterStop, Running
    <2>6. QueuedOnce' BY <1>2, CellFacts DEF TypeOK, QueuedOnce, Frames
    <2>7. Attended' BY <1>2, CellFacts DEF TypeOK, Frames, AfterStop, QueuedOnce, Attended, Running, Helping
    <2> QED BY <2>1, <2>2, <2>3, <2>4, <2>5, <2>6, <2>7
<1> QED BY <1>1, <1>2

LEMMA ValidKeeps == ASSUME Inv, NEW e \in Executors, Valid(e) PROVE Inv'
<1> USE DEF Inv, At, Goto, ToExecutor
<1>1. pc[e] = "valid" /\ UNCHANGED <<started, stopped, waitCos, tasks, content, ele, phase, budget, dropped, wrecked>>
    BY DEF Valid
<1>2. CASE pc' = [pc EXCEPT ![e] = "move"] /\ UNCHANGED <<task, co>>
    <2>1. TypeOK' BY <1>1, <1>2 DEF TypeOK, Locations
    <2>2. Frames' BY <1>1, <1>2 DEF TypeOK, Frames, Helping
    <2>3. Single' BY <1>1, <1>2 DEF TypeOK, Single, Running, Holding
    <2>4. SharedOnce' BY <1>1, <1>2 DEF TypeOK, SharedOnce, Shared, InQueue, Helping
    <2>5. AfterStop' BY <1>1, <1>2 DEF TypeOK, AfterStop, Running
    <2>6. QueuedOnce' BY <1>1, <1>2 DEF QueuedOnce
    <2>7. Attended' BY <1>1, <1>2 DEF TypeOK, Attended, Helping
    <2> QED BY <2>1, <2>2, <2>3, <2>4, <2>5, <2>6, <2>7
<1>3. CASE content[CallerC(e)] = None /\ ToExecutor(e)
    <2>1. TypeOK' BY <1>1, <1>3 DEF TypeOK, Locations
    <2>2. Frames' BY <1>1, <1>3 DEF TypeOK, Frames, Helping
    <2>3. Single' BY <1>1, <1>3 DEF TypeOK, Single, Running, Holding
    <2>4. SharedOnce' BY <1>1, <1>3, CellFacts DEF TypeOK, SharedOnce, Shared, InQueue, Helping
    <2>5. AfterStop' BY <1>1, <1>3, CellFacts DEF TypeOK, AfterStop, Running
    <2>6. QueuedOnce' BY <1>1, <1>3, CellFacts DEF TypeOK, QueuedOnce
    <2>7. Attended' BY <1>1, <1>3, CellFacts DEF TypeOK, Attended, Helping
    <2> QED BY <2>1, <2>2, <2>3, <2>4, <2>5, <2>6, <2>7
<1> QED BY <1>2, <1>3 DEF Valid

LEMMA MoveKeeps == ASSUME Inv, NEW e \in Executors, Move(e) PROVE Inv'
<1> USE DEF Inv, At, Goto, Becomes
<1>1. CASE Wreck BY <1>1, UnmovedKeeps DEF Wreck, TypeOK
<1>2. CASE ~Wreck
    <2> DEFINE c == co[e]
    <2>1. /\ pc[e] = "move" /\ c \in Coroutines /\ c # Target /\ c = task[e][1] /\ task[e] \in Cells
          /\ CallerC(e) = JoinCell(c) /\ JoinCell(c) \in Cells
        BY CellFacts DEF Move, TypeOK, Frames, Helping
    <2>2. content[JoinCell(c)] # None /\ phase[c] = "joining"
        BY <1>2, <2>1 DEF Move
    <2>3. /\ content' = [content EXCEPT ![JoinCell(c)] = None]
          /\ phase' = [phase EXCEPT ![c] = "through"]
          /\ pc' = [pc EXCEPT ![e] = "run"]
          /\ dropped' = dropped \ {c}
          /\ UNCHANGED <<started, stopped, waitCos, tasks, task, co, ele, budget, wrecked>>
        BY <1>2, <2>1 DEF Move
    <2>4. Shared(c) BY <2>1 DEF Shared, Helping
    <2>5. \A f \in Executors : pc[f] \in Holding => co[f] # c
        BY <2>1, <2>2, <2>4 DEF Single, SharedOnce, Holding, Running
    <2>6. content[OwnCell(c)] = None BY <2>1, <2>2 DEF Single
    <2>7. TypeOK' BY <2>1, <2>3 DEF TypeOK, Locations
    <2>8. Frames' BY <2>1, <2>3, <2>5 DEF TypeOK, Frames, Holding, Running, Helping
    <2>9. Single'
        <3> HIDE DEF c
        <3>1. (\A x \in Cells : content[x] \in {None, x[1]})'
            BY <2>1, <2>3 DEF Single, TypeOK
        <3>2. \A d \in Coroutines : (content[OwnCell(d)] = None \/ content[JoinCell(d)] = None)'
            BY <2>1, <2>3, CellFacts DEF Single, TypeOK
        <3>3. \A d \in Coroutines : (phase[d] = "joining" => content[OwnCell(d)] = None)'
            BY <2>1, <2>3, CellFacts DEF Single, TypeOK
        <3>4. content'[OwnCell(c)] = None /\ content'[JoinCell(c)] = None
            BY <2>1, <2>3, <2>6, CellFacts DEF TypeOK
        <3>5. \A f \in Executors : f # e /\ pc'[f] \in Running =>
                  content'[OwnCell(co'[f])] = None /\ content'[JoinCell(co'[f])] = None
            <4> SUFFICES ASSUME NEW f \in Executors, f # e, pc'[f] \in Running
                         PROVE  content'[OwnCell(co'[f])] = None /\ content'[JoinCell(co'[f])] = None
                OBVIOUS
            <4>1. pc[f] \in Running /\ co'[f] = co[f] BY <2>1, <2>3 DEF TypeOK
            <4>2. content[OwnCell(co[f])] = None /\ content[JoinCell(co[f])] = None
                BY <4>1 DEF Single
            <4>3. co[f] \in Coroutines BY <4>1, CellFacts DEF Frames, TypeOK, Running
            <4> QED BY <2>1, <2>3, <4>1, <4>2, <4>3, CellFacts DEF TypeOK
        <3>6. \A f \in Executors : pc'[f] \in Running =>
                  content'[OwnCell(co'[f])] = None /\ content'[JoinCell(co'[f])] = None
            BY <2>3, <3>4, <3>5 DEF c
        <3>7. \A f, g \in Executors :
                  pc'[f] \in Holding /\ pc'[g] \in Holding /\ co'[f] = co'[g] => f = g
            BY <2>1, <2>3, <2>5 DEF Single, TypeOK, c
        <3> QED BY <3>1, <3>2, <3>3, <3>6, <3>7 DEF Single
    <2>10. SharedOnce' BY <2>1, <2>3, <2>5 DEF TypeOK, SharedOnce, Shared, InQueue, Helping, Holding, Running
    <2>11. AfterStop' BY <2>1, <2>3 DEF TypeOK, AfterStop, Running
    <2>12. QueuedOnce' BY <2>3 DEF QueuedOnce
    <2>13. Attended'
        <3>1. \A x \in Cells : content'[x] # None => content[x] # None /\ x # JoinCell(c)
            BY <2>1, <2>3 DEF TypeOK
        <3>2. \A f \in Executors : pc[f] \in Helping /\ JoinCell(co[f]) # JoinCell(c) =>
                  pc'[f] \in Helping /\ co'[f] = co[f]
            BY <2>1, <2>3 DEF TypeOK
        <3>3. phase'[Target] = phase[Target] BY <2>1, <2>3, CellFacts DEF TypeOK
        <3>4. \A i \in 1 .. Len(waitCos) : waitCos[i] \in Cells BY DEF TypeOK
        <3> QED BY <2>3, <3>1, <3>2, <3>3, <3>4 DEF Attended
    <2> QED BY <2>7, <2>8, <2>9, <2>10, <2>11, <2>12, <2>13
<1> QED BY <1>1, <1>2

LEMMA StopKeeps == ASSUME Inv, NEW e \in Executors, Stop(e) PROVE Inv'
<1> USE DEF Inv, At, Goto, Becomes, ToExecutor, Stop
<1>1. TypeOK' BY DEF TypeOK, Locations
<1>2. Frames' BY DEF TypeOK, Frames, Helping
<1>3. Single' BY DEF TypeOK, Single, Running, Holding
<1>4. SharedOnce' BY DEF TypeOK, SharedOnce, Shared, InQueue, Helping
<1>5. AfterStop' BY DEF TypeOK, AfterStop, Running
<1>6. QueuedOnce' BY DEF QueuedOnce
<1>7. Attended' BY DEF TypeOK, Attended, Helping
<1> QED BY <1>1, <1>2, <1>3, <1>4, <1>5, <1>6, <1>7

LEMMA PopKeeps == ASSUME Inv, NEW e \in Executors, Pop(e) PROVE Inv'
<1> USE DEF Inv, At, Goto, Becomes, ToExecutor
<1>1. pc[e] = "pop" /\ co[e] = Target /\ stopped /\ task[e] \in Cells
    BY DEF Pop, Frames, AfterStop
<1>2. CASE waitCos # <<>>
    <2>1. /\ ele' = Head(waitCos) /\ waitCos' = Tail(waitCos)
          /\ pc' = [pc EXCEPT ![e] = "test"]
          /\ UNCHANGED <<task, co, phase, started, stopped, tasks, content, budget, dropped, wrecked>>
        BY <1>2 DEF Pop
    <2>2. /\ ele' = waitCos[1] /\ ele' \in Cells /\ waitCos' \in Seq(Cells)
          /\ Len(waitCos) \in Nat \ {0} /\ Len(waitCos') = Len(waitCos) - 1
          /\ \A i \in 1 .. Len(waitCos') : waitCos'[i] = waitCos[i + 1] /\ i + 1 \in 1 .. Len(waitCos)
        BY <1>2, <2>1, Popped DEF TypeOK
    <2>3. TypeOK' BY <1>1, <2>1, <2>2, BoundsAssumption DEF TypeOK, Locations
    <2>4. Frames' BY <1>1, <2>1, <2>2 DEF TypeOK, Frames, Helping
    <2>5. Single' BY <1>1, <2>1 DEF TypeOK, Single, Running, Holding
    <2>6. SharedOnce'
        <3>1. \A x : InQueue(x)' \/ ele' = x => InQueue(x) BY <2>2 DEF InQueue
        <3>2. \A f \in Executors : /\ pc'[f] \in Helping => pc[f] \in Helping
                                   /\ pc'[f] \in {"look", "push"} => pc[f] \in {"look", "push"}
            BY <1>1, <2>1 DEF TypeOK, Helping
        <3>3. \A d \in Coroutines : Shared(d)' => Shared(d)
            BY <2>1, <3>1, <3>2 DEF Shared
        <3> QED BY <2>1, <3>2, <3>3 DEF SharedOnce
    <2>7. AfterStop' BY <1>1, <2>1, CellFacts DEF TypeOK, AfterStop, Running
    <2>8. QueuedOnce'
        <3>1. \A i \in 1 .. Len(waitCos') : waitCos'[i] # ele'
            BY <2>2 DEF QueuedOnce
        <3> QED BY <2>1, <2>2, <3>1 DEF QueuedOnce
    <2>9. Attended'
        <3>1. \A f \in Executors : pc[f] \in Helping => pc'[f] \in Helping
            BY <1>1, <2>1 DEF TypeOK, Helping
        <3> QED BY <2>1, <2>2, <3>1 DEF Attended
    <2> QED BY <2>3, <2>4, <2>5, <2>6, <2>7, <2>8, <2>9
<1>3. CASE waitCos = <<>>
    <2>1. /\ phase' = [phase EXCEPT ![Target] = "done"]
          /\ pc' = [pc EXCEPT ![e] = "idle"]
          /\ task' = [task EXCEPT ![e] = None]
          /\ co' = [co EXCEPT ![e] = None]
          /\ UNCHANGED <<waitCos, ele, started, stopped, tasks, content, budget, dropped, wrecked>>
        BY <1>3 DEF Pop
    <2>2. Len(waitCos) = 0 BY <1>3
    <2>3. TypeOK' BY <1>1, <2>1, CellFacts DEF TypeOK, Locations
    <2>4. Frames' BY <1>1, <2>1, CellFacts DEF TypeOK, Frames, Single, Holding, Running, Helping
    <2>5. Single' BY <1>1, <2>1, CellFacts DEF TypeOK, Single, Running, Holding
    <2>6. SharedOnce' BY <1>1, <2>1, CellFacts DEF TypeOK, SharedOnce, Shared, InQueue, Helping
    <2>7. AfterStop' BY <1>1, <2>1, CellFacts DEF TypeOK, AfterStop, Running
    <2>8. QueuedOnce' BY <2>1, <2>2 DEF QueuedOnce
    <2>9. Attended' BY <2>1, <2>2 DEF Attended
    <2> QED BY <2>3, <2>4, <2>5, <2>6, <2>7, <2>8, <2>9
<1> QED BY <1>2, <1>3

LEMMA TestKeeps == ASSUME Inv, NEW e \in Executors, Test(e) PROVE Inv'
<1> USE DEF Inv, At, Goto, Becomes, ToExecutor, Test
<1>1. TypeOK' BY DEF TypeOK, Locations
<1>2. Frames' BY DEF TypeOK, Frames, Helping
<1>3. Single' BY DEF TypeOK, Single, Running, Holding
<1>4. SharedOnce' BY DEF TypeOK, SharedOnce, Shared, InQueue, Helping
<1>5. AfterStop' BY DEF TypeOK, AfterStop, Running
<1>6. QueuedOnce' BY DEF QueuedOnce
<1>7. Attended' BY DEF TypeOK, Attended, Helping
<1> QED BY <1>1, <1>2, <1>3, <1>4, <1>5, <1>6, <1>7

LEMMA AddKeeps == ASSUME Inv, NEW e \in Executors, Add(e) PROVE Inv'
<1> USE DEF Inv, At, Goto, Becomes, ToExecutor, Add, AddTask
<1>1. TypeOK' BY CellFacts DEF TypeOK, Locations, Frames
<1>2. Frames' BY DEF TypeOK, Frames, Helping
<1>3. Single' BY DEF TypeOK, Single, Running, Holding
<1>4. SharedOnce' BY DEF TypeOK, SharedOnce, Shared, InQueue, Helping
<1>5. AfterStop' BY DEF TypeOK, AfterStop, Running
<1>6. QueuedOnce' BY DEF QueuedOnce
<1>7. Attended' BY DEF TypeOK, Attended, Helping
<1> QED BY <1>1, <1>2, <1>3, <1>4, <1>5, <1>6, <1>7

-----------------------------------------------------------------------------
LEMMA InitInv == Init => Inv
<1> SUFFICES ASSUME Init PROVE Inv OBVIOUS
<1> USE DEF Init
<1>1. TypeOK
    <2>1. waitCos \in Seq(Cells) /\ Len(waitCos) <= WaitSize /\ budget \in 0 .. Budget
        BY BoundsAssumption
    <2>2. tasks \subseteq Cells /\ content \in [Cells -> Coroutines \cup {None}]
        BY DEF Cells
    <2>3. /\ pc \in [Executors -> Locations]
          /\ task \in [Executors -> Cells \cup {None}] /\ co \in [Executors -> Coroutines \cup {None}]
        BY DEF Locations
    <2> QED BY <2>1, <2>2, <2>3 DEF TypeOK
<1>2. Frames
    <2>1. ASSUME NEW e \in Executors PROVE pc[e] = "idle"
        OBVIOUS
    <2> HIDE DEF Init
    <2> QED BY <2>1, Zenon DEF Frames, Helping
<1>3. Single BY CellFacts DEF Single, Cells, OwnCell, JoinCell, Running, Holding
<1>4. SharedOnce BY CellFacts DEF SharedOnce, Shared, InQueue, Helping, Cells, JoinCell
<1>5. AfterStop BY CellFacts DEF AfterStop, Running, Cells, JoinCell
<1>6. QueuedOnce BY DEF QueuedOnce
<1>7. Attended BY CellFacts DEF Attended
<1> QED BY <1>1, <1>2, <1>3, <1>4, <1>5, <1>6, <1>7 DEF Inv

LEMMA StepInv == Inv /\ [Next]_vars => Inv'
<1> SUFFICES ASSUME Inv, [Next]_vars PROVE Inv' OBVIOUS
<1>1. CASE UNCHANGED vars BY <1>1, UnmovedKeeps DEF vars, Inv, TypeOK
<1>2. ASSUME NEW e \in Executors, Schedule(e) PROVE Inv'
    BY <1>2, FetchKeeps, CanResumeKeeps, ResumeCoKeeps, YieldKeeps, RequeueKeeps, FinishKeeps
    DEF Schedule
<1>3. ASSUME NEW e \in Executors, Join(e) PROVE Inv'
    BY <1>3, CallJoinKeeps, LookKeeps, PushKeeps, AgainKeeps, ValidKeeps, MoveKeeps DEF Join
<1>4. ASSUME NEW e \in Executors, Complete(e) PROVE Inv'
    BY <1>4, StopKeeps, PopKeeps, TestKeeps, AddKeeps DEF Complete
<1> QED BY <1>1, <1>2, <1>3, <1>4 DEF Next

LEMMA Invariance == Spec => []Inv
BY InitInv, StepInv, PTL DEF Spec

-----------------------------------------------------------------------------
\* Type correctness of join(): in particular the wait queue keeps its bound.
THEOREM TypeCorrect == Spec => []TypeOK
<1>1. Inv => TypeOK BY DEF Inv
<1> QED BY <1>1, Invariance, PTL

\* However the helper of a joiner and the end of the coroutine interleave, a
\* coroutine that runs has no second continuation that anyone could resume.
THEOREM ResumedOnce == Spec => []OneContinuation
<1>1. Inv => OneContinuation
    <2> SUFFICES ASSUME Inv PROVE OneContinuation OBVIOUS
    <2> USE DEF Inv
    <2>1. \A x, y \in Cells : content[x] # None /\ content[x] = content[y] => x = y
        BY CellFacts DEF Single
    <2>2. ASSUME NEW e \in Executors, pc[e] = "run", NEW x \in Cells
          PROVE  content[x] # co[e]
        <3>1. co[e] \in Coroutines BY <2>2, CellFacts DEF Frames
        <3>2. content[OwnCell(co[e])] = None /\ content[JoinCell(co[e])] = None
            BY <2>2 DEF Single, Running
        <3> QED BY <3>1, <3>2, CellFacts DEF Single
    <2>3. \A e, f \in Executors : pc[e] = "run" /\ pc[f] = "run" /\ co[e] = co[f] => e = f
        BY DEF Single, Holding, Running
    <2> QED BY <2>1, <2>2, <2>3 DEF OneContinuation
<1> QED BY <1>1, Invariance, PTL

\* A joiner that is still in the wait queue when the coroutine has emptied it
\* and gone is not forgotten: its helper is about to look at m_co_stopped.
THEOREM NobodyStranded == Spec => []NoStrandedJoiner
<1>1. Inv => NoStrandedJoiner
    <2> SUFFICES ASSUME Inv, phase[Target] = "done",
                        NEW i \in DOMAIN waitCos, content[waitCos[i]] # None
                 PROVE  \E e \in Executors : pc[e] \in Helping /\ CallerC(e) = waitCos[i]
        BY DEF NoStrandedJoiner, Helping
    <2>1. i \in 1 .. Len(waitCos) BY DEF Inv, TypeOK
    <2> QED BY <2>1, CellFacts DEF Inv, Attended
<1> QED BY <1>1, Invariance, PTL

-----------------------------------------------------------------------------
(* The refinement: what Latch calls its state, and its steps.              *)

LatchNow == IF stopped THEN "open" ELSE IF started THEN "closed" ELSE "new"
Role(p)  == CASE p = "joining"             -> "waiting"
              [] p \in {"through", "done"} -> "through"
              [] p = "destroyed"           -> "lost"
              [] OTHER                     -> "before"
Roles    == [j \in Joiners |-> Role(phase[j])]

LEMMA LatchInit == Init => Promise!Init
BY CellFacts DEF Init, Promise!Init, Coroutines

\* What the steps of Latch are in terms of LatchNow and Roles.
LEMMA LatchSteps ==
    /\ UNCHANGED <<LatchNow, Roles>> => UNCHANGED Promise!vars
    /\ LatchNow = "new" /\ LatchNow' = "closed" /\ UNCHANGED Roles => Promise!Next
    /\ LatchNow = "closed" /\ LatchNow' = "open" /\ UNCHANGED Roles => Promise!Next
BY DEF LatchNow, Roles, Role, Promise!vars, Promise!Next, Promise!Close, Promise!Open

LEMMA JoinerSteps ==
    ASSUME NEW j \in Joiners, UNCHANGED LatchNow, NEW r, Roles' = [Roles EXCEPT ![j] = r],
           \/ LatchNow = "new"  /\ Roles[j] = "before"  /\ r = "through"
           \/ LatchNow # "new"  /\ Roles[j] = "before"  /\ r = "waiting"
           \/ LatchNow = "open" /\ Roles[j] = "waiting" /\ r = "through"
           \/ Roles[j] = "waiting" /\ r = "lost"
    PROVE  Promise!Next
BY DEF LatchNow, Roles, Role, Promise!Next, Promise!Early, Promise!Wait, Promise!Pass,
       Promise!Lose, Promise!Step

LEMMA RoleMoves ==
    ASSUME Inv, NEW c \in Coroutines, NEW p, phase' = [phase EXCEPT ![c] = p]
    PROVE  /\ c \in Joiners => Roles' = [Roles EXCEPT ![c] = Role(p)] /\ Roles[c] = Role(phase[c])
           /\ c \notin Joiners \/ Role(p) = Role(phase[c]) => UNCHANGED Roles
BY CellFacts DEF Inv, TypeOK, Roles, Coroutines

LEMMA LatchStep == Inv /\ [Next]_vars => [Promise!Next]_(Promise!vars)
<1> SUFFICES ASSUME Inv, [Next]_vars PROVE [Promise!Next]_(Promise!vars) OBVIOUS
<1>1. UNCHANGED <<started, stopped, phase>> => UNCHANGED Promise!vars
    BY LatchSteps DEF LatchNow, Roles
<1>2. CASE UNCHANGED vars BY <1>1, <1>2 DEF vars
<1>3. ASSUME NEW e \in Executors, Schedule(e) PROVE [Promise!Next]_(Promise!vars)
    <2>1. CASE Fetch(e) \/ CanResume(e) \/ Yield(e) \/ Requeue(e)
        BY <1>1, <2>1 DEF Fetch, CanResume, Yield, Requeue
    <2>2. CASE ResumeCo(e)
        <3> DEFINE c == content[task[e]]
        <3>1. CASE Wreck BY <1>1, <3>1 DEF Wreck
        <3>2. CASE ~Wreck
            <4>1. /\ pc[e] = "resume" /\ task[e] \in Cells /\ c = task[e][1] /\ c \in Coroutines
                  /\ content[task[e]] = c
                BY <2>2, <3>2, CellFacts DEF ResumeCo, At, Inv, TypeOK, Frames, Single
            <4>2. /\ phase' = [phase EXCEPT ![c] = IF phase[c] = "joining" THEN "through" ELSE phase[c]]
                  /\ started' = (started \/ c = Target)
                  /\ stopped' = stopped
                BY <2>2, <3>2 DEF ResumeCo
            <4> HIDE DEF c
            <4>3. CASE c = Target
                <5>1. UNCHANGED Roles BY <4>1, <4>2, <4>3, RoleMoves, NamesAssumption
                <5>2. started' BY <4>2, <4>3
                <5>3. stopped => started BY DEF Inv, AfterStop
                <5> QED BY <4>2, <5>1, <5>2, <5>3, LatchSteps DEF LatchNow
            <4>4. CASE c # Target /\ phase[c] = "joining"
                <5>1. task[e] = JoinCell(c)
                    BY <4>1, <4>4, CellFacts DEF Inv, Single
                <5>2. stopped BY <4>1, <5>1 DEF Inv, AfterStop
                <5>3. c \in Joiners BY <4>1, <4>4 DEF Coroutines
                <5>4. LatchNow = "open" /\ UNCHANGED LatchNow BY <4>2, <5>2 DEF LatchNow
                <5>5. phase' = [phase EXCEPT ![c] = "through"] BY <4>2, <4>4
                <5>6. Roles[c] = "waiting" /\ Roles' = [Roles EXCEPT ![c] = "through"]
                    BY <4>1, <4>4, <5>3, <5>5, RoleMoves DEF Role
                <5> QED BY <5>3, <5>4, <5>6, JoinerSteps
            <4>5. CASE c # Target /\ phase[c] # "joining"
                <5>1. UNCHANGED Roles BY <4>1, <4>2, <4>5, RoleMoves
                <5>2. started \in BOOLEAN BY DEF Inv, TypeOK
                <5>3. UNCHANGED LatchNow BY <4>2, <4>5, <5>2 DEF LatchNow
                <5> QED BY <5>1, <5>3, LatchSteps
            <4> QED BY <4>3, <4>4, <4>5
        <3> QED BY <3>1, <3>2
    <2>3. CASE Finish(e)
        <3>1. /\ co[e] \in Coroutines /\ phase[co[e]] = "through"
              /\ phase' = [phase EXCEPT ![co[e]] = "done"]
              /\ UNCHANGED <<started, stopped>>
            BY <2>3, CellFacts DEF Finish, At, Becomes, Inv, Frames
        <3>2. Role("done") = Role(phase[co[e]]) BY <3>1 DEF Role
        <3>3. UNCHANGED Roles BY <3>1, <3>2, RoleMoves
        <3> QED BY <3>1, <3>3, LatchSteps DEF LatchNow
    <2> QED BY <1>3, <2>1, <2>2, <2>3 DEF Schedule
<1>4. ASSUME NEW e \in Executors, Join(e) PROVE [Promise!Next]_(Promise!vars)
    <2> DEFINE c == co[e]
    <2>0. /\ c \in Joiners /\ c \in Coroutines
          /\ pc[e] \in {"look", "push"} => phase[c] = "joining"
          /\ pc[e] = "move" => stopped
        BY <1>4, CellFacts DEF Join, CallJoin, Look, Push, Again, Valid, Move, At, Inv, Frames,
                               AfterStop, Helping, Coroutines
    <2>1. CASE CallJoin(e)
        <3>1. phase[c] = "before" /\ UNCHANGED <<started, stopped>>
            BY <2>1 DEF CallJoin
        <3>2. CASE started /\ phase' = [phase EXCEPT ![c] = "joining"]
            <4>1. Roles[c] = "before" /\ Roles' = [Roles EXCEPT ![c] = "waiting"]
                BY <2>0, <3>1, <3>2, RoleMoves DEF Role
            <4>2. LatchNow # "new" /\ UNCHANGED LatchNow BY <3>1, <3>2 DEF LatchNow
            <4> QED BY <2>0, <4>1, <4>2, JoinerSteps
        <3>3. CASE ~started /\ phase' = [phase EXCEPT ![c] = "through"]
            <4>1. Roles[c] = "before" /\ Roles' = [Roles EXCEPT ![c] = "through"]
                BY <2>0, <3>1, <3>3, RoleMoves DEF Role
            <4>2. LatchNow = "new" /\ UNCHANGED LatchNow
                BY <3>1, <3>3 DEF LatchNow, Inv, AfterStop
            <4> QED BY <2>0, <4>1, <4>2, JoinerSteps
        <3> QED BY <2>1, <3>2, <3>3 DEF CallJoin, Becomes
    <2>2. CASE Look(e)
        <3>1. CASE ~stopped BY <1>1, <2>2, <3>1 DEF Look
        <3>2. CASE stopped
            <4>1. /\ phase[c] = "joining" /\ phase' = [phase EXCEPT ![c] = "through"]
                  /\ UNCHANGED <<started, stopped>>
                BY <2>0, <2>2, <3>2 DEF Look, At, Becomes
            <4>2. Roles[c] = "waiting" /\ Roles' = [Roles EXCEPT ![c] = "through"]
                BY <2>0, <4>1, RoleMoves DEF Role
            <4>3. LatchNow = "open" /\ UNCHANGED LatchNow BY <3>2, <4>1 DEF LatchNow
            <4> QED BY <2>0, <4>2, <4>3, JoinerSteps
        <3> QED BY <3>1, <3>2
    <2>3. CASE Push(e)
        <3>1. CASE UNCHANGED phase BY <1>1, <2>3, <3>1 DEF Push
        <3>2. CASE phase' = [phase EXCEPT ![c] = "destroyed"]
            <4>1. Roles[c] = "waiting" /\ Roles' = [Roles EXCEPT ![c] = "lost"]
                BY <2>0, <2>3, <3>2, RoleMoves DEF Push, At, Role
            <4>2. UNCHANGED LatchNow BY <2>3 DEF Push, LatchNow
            <4> QED BY <2>0, <4>1, <4>2, JoinerSteps
        <3> QED BY <2>3, <3>1, <3>2 DEF Push, Becomes
    <2>4. CASE Again(e) \/ Valid(e) BY <1>1, <2>4 DEF Again, Valid
    <2>5. CASE Move(e)
        <3>1. CASE Wreck BY <1>1, <3>1 DEF Wreck
        <3>2. CASE ~Wreck
            <4>1. /\ phase[c] = "joining" /\ phase' = [phase EXCEPT ![c] = "through"]
                  /\ UNCHANGED <<started, stopped>> /\ stopped
                BY <2>0, <2>5, <3>2 DEF Move, At, Becomes
            <4>2. Roles[c] = "waiting" /\ Roles' = [Roles EXCEPT ![c] = "through"]
                BY <2>0, <4>1, RoleMoves DEF Role
            <4>3. LatchNow = "open" /\ UNCHANGED LatchNow BY <4>1 DEF LatchNow
            <4> QED BY <2>0, <4>2, <4>3, JoinerSteps
        <3> QED BY <3>1, <3>2
    <2> QED BY <1>4, <2>1, <2>2, <2>3, <2>4, <2>5 DEF Join
<1>5. ASSUME NEW e \in Executors, Complete(e) PROVE [Promise!Next]_(Promise!vars)
    <2>1. CASE Stop(e)
        <3>1. started BY <2>1 DEF Stop, At, Inv, AfterStop, Running
        <3>2. stopped' /\ UNCHANGED <<started, phase>> BY <2>1 DEF Stop
        <3> QED BY <3>1, <3>2, LatchSteps DEF LatchNow, Roles
    <2>2. CASE Pop(e)
        <3>1. UNCHANGED phase \/ phase' = [phase EXCEPT ![Target] = "done"]
            BY <2>2 DEF Pop, Becomes
        <3>2. UNCHANGED Roles BY <3>1, RoleMoves, CellFacts, NamesAssumption DEF Roles
        <3> QED BY <2>2, <3>2, LatchSteps DEF Pop, LatchNow
    <2>3. CASE Test(e) \/ Add(e) BY <1>1, <2>3 DEF Test, Add
    <2> QED BY <1>5, <2>1, <2>2, <2>3 DEF Complete
<1> QED BY <1>2, <1>3, <1>4, <1>5 DEF Next

\* join() implements a latch: a joiner that waits goes on only after the
\* function of the coroutine has returned, whoever resumes it.
THEOREM JoinIsLatch == Spec => ImplementsLatch
<1> QED BY LatchInit, LatchStep, Invariance, PTL DEF Spec, ImplementsLatch, Promise!Spec
=============================================================================
