-------------------------- MODULE AtomicQueue_proofs --------------------------
(***************************************************************************)
(* For any size, any width of the counters, any number of threads and      *)
(* calls.  Whatever tickets the threads hold, the states of the slots keep *)
(* the accesses to an element apart, and every element is in one place.    *)
(* And as long as the counters have not come half round, try_push and      *)
(* try_pop claim within the ring and fail for cause.                       *)
(***************************************************************************)
EXTENDS AtomicQueue, FiniteSetTheorems, TLAPS

Types ==
    /\ head \in Tickets /\ tail \in Tickets
    /\ state \in [Slots -> States]
    /\ element \in [Slots -> Items \cup {None}]
    /\ pc \in [Threads -> {"idle"} \cup Pushing \cup Popping]
    /\ ticket \in [Threads -> Tickets]
    /\ item \in [Threads -> Items \cup {None}]

\* The state of a slot tells who is at its element, and there is one thread.
Guarded ==
    /\ \A t \in Threads : pc[t] = "write" => state[Slot(t)] = "STORING"
    /\ \A t \in Threads : pc[t] = "read" => state[Slot(t)] = "LOADING"
    /\ SlotExclusive

\* ... and whether there is an element in it.
Filled ==
    /\ \A i \in Slots : element[i] # None <=> state[i] \in {"STORED", "LOADING"}
    /\ \A t \in Threads : pc[t] \in Pushing => item[t] # None
    /\ \A t \in Threads : pc[t] \in Popping => item[t] = None

\* Conservation without counting.
OnePlaceEach ==
    /\ \A t, u \in Threads : item[t] = item[u] /\ item[t] # None => t = u
    /\ \A i, j \in Slots : element[i] = element[j] /\ element[i] # None => i = j
    /\ \A t \in Threads, i \in Slots : item[t] = element[i] => item[t] = None
    /\ \A x \in Items : (\E t \in Threads : item[t] = x) \/ (\E i \in Slots : element[i] = x)

Inv == Types /\ Guarded /\ Filled /\ OnePlaceEach

-----------------------------------------------------------------------------
\* A wrapped counter is a counter, and a ticket has a slot.
LEMMA Wrap == /\ \A a \in Tickets : Succ(a) \in Tickets
              /\ \A a \in Tickets : a % Size \in Slots
  BY SizeAssumption DEF Tickets, Succ, Slots

LEMMA InvInit == Init => Inv
<1> SUFFICES ASSUME Init PROVE Inv
  OBVIOUS
<1> USE DEF Init
<1>1. 0 \in Tickets /\ Start \in Tickets
  BY SizeAssumption, StartAssumption DEF Tickets
<1>2. Types
  BY <1>1 DEF Types, States
<1>3. Guarded /\ Filled
  BY DEF Guarded, Filled, SlotExclusive, Accessing, Pushing, Popping
<1>4. OnePlaceEach
  BY ItemsAssumption DEF OnePlaceEach
<1> QED
  BY <1>2, <1>3, <1>4 DEF Inv

\* The steps that claim a ticket touch neither slots nor items.
LEMMA Claim ==
  ASSUME Inv, NEW t \in Threads,
         UNCHANGED <<ring, item>>,
         head' \in Tickets, tail' \in Tickets,
         ticket' \in [Threads -> Tickets],
         \A u \in Threads \ {t} : ticket'[u] = ticket[u],
         NEW l \in {"idle"} \cup Pushing \cup Popping, Goto(t, l),
         l \notin {"write", "read"}, pc[t] \notin {"write", "read"},
         l \in Pushing => item[t] # None, l \in Popping => item[t] = None
  PROVE  Inv'
<1> USE DEF Inv, ring
<1>1. Types'
  BY DEF Types, Goto
<1>2. /\ pc'[t] = l
      /\ \A u \in Threads \ {t} : pc'[u] = pc[u]
      /\ \A u \in Threads \ {t} : Slot(u)' = Slot(u)
  BY DEF Types, Goto, Slot
<1>3. Guarded'
  BY <1>2 DEF Guarded, SlotExclusive, Accessing
<1>4. Filled' /\ OnePlaceEach'
  BY <1>2 DEF Filled, OnePlaceEach
<1> QED
  BY <1>1, <1>3, <1>4

\* A thread takes its slot: it alone was let through by the state.
LEMMA Take ==
  ASSUME Inv, NEW t \in Threads, PushSlot(t) \/ PopSlot(t)
  PROVE  Inv'
<1> USE DEF Inv
<1> DEFINE i == Slot(t)
<1>1. i \in Slots
  BY Wrap DEF Types, Slot
<1>2. UNCHANGED <<head, tail, element, ticket, item>>
  BY DEF PushSlot, PopSlot, counters
<1>3. \A u \in Threads : Slot(u)' = Slot(u)
  BY <1>2 DEF Slot
<1>4. CASE PushSlot(t)
  <2>1. /\ state[i] = "EMPTY"
        /\ state' = [state EXCEPT ![i] = "STORING"]
        /\ pc[t] = "slotPush"
        /\ pc' = [pc EXCEPT ![t] = "write"]
    BY <1>4 DEF PushSlot, Goto
  <2>2. Types'
    BY <1>1, <1>2, <2>1 DEF Types, States, Pushing
  <2>3. Guarded'
    BY <1>1, <1>3, <2>1 DEF Types, Guarded, SlotExclusive, Accessing
  <2>4. Filled' /\ OnePlaceEach'
    BY <1>1, <1>2, <2>1 DEF Types, Filled, OnePlaceEach, Pushing, Popping
  <2> QED
    BY <2>2, <2>3, <2>4
<1>5. CASE PopSlot(t)
  <2>1. /\ state[i] = "STORED"
        /\ state' = [state EXCEPT ![i] = "LOADING"]
        /\ pc[t] = "slotPop"
        /\ pc' = [pc EXCEPT ![t] = "read"]
    BY <1>5 DEF PopSlot, Goto
  <2>2. Types'
    BY <1>1, <1>2, <2>1 DEF Types, States, Popping
  <2>3. Guarded'
    BY <1>1, <1>3, <2>1 DEF Types, Guarded, SlotExclusive, Accessing
  <2>4. Filled' /\ OnePlaceEach'
    BY <1>1, <1>2, <2>1 DEF Types, Filled, OnePlaceEach, Pushing, Popping
  <2> QED
    BY <2>2, <2>3, <2>4
<1> QED
  BY <1>4, <1>5

\* The element moves between the thread and the slot that only it is at.
LEMMA MoveElement ==
  ASSUME Inv, NEW t \in Threads, PushDone(t) \/ PopDone(t)
  PROVE  Inv'
<1> USE DEF Inv
<1> DEFINE i == Slot(t)
<1>1. i \in Slots
  BY Wrap DEF Types, Slot
<1>2. UNCHANGED <<head, tail, ticket>>
  BY DEF PushDone, PopDone, counters
<1>3. \A u \in Threads : Slot(u)' = Slot(u)
  BY <1>2 DEF Slot
<1>4. CASE PushDone(t)
  <2>1. /\ pc[t] = "write"
        /\ element' = [element EXCEPT ![i] = item[t]]
        /\ state' = [state EXCEPT ![i] = "STORED"]
        /\ item' = [item EXCEPT ![t] = None]
        /\ pc' = [pc EXCEPT ![t] = "idle"]
    BY <1>4 DEF PushDone, Goto
  <2>2. state[i] = "STORING" /\ element[i] = None /\ item[t] # None /\ item[t] \in Items
    BY <1>1, <2>1 DEF Types, Guarded, Filled, Pushing
  <2>3. Types'
    BY <1>1, <1>2, <2>1 DEF Types, States
  <2>4. Guarded'
    BY <1>1, <1>3, <2>1 DEF Types, Guarded, SlotExclusive, Accessing
  <2>5. Filled'
    BY <1>1, <2>1, <2>2 DEF Types, Filled, Pushing, Popping
  <2>6. OnePlaceEach'
    BY <1>1, <2>1, <2>2, ItemsAssumption DEF Types, OnePlaceEach
  <2> QED
    BY <2>3, <2>4, <2>5, <2>6
<1>5. CASE PopDone(t)
  <2>1. /\ pc[t] = "read"
        /\ item' = [item EXCEPT ![t] = element[i]]
        /\ element' = [element EXCEPT ![i] = None]
        /\ state' = [state EXCEPT ![i] = "EMPTY"]
        /\ pc' = [pc EXCEPT ![t] = "idle"]
    BY <1>5 DEF PopDone, Goto
  <2>2. state[i] = "LOADING" /\ element[i] # None /\ element[i] \in Items /\ item[t] = None
    BY <1>1, <2>1 DEF Types, Guarded, Filled, Popping
  <2>3. Types'
    BY <1>1, <1>2, <2>1 DEF Types, States
  <2>4. Guarded'
    BY <1>1, <1>3, <2>1 DEF Types, Guarded, SlotExclusive, Accessing
  <2>5. Filled'
    BY <1>1, <2>1, <2>2 DEF Types, Filled, Pushing, Popping
  <2>6. OnePlaceEach'
    BY <1>1, <2>1, <2>2, ItemsAssumption DEF Types, OnePlaceEach
  <2> QED
    BY <2>3, <2>4, <2>5, <2>6
<1> QED
  BY <1>4, <1>5

LEMMA InvStep == Inv /\ [Next]_vars => Inv'
<1> SUFFICES ASSUME Inv, [Next]_vars PROVE Inv'
  OBVIOUS
<1>0. /\ Types
      /\ \A t \in Threads : pc[t] \in Pushing => item[t] # None
      /\ \A t \in Threads : pc[t] \in Popping => item[t] = None
  BY DEF Inv, Filled
<1>1. ASSUME NEW t \in Threads, TryPush(t) PROVE Inv'
  <2>1. Goto(t, "pushTest") /\ ticket' = [ticket EXCEPT ![t] = head] /\ pc[t] = "idle" /\ item[t] # None
        /\ UNCHANGED <<head, tail, ring, item>>
    BY <1>1 DEF TryPush, counters
  <2> QED
    BY <1>0, <2>1, Claim DEF Types, Pushing, Popping
<1>2. ASSUME NEW t \in Threads, PushTest(t) PROVE Inv'
  <2>1. PICK l \in {"idle", "pushCas"} : Goto(t, l)
    BY <1>2 DEF PushTest
  <2>2. pc[t] = "pushTest" /\ UNCHANGED <<head, tail, ring, ticket, item>>
    BY <1>2 DEF PushTest, counters
  <2> QED
    BY <1>0, <2>1, <2>2, Claim DEF Types, Pushing, Popping
<1>3. ASSUME NEW t \in Threads, PushCas(t) PROVE Inv'
  <2>1. PICK l \in {"slotPush", "pushTest"} : Goto(t, l)
    BY <1>3 DEF PushCas
  <2>2. pc[t] = "pushCas" /\ UNCHANGED <<tail, ring, item>>
    BY <1>3 DEF PushCas
  <2>3. head' \in Tickets /\ ticket' \in [Threads -> Tickets]
        /\ \A u \in Threads \ {t} : ticket'[u] = ticket[u]
    BY <1>0, <1>3, Wrap DEF PushCas, Types
  <2> QED
    BY <1>0, <2>1, <2>2, <2>3, Claim DEF Types, Pushing, Popping
<1>4. ASSUME NEW t \in Threads, PushClaim(t) PROVE Inv'
  <2>1. Goto(t, "slotPush") /\ pc[t] = "idle" /\ item[t] # None /\ UNCHANGED <<tail, ring, item>>
    BY <1>4 DEF PushClaim
  <2>2. head' \in Tickets /\ ticket' \in [Threads -> Tickets]
        /\ \A u \in Threads \ {t} : ticket'[u] = ticket[u]
    BY <1>0, <1>4, Wrap DEF PushClaim, Types
  <2> QED
    BY <1>0, <2>1, <2>2, Claim DEF Types, Pushing, Popping
<1>5. ASSUME NEW t \in Threads, TryPop(t) PROVE Inv'
  <2>1. Goto(t, "popTest") /\ ticket' = [ticket EXCEPT ![t] = tail] /\ pc[t] = "idle" /\ item[t] = None
        /\ UNCHANGED <<head, tail, ring, item>>
    BY <1>5 DEF TryPop, counters
  <2> QED
    BY <1>0, <2>1, Claim DEF Types, Pushing, Popping
<1>6. ASSUME NEW t \in Threads, PopTest(t) PROVE Inv'
  <2>1. PICK l \in {"idle", "popCas"} : Goto(t, l)
    BY <1>6 DEF PopTest
  <2>2. pc[t] = "popTest" /\ UNCHANGED <<head, tail, ring, ticket, item>>
    BY <1>6 DEF PopTest, counters
  <2> QED
    BY <1>0, <2>1, <2>2, Claim DEF Types, Pushing, Popping
<1>7. ASSUME NEW t \in Threads, PopCas(t) PROVE Inv'
  <2>1. PICK l \in {"slotPop", "popTest"} : Goto(t, l)
    BY <1>7 DEF PopCas
  <2>2. pc[t] = "popCas" /\ UNCHANGED <<head, ring, item>>
    BY <1>7 DEF PopCas
  <2>3. tail' \in Tickets /\ ticket' \in [Threads -> Tickets]
        /\ \A u \in Threads \ {t} : ticket'[u] = ticket[u]
    BY <1>0, <1>7, Wrap DEF PopCas, Types
  <2> QED
    BY <1>0, <2>1, <2>2, <2>3, Claim DEF Types, Pushing, Popping
<1>8. ASSUME NEW t \in Threads, PopClaim(t) PROVE Inv'
  <2>1. Goto(t, "slotPop") /\ pc[t] = "idle" /\ item[t] = None /\ UNCHANGED <<head, ring, item>>
    BY <1>8 DEF PopClaim
  <2>2. tail' \in Tickets /\ ticket' \in [Threads -> Tickets]
        /\ \A u \in Threads \ {t} : ticket'[u] = ticket[u]
    BY <1>0, <1>8, Wrap DEF PopClaim, Types
  <2> QED
    BY <1>0, <2>1, <2>2, Claim DEF Types, Pushing, Popping
<1>9. CASE UNCHANGED vars
  BY <1>9 DEF vars, counters, ring, Inv, Types, Guarded, SlotExclusive, Accessing, Slot,
              Filled, OnePlaceEach
<1> QED
  BY <1>1, <1>2, <1>3, <1>4, <1>5, <1>6, <1>7, <1>8, <1>9, Take, MoveElement DEF Next, Push, Pop

-----------------------------------------------------------------------------
\* The states of the slots keep the accesses to elements_ apart.
THEOREM SlotsExclude == Spec => []SlotExclusive
<1>1. Inv => SlotExclusive
  BY DEF Inv, Guarded
<1> QED
  BY InvInit, InvStep, <1>1, PTL DEF Spec

LEMMA Counted == Inv => Conservation
<1> SUFFICES ASSUME Inv, NEW x \in Items PROVE Cardinality(Places(x)) = 1
  BY DEF Conservation
<1>0. x # None
  BY ItemsAssumption
<1>1. CASE \E t \in Threads : item[t] = x
  <2>1. PICK t \in Threads : item[t] = x
    BY <1>1
  <2>2. {u \in Threads : item[u] = x} = {t}
    BY <1>0, <2>1 DEF Inv, OnePlaceEach
  <2>3. {j \in Slots : element[j] = x} = {}
    BY <1>0, <2>1 DEF Inv, OnePlaceEach
  <2>4. Places(x) = {<<"item", t>>}
    BY <2>2, <2>3 DEF Places
  <2> QED
    BY <2>4, FS_Singleton
<1>2. CASE ~ \E t \in Threads : item[t] = x
  <2>1. PICK i \in Slots : element[i] = x
    BY <1>2 DEF Inv, OnePlaceEach
  <2>2. {u \in Threads : item[u] = x} = {}
    BY <1>2
  <2>3. {j \in Slots : element[j] = x} = {i}
    BY <1>0, <2>1 DEF Inv, OnePlaceEach
  <2>4. Places(x) = {<<"slot", i>>}
    BY <2>2, <2>3 DEF Places
  <2> QED
    BY <2>4, FS_Singleton
<1> QED
  BY <1>1, <1>2

\* No element is lost, doubled or overwritten.
THEOREM ElementsKept == Spec => []Conservation
  BY InvInit, InvStep, Counted, PTL DEF Spec

-----------------------------------------------------------------------------
(* The counters.  As long as neither has come half round since the start,  *)
(* a ticket stands for its age, and the sign of a difference tells which   *)
(* of two tickets is older.                                                *)

\* How many claims a counter is from its start.
Age(a) == (a - Start) % Word

Pushes == Age(head)
Pops   == Age(tail)

\* The calls that have still to claim their ticket, or to give up.
Claimers == {t \in Threads : pc[t] \in Claiming}

Kept ==
    /\ claims \in Nat /\ forced \in BOOLEAN
    /\ claims + Cardinality(Claimers) <= MaxClaims

\* A counter that was loaded earlier is no younger; one that passed its test
\* passes it still, whatever the other side has claimed in between.
Loaded ==
    \A t \in Threads :
        /\ pc[t] \in {"pushTest", "pushCas"} => Age(ticket[t]) <= Pushes
        /\ pc[t] \in {"popTest", "popCas"} => Age(ticket[t]) <= Pops
Tested ==
    \A t \in Threads :
        /\ pc[t] = "pushCas" => Age(ticket[t]) - Pops < Size
        /\ pc[t] = "popCas" => Age(ticket[t]) < Pushes

Counts ==
    /\ Kept /\ Loaded /\ Tested
    /\ Pushes + Pops = claims
    /\ ~forced => Pushes - Pops \in 0 .. Size

LEMMA Mod ==
  ASSUME NEW z \in Int, -Word < z, z < Word
  PROVE  z % Word = IF z >= 0 THEN z ELSE z + Word
  BY SizeAssumption

LEMMA Ages ==
  ASSUME NEW a \in Tickets
  PROVE  /\ Age(a) = IF a >= Start THEN a - Start ELSE a - Start + Word
         /\ Age(a) \in 0 .. Word - 1
<1>1. a - Start \in Int /\ -Word < a - Start /\ a - Start < Word /\ Word \in Nat
  BY SizeAssumption, StartAssumption DEF Tickets
<1> QED  BY <1>1, Mod, StartAssumption DEF Age, Tickets

\* A claim is one more ...
LEMMA AgeSucc ==
  ASSUME NEW a \in Tickets, Age(a) < Word - 1
  PROVE  Succ(a) \in Tickets /\ Age(Succ(a)) = Age(a) + 1
<1>1. (a + 1 \in Tickets /\ Succ(a) = a + 1) \/ (a + 1 = Word /\ Succ(a) = 0)
  BY SizeAssumption, StartAssumption DEF Tickets, Succ
<1>2. 0 \in Tickets /\ Word \in Nat /\ Start \in Nat /\ Start < Word /\ a \in Nat /\ a < Word
  BY SizeAssumption, StartAssumption DEF Tickets
<1> QED  BY <1>1, <1>2, Ages

\* ... and the difference that the code computes is the difference in age.
LEMMA DiffAges ==
  ASSUME NEW a \in Tickets, NEW b \in Tickets, 2 * Age(a) < Word, 2 * Age(b) < Word
  PROVE  Diff(a, b) = Age(a) - Age(b)
<1>1. /\ a - b \in Int /\ -Word < a - b /\ a - b < Word
      /\ Word \in Nat /\ Start \in Nat /\ Start < Word
  BY SizeAssumption, StartAssumption DEF Tickets
<1>2. (a - b) % Word = IF a - b >= 0 THEN a - b ELSE a - b + Word
  BY <1>1, Mod
<1> QED  BY <1>1, <1>2, Ages DEF Diff, Tickets

\* What the invariant says of the numbers.
LEMMA Numbers ==
  ASSUME Inv, Counts
  PROVE  /\ head \in Tickets /\ tail \in Tickets /\ \A t \in Threads : ticket[t] \in Tickets
         /\ Pushes \in Nat /\ Pops \in Nat /\ \A t \in Threads : Age(ticket[t]) \in Nat
         /\ claims \in Nat /\ Cardinality(Claimers) \in Nat /\ claims <= MaxClaims
         /\ 2 * Pushes < Word /\ 2 * Pops < Word
         /\ Size \in Nat /\ MaxClaims \in Nat /\ Word \in Nat /\ 2 * MaxClaims < Word
<1>1. head \in Tickets /\ tail \in Tickets /\ \A t \in Threads : ticket[t] \in Tickets
  BY DEF Inv, Types
<1>2. Pushes \in Nat /\ Pops \in Nat /\ \A t \in Threads : Age(ticket[t]) \in Nat
  BY <1>1, Ages, SizeAssumption DEF Pushes, Pops
<1>3. IsFiniteSet(Claimers)
  BY ThreadsAssumption, FS_Subset DEF Claimers
<1>4. Cardinality(Claimers) \in Nat
  BY <1>3, FS_CardinalityType
<1>5. claims \in Nat /\ claims <= MaxClaims /\ Pushes + Pops = claims
  BY <1>4, StartAssumption DEF Counts, Kept
<1> QED
  BY <1>1, <1>2, <1>4, <1>5, SizeAssumption, StartAssumption, LapAssumption

\* A thread begins to claim, or ends.
LEMMA OneMoreClaimer ==
  ASSUME Inv, NEW t \in Threads, pc[t] \notin Claiming, NEW l \in Claiming, Goto(t, l)
  PROVE  Cardinality(Claimers') = Cardinality(Claimers) + 1
<1>1. IsFiniteSet(Claimers) /\ t \notin Claimers
  BY ThreadsAssumption, FS_Subset DEF Claimers
<1>2. Claimers' = Claimers \cup {t}
  BY DEF Claimers, Goto, Inv, Types
<1> QED  BY <1>1, <1>2, FS_AddElement

LEMMA OneClaimerLess ==
  ASSUME Inv, NEW t \in Threads, pc[t] \in Claiming, NEW l, l \notin Claiming, Goto(t, l)
  PROVE  Cardinality(Claimers') = Cardinality(Claimers) - 1
<1>1. IsFiniteSet(Claimers) /\ t \in Claimers
  BY ThreadsAssumption, FS_Subset DEF Claimers
<1>2. Claimers' = Claimers \ {t}
  BY DEF Claimers, Goto, Inv, Types
<1> QED  BY <1>1, <1>2, FS_RemoveElement

LEMMA SameClaimers ==
  ASSUME Inv, NEW t \in Threads, NEW l, Goto(t, l), pc[t] \in Claiming <=> l \in Claiming
  PROVE  Claimers' = Claimers
  BY DEF Claimers, Goto, Inv, Types

LEMMA CountsInit == Init => Counts
<1> SUFFICES ASSUME Init PROVE Counts
  OBVIOUS
<1>1. Start \in Tickets /\ Age(Start) = 0
  BY StartAssumption, SizeAssumption, Ages DEF Tickets
<1>2. Claimers = {} /\ Cardinality(Claimers) = 0
  BY FS_EmptySet DEF Init, Claimers, Claiming
<1>3. Pushes = 0 /\ Pops = 0 /\ claims = 0 /\ forced = FALSE
  BY <1>1 DEF Init, Pushes, Pops
<1>4. Kept
  <2>1. claims \in Nat /\ claims + Cardinality(Claimers) <= MaxClaims
    BY <1>2, <1>3, StartAssumption
  <2> QED  BY <1>3, <2>1 DEF Kept
<1>5. Loaded /\ Tested
  BY DEF Init, Loaded, Tested
<1> QED  BY <1>3, <1>4, <1>5, SizeAssumption DEF Counts

\* Loads of head_ and tail_ that begin a call of try_push or try_pop, or that
\* a failed compare_exchange makes.
Loads(t) ==
    /\ UNCHANGED counters
    /\ \/ ticket' = [ticket EXCEPT ![t] = head] /\ Goto(t, "pushTest")
       \/ ticket' = [ticket EXCEPT ![t] = tail] /\ Goto(t, "popTest")

LEMMA CountsLoad ==
  ASSUME Inv, Counts, NEW t \in Threads, Loads(t), Kept'
  PROVE  Counts'
<1>1. Pushes' = Pushes /\ Pops' = Pops /\ UNCHANGED <<claims, forced>>
  BY DEF Loads, counters, Pushes, Pops
<1>2. \A u \in Threads \ {t} : pc'[u] = pc[u] /\ Age(ticket'[u]) = Age(ticket[u])
  BY DEF Loads, Goto, Inv, Types
<1>3. \/ pc'[t] = "pushTest" /\ Age(ticket'[t]) = Pushes
      \/ pc'[t] = "popTest" /\ Age(ticket'[t]) = Pops
  BY DEF Loads, Goto, Inv, Types, Pushes, Pops
<1>4. Loaded'
  BY <1>1, <1>2, <1>3, Numbers DEF Counts, Loaded
<1>5. Tested'
  BY <1>1, <1>2, <1>3 DEF Counts, Tested
<1> QED  BY <1>1, <1>4, <1>5 DEF Counts

\* A claim of a ticket, of either kind.
LEMMA CountsClaim ==
  ASSUME Inv, Counts, NEW t \in Threads, NEW l \in {"slotPush", "slotPop"}, Goto(t, l),
         \A u \in Threads \ {t} : ticket'[u] = ticket[u],
         \/ head' = Succ(head) /\ UNCHANGED tail
         \/ tail' = Succ(tail) /\ UNCHANGED head,
         claims' = claims + 1, claims' <= MaxClaims, Kept',
         forced => forced',
         ~forced' => \/ head' # head /\ Pushes - Pops < Size
                     \/ tail' # tail /\ Pops < Pushes
  PROVE  Counts'
<1>1. \/ Pushes' = Pushes + 1 /\ Pops' = Pops /\ UNCHANGED tail
      \/ Pops' = Pops + 1 /\ Pushes' = Pushes /\ UNCHANGED head
  BY Numbers, AgeSucc DEF Counts, Pushes, Pops
<1>2. \A u \in Threads \ {t} : pc'[u] = pc[u] /\ Age(ticket'[u]) = Age(ticket[u])
  BY DEF Goto, Inv, Types
<1>3. pc'[t] = l
  BY DEF Goto, Inv, Types
<1>4. Loaded'
  BY <1>1, <1>2, <1>3, Numbers DEF Counts, Loaded
<1>5. Tested'
  BY <1>1, <1>2, <1>3, Numbers DEF Counts, Tested
<1>6. (Pushes + Pops = claims)'
  BY <1>1, Numbers DEF Counts
<1>7. (~forced => Pushes - Pops \in 0 .. Size)'
  BY <1>1, Numbers DEF Counts
<1> QED  BY <1>4, <1>5, <1>6, <1>7 DEF Counts

\* A thread goes on with its ticket.
LEMMA CountsOn ==
  ASSUME Inv, Counts, NEW t \in Threads, NEW l, Goto(t, l),
         UNCHANGED <<counters, ticket>>, Kept',
         l \in {"pushTest", "popTest"} => FALSE,
         l = "pushCas" => pc[t] = "pushTest" /\ Age(ticket[t]) - Pops < Size,
         l = "popCas" => pc[t] = "popTest" /\ Age(ticket[t]) < Pushes
  PROVE  Counts'
<1>1. Pushes' = Pushes /\ Pops' = Pops /\ UNCHANGED <<claims, forced>>
  BY DEF counters, Pushes, Pops
<1>2. pc'[t] = l /\ \A u \in Threads \ {t} : pc'[u] = pc[u]
  BY DEF Goto, Inv, Types
<1>3. Loaded' /\ Tested'
  BY <1>1, <1>2 DEF Counts, Loaded, Tested
<1> QED  BY <1>1, <1>3 DEF Counts

LEMMA CountsStep ==
  ASSUME Inv, Counts, [Next]_vars
  PROVE  Counts'
<1> USE Numbers
<1>0. Kept /\ Pushes + Pops = claims /\ Loaded /\ Tested
  BY DEF Counts
<1>1. ASSUME NEW t \in Threads, TryPush(t) \/ TryPop(t) PROVE Counts'
  <2>1. pc[t] \notin Claiming /\ Loads(t) /\ claims + Cardinality(Claimers) < MaxClaims
    BY <1>1 DEF TryPush, TryPop, Loads, Claiming, Room, Claimers
  <2>2. Cardinality(Claimers') = Cardinality(Claimers) + 1
    BY <2>1, OneMoreClaimer DEF Loads, Claiming
  <2>3. Kept'
    BY <1>0, <2>1, <2>2 DEF Kept, Loads, counters
  <2> QED  BY <2>1, <2>3, CountsLoad
<1>2. ASSUME NEW t \in Threads, PushTest(t) \/ PopTest(t) PROVE Counts'
  <2>1. PICK l \in {"idle", "pushCas", "popCas"} :
          /\ Goto(t, l) /\ UNCHANGED <<counters, ticket>>
          /\ pc[t] \in Claiming
          /\ l = "pushCas" => pc[t] = "pushTest" /\ ~(Diff(ticket[t], tail) >= Size)
          /\ l = "popCas" => pc[t] = "popTest" /\ ~(Diff(head, ticket[t]) <= 0)
    BY <1>2 DEF PushTest, PopTest, Claiming
  <2>2. pc[t] \in {"pushTest", "popTest"} => 2 * Age(ticket[t]) < Word
    BY <1>0 DEF Loaded
  <2>3. /\ l = "pushCas" => Age(ticket[t]) - Pops < Size
        /\ l = "popCas" => Age(ticket[t]) < Pushes
    BY <2>1, <2>2, DiffAges DEF Pushes, Pops
  <2>4. Kept'
    <3>1. CASE l = "idle"
      <4>1. Cardinality(Claimers') = Cardinality(Claimers) - 1
        BY <2>1, <3>1, OneClaimerLess DEF Claiming
      <4> QED  BY <1>0, <2>1, <4>1 DEF Kept, counters
    <3>2. CASE l # "idle"
      <4>1. Claimers' = Claimers
        BY <2>1, <3>2, SameClaimers DEF Claiming
      <4> QED  BY <1>0, <2>1, <4>1 DEF Kept, counters
    <3> QED  BY <3>1, <3>2
  <2> QED  BY <2>1, <2>3, <2>4, CountsOn
<1>3. ASSUME NEW t \in Threads, PushCas(t) \/ PopCas(t) PROVE Counts'
  <2>1. CASE Loads(t)
    <3>1. PICK l \in Claiming : Goto(t, l)
      BY <2>1 DEF Loads, Claiming
    <3>2. Claimers' = Claimers
      BY <1>3, <3>1, SameClaimers DEF PushCas, PopCas, Claiming
    <3>3. Kept'
      BY <1>0, <2>1, <3>2 DEF Kept, Loads, counters
    <3> QED  BY <2>1, <3>3, CountsLoad
  <2>2. CASE ~Loads(t)
    <3>1. \/ /\ pc[t] = "pushCas" /\ head = ticket[t] /\ head' = Succ(head)
             /\ Goto(t, "slotPush") /\ UNCHANGED tail
          \/ /\ pc[t] = "popCas" /\ tail = ticket[t] /\ tail' = Succ(tail)
             /\ Goto(t, "slotPop") /\ UNCHANGED head
      BY <1>3, <2>2 DEF PushCas, PopCas, Loads, counters
    <3>2. claims' = claims + 1 /\ UNCHANGED <<forced, ticket>>
      BY <1>3, <2>2 DEF PushCas, PopCas, Loads, counters
    <3>3. PICK l \in {"slotPush", "slotPop"} : Goto(t, l)
      BY <3>1
    <3>4. Cardinality(Claimers') = Cardinality(Claimers) - 1
      BY <3>1, <3>3, OneClaimerLess DEF Claiming
    <3>5. Kept' /\ claims' <= MaxClaims
      <4>1. Cardinality(Claimers') \in Nat
        BY <3>4, ThreadsAssumption, FS_Subset, FS_CardinalityType DEF Claimers
      <4> QED  BY <1>0, <3>2, <3>4, <4>1 DEF Kept
    <3>6. \/ pc[t] = "pushCas" /\ Pushes - Pops < Size /\ head' = Succ(head)
          \/ pc[t] = "popCas" /\ Pops < Pushes /\ tail' = Succ(tail)
      BY <1>0, <3>1 DEF Tested, Pushes, Pops
    <3>7. \/ head' # head /\ Pushes - Pops < Size
          \/ tail' # tail /\ Pops < Pushes
      <4>1. \A a \in Tickets : 2 * Age(a) < Word => Succ(a) # a
        BY AgeSucc, Ages, SizeAssumption
      <4> QED  BY <3>6, <4>1 DEF Pushes, Pops
    <3> QED  BY <3>1, <3>2, <3>3, <3>5, <3>7, CountsClaim
  <2> QED  BY <2>1, <2>2
<1>4. ASSUME NEW t \in Threads, PushClaim(t) \/ PopClaim(t) PROVE Counts'
  <2>1. /\ pc[t] = "idle" /\ claims + Cardinality(Claimers) < MaxClaims
        /\ claims' = claims + 1 /\ forced'
        /\ \A u \in Threads \ {t} : ticket'[u] = ticket[u]
        /\ \/ head' = Succ(head) /\ UNCHANGED tail
           \/ tail' = Succ(tail) /\ UNCHANGED head
    BY <1>4 DEF PushClaim, PopClaim, Room, Claimers, Inv, Types
  <2>2. PICK l \in {"slotPush", "slotPop"} : Goto(t, l)
    BY <1>4 DEF PushClaim, PopClaim
  <2>3. Claimers' = Claimers
    BY <2>1, <2>2, SameClaimers DEF Claiming
  <2>4. Kept' /\ claims' <= MaxClaims
    BY <1>0, <2>1, <2>3, <1>4 DEF Kept, PushClaim, PopClaim
  <2> QED  BY <2>1, <2>2, <2>4, CountsClaim
<1>5. ASSUME NEW t \in Threads, PushSlot(t) \/ PopSlot(t) \/ PushDone(t) \/ PopDone(t)
      PROVE  Counts'
  <2>1. PICK l \in {"write", "read", "idle"} : Goto(t, l)
    BY <1>5 DEF PushSlot, PopSlot, PushDone, PopDone
  <2>2. pc[t] \notin Claiming /\ UNCHANGED <<counters, ticket>>
    BY <1>5 DEF PushSlot, PopSlot, PushDone, PopDone, Claiming
  <2>3. Claimers' = Claimers
    BY <2>1, <2>2, SameClaimers DEF Claiming
  <2>4. Kept'
    BY <1>0, <2>2, <2>3 DEF Kept, counters
  <2> QED  BY <2>1, <2>2, <2>4, CountsOn
<1>6. CASE UNCHANGED vars
  BY <1>6 DEF vars, counters, Counts, Kept, Loaded, Tested, Claimers, Pushes, Pops
<1> QED
  BY <1>1, <1>2, <1>3, <1>4, <1>5, <1>6 DEF Next, Push, Pop

LEMMA CountsHold == Spec => [](Inv /\ Counts)
  BY InvInit, InvStep, CountsInit, CountsStep, PTL DEF Spec

\* Counters, states, elements and threads are what the code's types allow.
THEOREM TypeCorrect == Spec => []TypeOK
<1>1. Inv /\ Counts => TypeOK
  BY Numbers DEF Inv, Types, Counts, Kept, TypeOK
<1> QED  BY <1>1, CountsHold, PTL

\* With try_push and try_pop alone, the claims stay within the ring.
THEOREM ClaimsStayWithin == Spec => []ClaimsFit
<1>1. Inv /\ Counts => ClaimsFit
  BY Numbers, DiffAges DEF Counts, ClaimsFit, Pushes, Pops
<1> QED  BY <1>1, CountsHold, PTL

\* try_push and try_pop give up on a full and on an empty ring only, although
\* they compare counters that they loaded at different times.
THEOREM FailuresHaveCause == Spec => FailsForCause
<1>1. ASSUME Inv, Counts, [Next]_vars, NEW t \in Threads
      PROVE  /\ pc[t] = "pushTest" /\ pc'[t] = "idle" => Diff(head, tail) >= Size
             /\ pc[t] = "popTest" /\ pc'[t] = "idle" => Diff(head, tail) <= 0
  <2>1. ASSUME pc[t] = "pushTest", pc'[t] = "idle" PROVE Diff(ticket[t], tail) >= Size
    BY <1>1, <2>1 DEF Inv, Types, Next, Push, Pop, vars, Goto, TryPush, PushTest, PushCas, PushClaim,
       PushSlot, PushDone, TryPop, PopTest, PopCas, PopClaim, PopSlot, PopDone
  <2>2. ASSUME pc[t] = "popTest", pc'[t] = "idle" PROVE Diff(head, ticket[t]) <= 0
    BY <1>1, <2>2 DEF Inv, Types, Next, Push, Pop, vars, Goto, TryPush, PushTest, PushCas, PushClaim,
       PushSlot, PushDone, TryPop, PopTest, PopCas, PopClaim, PopSlot, PopDone
  <2>3. /\ pc[t] = "pushTest" => Age(ticket[t]) <= Pushes
        /\ pc[t] = "popTest" => Age(ticket[t]) <= Pops
    BY <1>1 DEF Counts, Loaded
  <2>4. Diff(head, tail) = Pushes - Pops
    BY <1>1, Numbers, DiffAges DEF Pushes, Pops
  <2>5. /\ pc[t] = "pushTest" => Diff(ticket[t], tail) = Age(ticket[t]) - Pops
        /\ pc[t] = "popTest" => Diff(head, ticket[t]) = Pushes - Age(ticket[t])
    BY <1>1, <2>3, Numbers, DiffAges DEF Pushes, Pops
  <2> QED  BY <1>1, <2>1, <2>2, <2>3, <2>4, <2>5, Numbers
<1>2. ASSUME Inv, Counts, [Next]_vars
      PROVE  [\A t \in Threads :
                /\ pc[t] = "pushTest" /\ pc'[t] = "idle" => Diff(head, tail) >= Size
                /\ pc[t] = "popTest" /\ pc'[t] = "idle" => Diff(head, tail) <= 0]_vars
  BY <1>1, <1>2
<1> QED  BY <1>2, CountsHold, PTL DEF Spec, FailsForCause

=============================================================================
