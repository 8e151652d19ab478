----------------------------- MODULE AtomicQueue ------------------------------
(***************************************************************************)
(* AtomicQueue2: the lock-free ring under every queue of the runtime (task *)
(* queues, wait queues of mutexes and joins, channels, the memory pool).   *)
(*                                                                         *)
(* A thread claims a ticket by advancing head_ or tail_, and then meets    *)
(* its partner at the slot of the ticket, whose state goes EMPTY, STORING, *)
(* STORED, LOADING and round again.  The counters are unsigned and wrap;   *)
(* they are compared by the sign of their difference.  The thread's ticket *)
(* is its local `head' or `tail'.                                          *)
(*                                                                         *)
(* Elements circulate: a thread that holds one may push it, one that holds *)
(* none may pop.  remap_index permutes the slots and is left out.  The     *)
(* SPSC branches are not instantiated by this code and are left out.       *)
(*                                                                         *)
(* A definition named Slip... is a likely mistake in the definition that   *)
(* follows it; no behaviour of the module uses it.                         *)
(***************************************************************************)
EXTENDS Integers, FiniteSets, Functions

CONSTANTS
    Threads,
    Items,          \* the elements
    Size,           \* size_
    Word,           \* 2^32: head_ and tail_ count modulo this
    Start,          \* the value of both counters when the model starts
    MaxClaims,      \* bound: claims of a ticket
    None            \* no element

ASSUME SizeAssumption == Size \in Nat \ {0} /\ Word \in Nat /\ Word > 2 * Size
ASSUME StartAssumption == Start \in 0 .. Word - 1 /\ MaxClaims \in Nat
ASSUME ItemsAssumption == None \notin Items
ASSUME ThreadsAssumption == IsFiniteSet(Threads)

\* Bound: a counter does not come half round, or the sign of a difference and
\* the compare_exchange on a counter that was loaded earlier would be fooled.
ASSUME LapAssumption == 2 * MaxClaims < Word

VARIABLES
    head,           \* head_
    tail,           \* tail_
    state,          \* states_
    element,        \* elements_; None where the element was moved out
    pc,             \* where each thread is
    ticket,         \* its local copy of head or tail
    item,           \* the element it holds
    claims,         \* how many tickets were claimed
    forced          \* history: push() or pop() has claimed a ticket

counters == <<head, tail, claims, forced>>
ring     == <<state, element>>
vars     == <<counters, ring, pc, ticket, item>>

Slots     == 0 .. Size - 1
Tickets   == 0 .. Word - 1
States    == {"EMPTY", "STORING", "STORED", "LOADING"}
Pushing   == {"pushTest", "pushCas", "slotPush", "write"}
Popping   == {"popTest", "popCas", "slotPop", "read"}
Claiming  == {"pushTest", "pushCas", "popTest", "popCas"}

TypeOK ==
    /\ head \in Tickets /\ tail \in Tickets
    /\ state \in [Slots -> States]
    /\ element \in [Slots -> Items \cup {None}]
    /\ pc \in [Threads -> {"idle"} \cup Pushing \cup Popping]
    /\ ticket \in [Threads -> Tickets]
    /\ item \in [Threads -> Items \cup {None}]
    /\ claims \in 0 .. MaxClaims /\ forced \in BOOLEAN

\* An empty queue that has been used before; the threads hold the elements.
Init ==
    /\ head = Start /\ tail = Start
    /\ state = [i \in Slots |-> "EMPTY"]
    /\ element = [i \in Slots |-> None]
    /\ pc = [t \in Threads |-> "idle"]
    /\ ticket = [t \in Threads |-> 0]
    /\ item \in [Threads -> Items \cup {None}]
    /\ \A x \in Items : \E t \in Threads : item[t] = x
    /\ \A t, u \in Threads : item[t] = item[u] /\ item[t] # None => t = u
    /\ claims = 0 /\ forced = FALSE

\* static_cast<int>(a - b)
Diff(a, b) == LET d == (a - b) % Word IN IF 2 * d < Word THEN d ELSE d - Word

\* Slip: a ticket wider than the counter.
SlipSucc(a) == a + 1

Succ(a) == (a + 1) % Word

Slot(t) == ticket[t] % Size

\* The bound: a call begins only if its claim fits.
Room == claims + Cardinality({u \in Threads : pc[u] \in Claiming}) < MaxClaims

Goto(t, l) == pc' = [pc EXCEPT ![t] = l]

-----------------------------------------------------------------------------
(* try_push and push: claim a ticket.                                      *)

TryPush(t) ==
    /\ pc[t] = "idle" /\ item[t] # None /\ Room
    /\ ticket' = [ticket EXCEPT ![t] = head]
    /\ Goto(t, "pushTest")
    /\ UNCHANGED <<counters, ring, item>>

\* Slip: one more than the ring holds.
SlipPushTest(t) ==
    /\ pc[t] = "pushTest"
    /\ Goto(t, IF Diff(ticket[t], tail) > Size THEN "idle" ELSE "pushCas")
    /\ UNCHANGED <<counters, ring, ticket, item>>

\* Loads tail_ and gives up on a full queue.
PushTest(t) ==
    /\ pc[t] = "pushTest"
    /\ Goto(t, IF Diff(ticket[t], tail) >= Size THEN "idle" ELSE "pushCas")
    /\ UNCHANGED <<counters, ring, ticket, item>>

\* Slip: head_ is stored, not compared and exchanged.
SlipPushCas(t) ==
    /\ pc[t] = "pushCas"
    /\ head' = Succ(ticket[t])
    /\ claims' = claims + 1
    /\ Goto(t, "slotPush")
    /\ UNCHANGED <<tail, forced, ring, ticket, item>>

\* The compare_exchange on head_; a failure loads head_ again.
PushCas(t) ==
    /\ pc[t] = "pushCas"
    /\ \/ /\ head = ticket[t]
          /\ head' = Succ(head)
          /\ claims' = claims + 1
          /\ Goto(t, "slotPush")
          /\ UNCHANGED ticket
       \/ /\ head # ticket[t]
          /\ ticket' = [ticket EXCEPT ![t] = head]
          /\ Goto(t, "pushTest")
          /\ UNCHANGED <<head, claims>>
    /\ UNCHANGED <<tail, forced, ring, item>>

\* push(): fetch_add, full or not.
PushClaim(t) ==
    /\ pc[t] = "idle" /\ item[t] # None /\ Room
    /\ ticket' = [ticket EXCEPT ![t] = head]
    /\ head' = Succ(head)
    /\ claims' = claims + 1 /\ forced' = TRUE
    /\ Goto(t, "slotPush")
    /\ UNCHANGED <<tail, ring, item>>

\* Slip: the slot is taken without waiting for it to be empty.
SlipPushSlot(t) ==
    /\ pc[t] = "slotPush" /\ state[Slot(t)] # "STORING"
    /\ state' = [state EXCEPT ![Slot(t)] = "STORING"]
    /\ Goto(t, "write")
    /\ UNCHANGED <<counters, element, ticket, item>>

\* do_push_any waits for the slot to be empty, and takes it.
PushSlot(t) ==
    /\ pc[t] = "slotPush" /\ state[Slot(t)] = "EMPTY"
    /\ state' = [state EXCEPT ![Slot(t)] = "STORING"]
    /\ Goto(t, "write")
    /\ UNCHANGED <<counters, element, ticket, item>>

\* The assignment to the element ends, and the slot is published.
PushDone(t) ==
    /\ pc[t] = "write"
    /\ element' = [element EXCEPT ![Slot(t)] = item[t]]
    /\ state' = [state EXCEPT ![Slot(t)] = "STORED"]
    /\ item' = [item EXCEPT ![t] = None]
    /\ Goto(t, "idle")
    /\ UNCHANGED <<counters, ticket>>

-----------------------------------------------------------------------------
(* try_pop and pop.                                                        *)

TryPop(t) ==
    /\ pc[t] = "idle" /\ item[t] = None /\ Room
    /\ ticket' = [ticket EXCEPT ![t] = tail]
    /\ Goto(t, "popTest")
    /\ UNCHANGED <<counters, ring, item>>

\* Slip: the counters are compared, not their difference.
SlipPopTest(t) ==
    /\ pc[t] = "popTest"
    /\ Goto(t, IF head <= ticket[t] THEN "idle" ELSE "popCas")
    /\ UNCHANGED <<counters, ring, ticket, item>>

\* Loads head_ and gives up on an empty queue.
PopTest(t) ==
    /\ pc[t] = "popTest"
    /\ Goto(t, IF Diff(head, ticket[t]) <= 0 THEN "idle" ELSE "popCas")
    /\ UNCHANGED <<counters, ring, ticket, item>>

PopCas(t) ==
    /\ pc[t] = "popCas"
    /\ \/ /\ tail = ticket[t]
          /\ tail' = Succ(tail)
          /\ claims' = claims + 1
          /\ Goto(t, "slotPop")
          /\ UNCHANGED ticket
       \/ /\ tail # ticket[t]
          /\ ticket' = [ticket EXCEPT ![t] = tail]
          /\ Goto(t, "popTest")
          /\ UNCHANGED <<tail, claims>>
    /\ UNCHANGED <<head, forced, ring, item>>

\* pop(): fetch_add, empty or not.
PopClaim(t) ==
    /\ pc[t] = "idle" /\ item[t] = None /\ Room
    /\ ticket' = [ticket EXCEPT ![t] = tail]
    /\ tail' = Succ(tail)
    /\ claims' = claims + 1 /\ forced' = TRUE
    /\ Goto(t, "slotPop")
    /\ UNCHANGED <<head, ring, item>>

\* Slip: the slot is read as soon as it is stored, without the LOADING state.
SlipPopSlot(t) ==
    /\ pc[t] = "slotPop" /\ state[Slot(t)] = "STORED"
    /\ Goto(t, "read")
    /\ UNCHANGED <<counters, ring, ticket, item>>

\* do_pop_any waits for the slot to be stored, and takes it.
PopSlot(t) ==
    /\ pc[t] = "slotPop" /\ state[Slot(t)] = "STORED"
    /\ state' = [state EXCEPT ![Slot(t)] = "LOADING"]
    /\ Goto(t, "read")
    /\ UNCHANGED <<counters, element, ticket, item>>

\* The element is moved out, and the slot released.
PopDone(t) ==
    /\ pc[t] = "read"
    /\ item' = [item EXCEPT ![t] = element[Slot(t)]]
    /\ element' = [element EXCEPT ![Slot(t)] = None]
    /\ state' = [state EXCEPT ![Slot(t)] = "EMPTY"]
    /\ Goto(t, "idle")
    /\ UNCHANGED <<counters, ticket>>

-----------------------------------------------------------------------------
Push(t) == TryPush(t) \/ PushTest(t) \/ PushCas(t) \/ PushClaim(t) \/ PushSlot(t) \/ PushDone(t)
Pop(t)  == TryPop(t) \/ PopTest(t) \/ PopCas(t) \/ PopClaim(t) \/ PopSlot(t) \/ PopDone(t)

Next == \E t \in Threads : Push(t) \/ Pop(t)

Spec == Init /\ [][Next]_vars

\* A thread that has begun an operation is scheduled; none must begin one.
Fairness == \A t \in Threads : WF_vars(pc[t] # "idle" /\ (Push(t) \/ Pop(t)))

FairSpec == Spec /\ Fairness

-----------------------------------------------------------------------------
(* Properties.                                                             *)

Accessing(t) == pc[t] \in {"write", "read"}

\* No two threads touch the element of one slot at a time: elements_ is plain
\* memory, and only the protocol on states_ keeps its accesses apart, whatever
\* tickets the threads hold.
SlotExclusive ==
    \A t, u \in Threads : Accessing(t) /\ Accessing(u) /\ Slot(t) = Slot(u) => t = u

\* The places where element x is: in the hands of threads, and in slots.
Places(x) == {<<"item", t>> : t \in {u \in Threads : item[u] = x}}
             \cup {<<"slot", i>> : i \in {j \in Slots : element[j] = x}}

\* Nothing is lost, doubled or overwritten.
Conservation == \A x \in Items : Cardinality(Places(x)) = 1

\* try_push fails on a full ring only and try_pop on an empty one, at the moment
\* of the test that fails: although each compares a counter loaded earlier with
\* one loaded now, and the counters wrap.
FailsForCause ==
    [][\A t \in Threads :
        /\ pc[t] = "pushTest" /\ pc'[t] = "idle" => Diff(head, tail) >= Size
        /\ pc[t] = "popTest" /\ pc'[t] = "idle" => Diff(head, tail) <= 0]_vars

\* As long as try_push and try_pop alone are called, the claims stay within
\* the ring.
ClaimsFit == ~forced => Diff(head, tail) \in 0 .. Size

\* Who claimed a ticket by try_push or try_pop meets its partner, although it may
\* find another thread's element, or another lap, at its slot.  push() on a
\* full ring and pop() on an empty one may wait for ever.
ClaimServed ==
    \A t \in Threads : pc[t] \in {"slotPush", "slotPop"} ~> (pc[t] = "idle" \/ forced)

=============================================================================
