------------------------------ MODULE TimeWheel ------------------------------
(***************************************************************************)
(* time_wheel_t: a ring of slots, each with the timers that fire when the  *)
(* wheel comes to it.  A tick takes the timers out of the current slot and *)
(* moves on, under the wheel's mutex; it fires and releases them after     *)
(* that, one by one, while timers are added by other threads.  A timer's   *)
(* callback and release are the business of whoever uses the wheel.        *)
(*                                                                         *)
(* A definition named Slip... is a likely mistake in the definition that   *)
(* follows it.                                                             *)
(***************************************************************************)
EXTENDS Integers, Sequences

CONSTANT Slots      \* m_slots

ASSUME SlotsAssumption == Slots \in Nat \ {0}

VARIABLES
    wheel,          \* m_tasks: the timers of each slot, in the order they came
    cursor,         \* m_current_slot
    due             \* task_infos: taken out by a tick, and not yet released

wheelVars == <<wheel, cursor, due>>

WheelInit ==
    /\ wheel = [s \in 0 .. Slots - 1 |-> <<>>]
    /\ cursor = 0
    /\ due = <<>>

\* add_tw_task
AddTask(timer, interval) ==
    /\ wheel' = [wheel EXCEPT ![(cursor + interval) % Slots] = Append(@, timer)]
    /\ UNCHANGED <<cursor, due>>

\* Slip: the wheel moves before the slot is taken.
SlipTakeSlot ==
    /\ cursor' = (cursor + 1) % Slots
    /\ due' = wheel[cursor']
    /\ wheel' = [wheel EXCEPT ![cursor'] = <<>>]

\* Slip: the wheel does not wrap.
SlipWrap ==
    /\ due' = wheel[cursor]
    /\ wheel' = [wheel EXCEPT ![cursor] = <<>>]
    /\ cursor' = cursor + 1

\* tick(), the part under m_mutex_tasks.
TakeSlot ==
    /\ due' = wheel[cursor]
    /\ wheel' = [wheel EXCEPT ![cursor] = <<>>]
    /\ cursor' = (cursor + 1) % Slots

\* Slip: tick() returns after the first timer.
SlipNextTask ==
    /\ due' = <<>>
    /\ UNCHANGED <<wheel, cursor>>

\* The loop of tick() is done with a timer.
NextTask ==
    /\ due' = Tail(due)
    /\ UNCHANGED <<wheel, cursor>>

InWheel(timer) == \E s \in 0 .. Slots - 1 : \E i \in DOMAIN wheel[s] : wheel[s][i] = timer
=============================================================================
