----------------------------- MODULE TimeWheel ------------------------------
(***************************************************************************)
(* The time wheel of high-performance-server-programming-linux/ch11/       *)
(* time_wheel.h.  A timer is hashed to the slot that will be current when  *)
(* it is due, with the number of full turns to wait; tick looks at one     *)
(* slot.  A slot's linked list, which is in no order, is a set.            *)
(***************************************************************************)
EXTENDS Integers

CONSTANTS Timer,        \* addresses of timers
          N, SI,        \* slots of the wheel, and time between two ticks (60 and 1)
          MaxTimeout    \* bound: the longest timeout

VARIABLES
    slots, cur_slot,
    rotation, time_slot,    \* fields of the timers
    wait                    \* history: ticks before the one that is to fire it

vars == <<slots, cur_slot, rotation, time_slot, wait>>

Live == UNION {slots[s] : s \in 0 .. N - 1}

Init ==
    /\ slots = [s \in 0 .. N - 1 |-> {}]
    /\ cur_slot = 0
    /\ rotation = [t \in Timer |-> 0] /\ time_slot = [t \in Timer |-> 0]
    /\ wait = [t \in Timer |-> 0]

\* A timeout in ticks, at least one.
Ticks(timeout) == IF timeout < SI THEN 1 ELSE timeout \div SI

TurnsFromOne(ticks) == (ticks - 1) \div N           \* mutation of the next one
Turns(ticks) == ticks \div N

addTimer(t, timeout) ==
    LET ticks == Ticks(timeout)
        ts    == (cur_slot + (ticks % N)) % N
    IN  /\ t \notin Live
        /\ rotation' = [rotation EXCEPT ![t] = Turns(ticks)]
        /\ time_slot' = [time_slot EXCEPT ![t] = ts]
        /\ slots' = [slots EXCEPT ![ts] = @ \cup {t}]
        /\ wait' = [wait EXCEPT ![t] = ticks]
        /\ UNCHANGED cur_slot

delTimer(t) ==
    /\ t \in Live
    /\ slots' = [slots EXCEPT ![time_slot[t]] = @ \ {t}]
    /\ rotation' = [rotation EXCEPT ![t] = 0]
    /\ time_slot' = [time_slot EXCEPT ![t] = 0]
    /\ wait' = [wait EXCEPT ![t] = 0]
    /\ UNCHANGED cur_slot

LastTurnOrNext(t) == rotation[t] <= 1               \* mutation of the next one
LastTurn(t) == rotation[t] = 0

\* The timers of the current slot fire if this is their last turn, the others
\* of the slot have one turn less to wait, and the wheel moves.
tick ==
    LET current == slots[cur_slot]
        fired   == {t \in current : LastTurn(t)}
    IN  /\ slots' = [slots EXCEPT ![cur_slot] = @ \ fired]
        /\ rotation' = [t \in Timer |-> IF t \in current \ fired THEN rotation[t] - 1
                                        ELSE IF t \in fired THEN 0 ELSE rotation[t]]
        /\ time_slot' = [t \in Timer |-> IF t \in fired THEN 0 ELSE time_slot[t]]
        /\ wait' = [t \in Timer |-> IF t \in Live \ fired THEN wait[t] - 1 ELSE 0]
        /\ cur_slot' = (cur_slot + 1) % N

Next == \/ tick
        \/ \E t \in Timer : \/ delTimer(t)
                            \/ \E timeout \in 0 .. MaxTimeout : addTimer(t, timeout)

Spec == Init /\ [][Next]_vars

-----------------------------------------------------------------------------
(* Properties.                                                             *)

\* A timer is in the slot it remembers and in no other, and slot and rotation
\* together say exactly how many ticks it still has to wait, whenever it was
\* added and however often the wheel has turned.
OnSchedule ==
    /\ cur_slot \in 0 .. N - 1
    /\ rotation \in [Timer -> Nat] /\ time_slot \in [Timer -> 0 .. N - 1]
    /\ wait \in [Timer -> Nat]
    /\ slots \in [0 .. N - 1 -> SUBSET Timer]
    /\ \A s \in 0 .. N - 1 : \A t \in slots[s] :
          /\ time_slot[t] = s
          /\ wait[t] = ((s - cur_slot) % N) + N * rotation[t]

\* tick fires the timers whose time has come, all of them and no other.  A timeout
\* of T counts as k intervals, k = T \div SI and at least 1, and the timer fires k to
\* k + 1 intervals after it was added: so not before T if SI divides T, less than SI
\* before T if it does not.
FiresOnTime == [][cur_slot' # cur_slot => Live' = {t \in Live : wait[t] > 0}]_vars
=============================================================================
