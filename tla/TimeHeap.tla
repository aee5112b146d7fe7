------------------------------ MODULE TimeHeap ------------------------------
(***************************************************************************)
(* The time heap of high-performance-server-programming-linux/ch11/        *)
(* time_heap.h: a std::set ordered by expiry, from which timers are        *)
(* deleted lazily.  delTimer only clears the callback; tick pops the timer *)
(* when its time comes.  One iteration of tick is one step.                *)
(***************************************************************************)
EXTENDS Integers

CONSTANTS Timer,       \* timers, each a shared_ptr its user may still hold
          MaxClock,    \* bound: the last instant
          MaxDelay     \* bound: the longest delay

VARIABLES
    array,          \* the std::set
    expire,         \* a field of the timers; read only while in array
    armed,          \* the timers with a callback
    ticking, now_time,
    now

vars == <<array, expire, armed, ticking, now_time, now>>
Time == 0 .. MaxClock + MaxDelay

Init ==
    /\ array = {} /\ armed = {}
    /\ expire = [t \in Timer |-> 0]
    /\ ticking = FALSE /\ now_time = 0 /\ now = 0

\* array.begin(): the earliest, ties broken by address.
Top == {t \in array : \A u \in array : expire[t] <= expire[u]}

\* new HeapTimer(delay), its callback, and addTimer.
addTimer(t, delay) ==
    /\ ~ticking /\ t \notin array
    /\ array' = array \cup {t}
    /\ expire' = [expire EXCEPT ![t] = now + delay]
    /\ armed' = armed \cup {t}
    /\ UNCHANGED <<ticking, now_time, now>>

delTimer(t) ==
    /\ ~ticking /\ t \in armed
    /\ armed' = armed \ {t}
    /\ UNCHANGED <<array, expire, ticking, now_time, now>>

tick ==
    /\ ~ticking
    /\ ticking' = TRUE /\ now_time' = now
    /\ UNCHANGED <<array, expire, armed, now>>

StopAtDeleted(t) == now_time < expire[t] \/ t \notin armed  \* mutation of the next one
NotYet(t) == now_time < expire[t]

\* One iteration: the callback, if it is still there, and popTimer.
Pop(t) ==
    /\ ticking /\ t \in Top /\ ~NotYet(t)
    /\ array' = array \ {t}
    /\ armed' = armed \ {t}
    /\ expire' = [expire EXCEPT ![t] = 0]
    /\ UNCHANGED <<ticking, now_time, now>>

TickEnds ==
    /\ ticking /\ \A t \in Top : NotYet(t)
    /\ ticking' = FALSE /\ now_time' = 0
    /\ UNCHANGED <<array, expire, armed, now>>

Clock == now < MaxClock /\ now' = now + 1
         /\ UNCHANGED <<array, expire, armed, ticking, now_time>>

Next == \/ tick \/ TickEnds \/ Clock
        \/ \E t \in Timer : \/ Pop(t) \/ delTimer(t)
                            \/ \E delay \in 0 .. MaxDelay : addTimer(t, delay)

Spec == Init /\ [][Next]_vars

-----------------------------------------------------------------------------
(* Properties.                                                             *)

\* The callbacks that are still set are called as Timers says; clearing one is
\* as good as removing the timer, and does not shield the timers behind it.
Contents == INSTANCE Timers WITH armed <- [t \in armed |-> expire[t]],
                                 clock <- now,
                                 since <- now_time

ImplementsTimers == Contents!Spec
=============================================================================
