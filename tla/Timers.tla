------------------------------- MODULE Timers -------------------------------
(***************************************************************************)
(* What a container of timers promises, however it keeps them: an armed    *)
(* timer is lost only by being cancelled or fired; tick fires the timers   *)
(* whose time has come when it starts, all of them, once, in the order in  *)
(* which they are due, and no other.                                       *)
(***************************************************************************)
EXTENDS Integers

CONSTANTS Timer, Time

VARIABLES armed,            \* the timers in the container and when each is due
          clock,
          ticking, since    \* tick is running, and when it looked at the clock

vars == <<armed, clock, ticking, since>>

Init == armed = [t \in {} |-> 0] /\ clock \in Time /\ ticking = FALSE /\ since \in Time

Without(t) == [u \in DOMAIN armed \ {t} |-> armed[u]]

Arm(t, e) ==
    /\ ~ticking /\ t \notin DOMAIN armed
    /\ armed' = [u \in DOMAIN armed \cup {t} |-> IF u = t THEN e ELSE armed[u]]
    /\ UNCHANGED <<clock, ticking, since>>

Postpone(t, e) ==
    /\ ~ticking /\ t \in DOMAIN armed /\ e >= armed[t]
    /\ armed' = [armed EXCEPT ![t] = e]
    /\ UNCHANGED <<clock, ticking, since>>

Cancel(t) ==
    /\ ~ticking /\ t \in DOMAIN armed
    /\ armed' = Without(t)
    /\ UNCHANGED <<clock, ticking, since>>

Start ==
    /\ ~ticking
    /\ ticking' = TRUE /\ since' = clock
    /\ UNCHANGED <<armed, clock>>

Fire(t) ==
    /\ ticking /\ t \in DOMAIN armed /\ armed[t] <= since
    /\ \A u \in DOMAIN armed : armed[t] <= armed[u]
    /\ armed' = Without(t)
    /\ UNCHANGED <<clock, ticking, since>>

Finish ==
    /\ ticking /\ \A t \in DOMAIN armed : armed[t] > since
    /\ ticking' = FALSE /\ since' \in Time
    /\ UNCHANGED <<armed, clock>>

Advance == clock' = clock + 1 /\ UNCHANGED <<armed, ticking, since>>

Next == \/ Start \/ Finish \/ Advance
        \/ \E t \in Timer : \/ Cancel(t) \/ Fire(t)
                            \/ \E e \in Time : Arm(t, e) \/ Postpone(t, e)

Spec == Init /\ [][Next]_vars
=============================================================================
