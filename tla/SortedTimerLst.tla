--------------------------- MODULE SortedTimerLst ---------------------------
(***************************************************************************)
(* The sorted doubly linked list of timers of                              *)
(* high-performance-server-programming-linux/ch11/timer_list.h, pointer by *)
(* pointer.  An element of Timer is the address of a UtilTimer; an address *)
(* that was deleted may be allocated again, and what pointers still say    *)
(* about it is whatever was last written.  One loop iteration is one step. *)
(***************************************************************************)
EXTENDS Integers

CONSTANTS Timer,       \* addresses of timers
          Null,        \* nullptr
          MaxClock,    \* bound: the last instant
          MaxDelay     \* bound: how far ahead a timer may be set

ASSUME TimerAssumption ==
    /\ Null \notin Timer
    /\ MaxClock \in Nat /\ MaxDelay \in Nat

VARIABLES
    head, tail,         \* of the list
    prev, next, expire, \* the fields of the timers
    live,               \* the timers allocated
    running,            \* the member function that is running
    target,             \* addTimer(timer, lst_head): timer ...
    at,                 \* ... and its local variable prev
    cur, now_time,      \* locals of tick
    now                 \* time(0)

links  == <<head, tail, prev, next>>
locals == <<target, at, cur, now_time>>
list   == <<links, expire, live, running, locals>>
vars   == <<list, now>>

Time    == 0 .. MaxClock + MaxDelay
Pointer == Timer \cup {Null}

TypeOK ==
    /\ head \in Pointer /\ tail \in Pointer
    /\ prev \in [Timer -> Pointer] /\ next \in [Timer -> Pointer]
    /\ expire \in [Timer -> Time]
    /\ live \subseteq Timer
    /\ running \in {"none", "addTimer", "tick"}
    /\ target \in Pointer /\ at \in Pointer /\ cur \in Pointer
    /\ now_time \in Time /\ now \in 0 .. MaxClock

ListInit ==
    /\ head = Null /\ tail = Null
    /\ prev = [t \in Timer |-> Null] /\ next = [t \in Timer |-> Null]
    /\ expire = [t \in Timer |-> 0]
    /\ live = {}
    /\ running = "none"
    /\ target = Null /\ at = Null /\ cur = Null /\ now_time = 0

Init == ListInit /\ now = 0

-----------------------------------------------------------------------------
(* The private addTimer, called from the two public functions below, walks *)
(* from lst_head to the place of t.                                        *)

Walk(t, lst_head) == running' = "addTimer" /\ target' = t /\ at' = lst_head

\* Locals do not outlive their function, nor the fields of a timer its delete;
\* the pointers to and in a deleted timer stay what they were.
Ends == running' = "none" /\ target' = Null /\ at' = Null

GoesBefore(t, u) == expire[t] < expire[u]

SpliceForgetsBack == prev' = [prev EXCEPT ![target] = at]   \* mutation of the next one
SpliceBack == prev' = [prev EXCEPT ![next[at]] = target, ![target] = at]

InsertHere ==
    /\ running = "addTimer"
    /\ next[at] # Null /\ GoesBefore(target, next[at])
    /\ next' = [next EXCEPT ![at] = target, ![target] = next[at]]
    /\ SpliceBack
    /\ Ends
    /\ UNCHANGED <<head, tail, expire, live, cur, now_time, now>>

StepOver ==
    /\ running = "addTimer"
    /\ next[at] # Null /\ ~GoesBefore(target, next[at])
    /\ at' = next[at]
    /\ UNCHANGED <<links, expire, live, running, target, cur, now_time, now>>

AppendHere ==
    /\ running = "addTimer" /\ next[at] = Null
    /\ next' = [next EXCEPT ![at] = target, ![target] = Null]
    /\ prev' = [prev EXCEPT ![target] = at]
    /\ tail' = target
    /\ Ends
    /\ UNCHANGED <<head, expire, live, cur, now_time, now>>

-----------------------------------------------------------------------------
(* The public functions, of a timer that is not nullptr.  They do not look *)
(* whether they are called as they should be: Call below says how.         *)

\* new UtilTimer, which gives an address that is free, its expiry, and addTimer.
addTimer(t, e) ==
    /\ t \notin live
    /\ live' = live \cup {t}
    /\ expire' = [expire EXCEPT ![t] = e]
    /\ \/ /\ head = Null
          /\ head' = t /\ tail' = t
          /\ next' = [next EXCEPT ![t] = Null] /\ prev' = [prev EXCEPT ![t] = Null]
          /\ UNCHANGED <<running, target, at>>
       \/ /\ head # Null /\ e < expire[head]
          /\ next' = [next EXCEPT ![t] = head]
          /\ prev' = [prev EXCEPT ![t] = Null, ![head] = t]
          /\ head' = t
          /\ UNCHANGED <<tail, running, target, at>>
       \/ /\ head # Null /\ e >= expire[head]
          /\ next' = [next EXCEPT ![t] = Null] /\ prev' = [prev EXCEPT ![t] = Null]
          /\ Walk(t, head)
          /\ UNCHANGED <<head, tail>>
    /\ UNCHANGED <<cur, now_time>>

StaysPut(t, e) == next[t] # Null => e < expire[next[t]]

\* A new expiry, and adjustTimer.
adjustTimer(t, e) ==
    /\ expire' = [expire EXCEPT ![t] = e]
    /\ \/ /\ StaysPut(t, e)
          /\ UNCHANGED <<links, running, target, at>>
       \/ /\ ~StaysPut(t, e) /\ t = head
          /\ head' = next[t]
          /\ prev' = [prev EXCEPT ![next[t]] = Null]
          /\ next' = [next EXCEPT ![t] = Null]
          /\ Walk(t, next[t])
          /\ UNCHANGED tail
       \/ /\ ~StaysPut(t, e) /\ t # head
          /\ next' = [next EXCEPT ![prev[t]] = next[t]]
          /\ prev' = [prev EXCEPT ![next[t]] = prev[t]]
          /\ Walk(t, head)
          /\ UNCHANGED <<head, tail>>
    /\ UNCHANGED <<live, cur, now_time>>

delTimer(t) ==
    /\ live' = live \ {t}
    /\ \/ /\ t = head /\ t = tail
          /\ head' = Null /\ tail' = Null
          /\ UNCHANGED <<prev, next>>
       \/ /\ t = head /\ t # tail
          /\ head' = next[t]
          /\ prev' = [prev EXCEPT ![next[t]] = Null]
          /\ UNCHANGED <<next, tail>>
       \/ /\ t # head /\ t = tail
          /\ tail' = prev[t]
          /\ next' = [next EXCEPT ![prev[t]] = Null]
          /\ UNCHANGED <<prev, head>>
       \/ /\ t # head /\ t # tail
          /\ next' = [next EXCEPT ![prev[t]] = next[t]]
          /\ prev' = [prev EXCEPT ![next[t]] = prev[t]]
          /\ UNCHANGED <<head, tail>>
    /\ expire' = [expire EXCEPT ![t] = 0]
    /\ UNCHANGED <<running, locals>>

BehindHead == next[head]                            \* mutation of the next one
Begin == head

tick ==
    /\ head # Null
    /\ running' = "tick"
    /\ now_time' = now /\ cur' = Begin
    /\ UNCHANGED <<links, expire, live, target, at>>

NotYetLate(t) == now_time <= expire[t]              \* mutation of the next one
NotYet(t) == now_time < expire[t]

\* One iteration of tick: the callback, then the timer is unlinked and deleted.
Expire ==
    /\ running = "tick" /\ cur # Null /\ ~NotYet(cur)
    /\ head' = next[cur] /\ cur' = next[cur]
    /\ prev' = IF next[cur] = Null THEN prev ELSE [prev EXCEPT ![next[cur]] = Null]
    /\ live' = live \ {cur}
    /\ expire' = [expire EXCEPT ![cur] = 0]
    /\ UNCHANGED <<tail, next, running, target, at, now_time>>

TickEnds ==
    /\ running = "tick" /\ (cur # Null => NotYet(cur))
    /\ running' = "none" /\ cur' = Null /\ now_time' = 0
    /\ UNCHANGED <<links, expire, live, target, at>>

-----------------------------------------------------------------------------
Inside == InsertHere \/ StepOver \/ AppendHere

\* How the functions may be called: one at a time, on a timer that exists, and with
\* a later expiry only (line 77).
Postpone(t, e) == t \in live /\ expire[t] <= e /\ adjustTimer(t, e)

Cancel(t) == t \in live /\ delTimer(t)

Call ==
    /\ running = "none" /\ UNCHANGED now
    /\ \/ tick
       \/ \E t \in Timer :
             \/ Cancel(t)
             \/ \E d \in 0 .. MaxDelay : addTimer(t, now + d) \/ Postpone(t, now + d)

Clock == now < MaxClock /\ now' = now + 1 /\ UNCHANGED list

Next == \/ Inside
        \/ (Expire \/ TickEnds) /\ UNCHANGED now
        \/ Call
        \/ Clock

Spec == Init /\ [][Next]_vars

-----------------------------------------------------------------------------
(* Properties.                                                             *)

\* The timers that are in the list: all that exist, but the one under way.
Chain == IF running = "addTimer" THEN live \ {target} ELSE live

\* Whatever the order of calls, the two directions agree, every timer that
\* exists is between head and tail, and expiries ascend.  tail may dangle once
\* tick has emptied the list, so it counts only while there is a head.
Linked ==
    /\ TypeOK
    /\ (head = Null) <=> (Chain = {})
    /\ head # Null => head \in Chain /\ tail \in Chain
    /\ \A t \in Chain : /\ (t = head) <=> (prev[t] = Null)
                        /\ (t = tail) <=> (next[t] = Null)
    /\ \A t \in Chain : next[t] # Null => next[t] \in Chain /\ prev[next[t]] = t
    /\ \A t \in Chain : prev[t] # Null => prev[t] \in Chain /\ next[prev[t]] = t
    /\ \A t \in Chain : next[t] # Null => expire[t] <= expire[next[t]]

\* The list keeps the promise of Timers: nothing is lost, and tick fires what is
\* due, all of it, in time order.
Contents == INSTANCE Timers WITH armed   <- [t \in live |-> expire[t]],
                                 clock   <- now,
                                 ticking <- running = "tick",
                                 since   <- now_time

ImplementsTimers == Contents!Spec
=============================================================================
