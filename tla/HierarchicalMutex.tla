-------------------------- MODULE HierarchicalMutex --------------------------
(***************************************************************************)
(* The hierarchical_mutex of cpp-concurrency-in-action,                    *)
(* ch3/code_3_8.cpp: a mutex with a level, which a thread may lock only    *)
(* while all it holds has higher levels.  A thread keeps its level in a    *)
(* thread_local variable, and each mutex what that level was before.       *)
(*                                                                         *)
(* Threads lock, try and unlock what they like; as std::mutex demands,     *)
(* they unlock only what they hold.  A call that violates the hierarchy    *)
(* throws before it has changed anything, and so is no step.               *)
(***************************************************************************)
EXTENDS Integers

CONSTANTS Thread, Mutex,
          None,         \* no thread, or no mutex
          ULONG_MAX,
          Levels        \* the levels a mutex may be constructed with

ASSUME HierarchyAssumption ==
    /\ None \notin Thread \cup Mutex
    /\ ULONG_MAX \in Nat
    /\ Levels \subseteq 0 .. ULONG_MAX

VARIABLES
    hierarchy_value, previous_hierarchy_value, internal_mutex,  \* of a mutex
    this_thread_hierarchy_value,                                \* of a thread,
    call, wanted          \* the call it is in, and on which mutex

mutexes == <<hierarchy_value, previous_hierarchy_value, internal_mutex>>
threads == <<this_thread_hierarchy_value, call, wanted>>
mutexvars    == <<mutexes, threads>>

Level == 0 .. ULONG_MAX

\* In lock: before internal_mutex.lock(), and behind it.  In unlock: before
\* internal_mutex.unlock().
Place == {"outside", "locking", "locked", "unlocking"}

MutexTypeOK ==
    /\ hierarchy_value \in [Mutex -> Level]
    /\ previous_hierarchy_value \in [Mutex -> Level]
    /\ internal_mutex \in [Mutex -> Thread \cup {None}]
    /\ this_thread_hierarchy_value \in [Thread -> Level]
    /\ call \in [Thread -> Place]
    /\ wanted \in [Thread -> Mutex \cup {None}]

MutexInit ==
    /\ hierarchy_value \in [Mutex -> Levels]
    /\ previous_hierarchy_value = [m \in Mutex |-> 0]
    /\ internal_mutex = [m \in Mutex |-> None]
    /\ this_thread_hierarchy_value = [t \in Thread |-> ULONG_MAX]
    /\ call = [t \in Thread |-> "outside"]
    /\ wanted = [t \in Thread |-> None]

-----------------------------------------------------------------------------
NotAbove(t, m) ==                                   \* mutation of the next one
    this_thread_hierarchy_value[t] >= hierarchy_value[m]
check_for_hierarchy_violation(t, m) ==
    this_thread_hierarchy_value[t] > hierarchy_value[m]

Enter(t, m, place) == /\ call[t] = "outside"
                     /\ call' = [call EXCEPT ![t] = place]
                     /\ wanted' = [wanted EXCEPT ![t] = m]

Return(t) == /\ call' = [call EXCEPT ![t] = "outside"]
             /\ wanted' = [wanted EXCEPT ![t] = None]

Take(t, m) == /\ internal_mutex[m] = None
              /\ internal_mutex' = [internal_mutex EXCEPT ![m] = t]

lock(t, m) ==
    /\ check_for_hierarchy_violation(t, m)
    /\ Enter(t, m, "locking")
    /\ UNCHANGED <<mutexes, this_thread_hierarchy_value>>

Acquire(t) ==
    /\ call[t] = "locking" /\ Take(t, wanted[t])
    /\ call' = [call EXCEPT ![t] = "locked"]
    /\ UNCHANGED <<hierarchy_value, previous_hierarchy_value,
                   this_thread_hierarchy_value, wanted>>

\* If it does not get the mutex it returns false.
try_lock(t, m) ==
    /\ check_for_hierarchy_violation(t, m) /\ Take(t, m)
    /\ Enter(t, m, "locked")
    /\ UNCHANGED <<hierarchy_value, previous_hierarchy_value, this_thread_hierarchy_value>>

update_heirarchy_value(t) ==
    LET m == wanted[t] IN
    /\ call[t] = "locked"
    /\ previous_hierarchy_value' =
          [previous_hierarchy_value EXCEPT ![m] = this_thread_hierarchy_value[t]]
    /\ this_thread_hierarchy_value' =
          [this_thread_hierarchy_value EXCEPT ![t] = hierarchy_value[m]]
    /\ Return(t)
    /\ UNCHANGED <<hierarchy_value, internal_mutex>>

AnyLevel(t, m) == TRUE                              \* mutation of the next one
LastLocked(t, m) == this_thread_hierarchy_value[t] = hierarchy_value[m]

unlock(t, m) ==
    /\ internal_mutex[m] = t /\ LastLocked(t, m)
    /\ this_thread_hierarchy_value' =
          [this_thread_hierarchy_value EXCEPT ![t] = previous_hierarchy_value[m]]
    /\ Enter(t, m, "unlocking")
    /\ UNCHANGED mutexes

Release(t) ==
    /\ call[t] = "unlocking"
    /\ internal_mutex' = [internal_mutex EXCEPT ![wanted[t]] = None]
    /\ Return(t)
    /\ UNCHANGED <<hierarchy_value, previous_hierarchy_value, this_thread_hierarchy_value>>

MutexNext == \E t \in Thread :
           \/ Acquire(t) \/ update_heirarchy_value(t) \/ Release(t)
           \/ \E m \in Mutex : lock(t, m) \/ try_lock(t, m) \/ unlock(t, m)

MutexSpec == MutexInit /\ [][MutexNext]_mutexvars

-----------------------------------------------------------------------------
(* Properties.                                                             *)

\* The mutexes whose level counts for a thread.
Held(t) == {m \in Mutex \ {wanted[t]} : internal_mutex[m] = t}

Higher(t, m) == {n \in Held(t) : hierarchy_value[n] > hierarchy_value[m]}

\* l is the lowest level of the mutexes in S.
Lowest(l, S) == /\ \A m \in S : l <= hierarchy_value[m]
                /\ l = ULONG_MAX \/ \E m \in S : l = hierarchy_value[m]

\* Whatever a thread locks, tries and unlocks, in any legal order, its level is
\* that of the lowest mutex it holds, ULONG_MAX if it holds none; and each mutex
\* remembers the next higher one, although another thread may just be taking or
\* giving up the mutex it was read from.
LevelsNested ==
    /\ MutexTypeOK
    /\ \A t \in Thread :
          /\ Lowest(this_thread_hierarchy_value[t], Held(t))
          /\ \A m \in Held(t) :
                /\ Lowest(previous_hierarchy_value[m], Higher(t, m))
                /\ \A n \in Held(t) : hierarchy_value[m] = hierarchy_value[n] => m = n

\* Threads that wait for each other in a ring would be a set each member of
\* which waits for a mutex that another member has locked.
WaitsWithin(t, S) == call[t] = "locking" /\ internal_mutex[wanted[t]] \in S

\* There is no deadlock, however the calls of any number of threads interleave.
NoCircularWait == \A S \in SUBSET Thread : S # {} => \E t \in S : ~WaitsWithin(t, S)
=============================================================================
