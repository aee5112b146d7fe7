------------------------------- MODULE LazyInit ------------------------------
(***************************************************************************)
(* ch3/code_3_11.cpp and code_3_12.cpp of cpp-concurrency-in-action: a     *)
(* shared resource that the first thread to need it makes.  "program" is   *)
(* the way it is protected: "foo" a mutex around the check, "dcl" the      *)
(* double-checked locking, "fOO" std::call_once, "X" std::call_once around *)
(* a member function that may throw.                                       *)
(***************************************************************************)
EXTENDS Integers, FiniteSets

CONSTANTS Thread, None

VARIABLES
    program, at,
    resource_mutex, resource_flag,
    written,                \* what reset(new some_resource) has written to memory
    made,                   \* history: resources made
    broken                  \* history: do_something was called on what was not whole

vars == <<program, at, resource_mutex, resource_flag, written, made, broken>>

Programs == {"foo", "dcl", "fOO", "X"}
Writes   == {"pointer", "object"}

TypeOK ==
    /\ program \in Programs
    /\ at \in [Thread -> {"look", "lock", "locked", "call_once", "make", "unlock", "use",
                          "done", "threw"}]
    /\ resource_mutex \in Thread \cup {None}
    /\ resource_flag \in {"unset", "running", "done"}
    /\ written \subseteq Writes /\ made \in Nat /\ broken \in BOOLEAN

Start(p) == IF p = "foo" THEN "lock" ELSE IF p = "dcl" THEN "look" ELSE "call_once"

Init ==
    /\ program \in Programs /\ at = [t \in Thread |-> Start(program)]
    /\ resource_mutex = None /\ resource_flag = "unset"
    /\ written = {} /\ made = 0 /\ broken = FALSE

Goes(t, from, to) == at[t] = from /\ at' = [at EXCEPT ![t] = to]
resource_ptr == "pointer" \in written

-----------------------------------------------------------------------------
\* The first check of the double-checked locking, outside the mutex.
Look(t) ==
    /\ Goes(t, "look", IF resource_ptr THEN "use" ELSE "lock")
    /\ UNCHANGED <<program, resource_mutex, resource_flag, written, made, broken>>

Lock(t) ==
    /\ resource_mutex = None /\ Goes(t, "lock", "locked")
    /\ resource_mutex' = t
    /\ UNCHANGED <<program, resource_flag, written, made, broken>>

ChecksNoMore == TRUE                                \* mutation of the next one
NeedsOne     == ~resource_ptr

Check(t) ==
    /\ Goes(t, "locked", IF NeedsOne THEN "make" ELSE "unlock")
    /\ made' = made + IF NeedsOne THEN 1 ELSE 0
    /\ UNCHANGED <<program, resource_mutex, resource_flag, written, broken>>

Unlock(t) ==
    /\ Goes(t, "unlock", "use") /\ resource_mutex' = None
    /\ UNCHANGED <<program, resource_flag, written, made, broken>>

\* One thread runs the function; who comes meanwhile waits.
CallOnce(t) ==
    /\ resource_flag # "running"
    /\ Goes(t, "call_once", IF resource_flag = "done" THEN "use" ELSE "make")
    /\ resource_flag' = IF resource_flag = "unset" THEN "running" ELSE "done"
    /\ made' = made + IF resource_flag = "unset" THEN 1 ELSE 0
    /\ UNCHANGED <<program, resource_mutex, written, broken>>

\* The writes of reset, in the order in which others see them, which is any.
Make(t) ==
    /\ at[t] = "make"
    /\ \E w \in Writes : written' = written \cup {w}
    /\ IF written' # Writes THEN UNCHANGED <<at, resource_flag>>
       ELSE /\ Goes(t, "make", IF program \in {"fOO", "X"} THEN "use" ELSE "unlock")
            /\ resource_flag' = IF program \in {"fOO", "X"} THEN "done" ELSE resource_flag
    /\ UNCHANGED <<program, resource_mutex, made, broken>>

\* connection_manager.open throws: the flag is as before, and the next caller
\* tries again.
OpenThrows(t) ==
    /\ program = "X" /\ written = {} /\ Goes(t, "make", "threw")
    /\ resource_flag' = "unset" /\ made' = made - 1
    /\ UNCHANGED <<program, resource_mutex, written, broken>>

do_something(t) ==
    /\ Goes(t, "use", "done")
    /\ broken' = (broken \/ written # Writes)
    /\ UNCHANGED <<program, resource_mutex, resource_flag, written, made>>

-----------------------------------------------------------------------------
Run(t) == Look(t) \/ Lock(t) \/ Check(t) \/ Unlock(t) \/ CallOnce(t) \/ Make(t)
            \/ OpenThrows(t) \/ do_something(t)

Next == \E t \in Thread : Run(t)

Spec == Init /\ [][Next]_vars

FairSpec == Spec /\ \A t \in Thread : WF_vars(Run(t))

-----------------------------------------------------------------------------
(* Properties.                                                             *)

\* The resource is made once, however many threads come first, and whether or
\* not an attempt fails; and nobody uses it before it is whole, but for the
\* double-checked locking (the comments on lines 54 and 56).
MadeOnceUsedWhole ==
    /\ TypeOK
    /\ made \in {0, 1}
    /\ broken => program = "dcl"
    /\ \A t \in Thread : at[t] = "done" => made = 1

\* A failed attempt leaves nobody waiting: every call comes to its end.
Ended == \A t \in Thread : at[t] \in {"done", "threw"}

EveryCallReturns == <>Ended
=============================================================================
