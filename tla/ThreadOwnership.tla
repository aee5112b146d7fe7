--------------------------- MODULE ThreadOwnership ---------------------------
(***************************************************************************)
(* ch2 of cpp-concurrency-in-action: who owns a thread.  std::thread       *)
(* itself (code_2_5.cpp), and three classes that join for it:              *)
(* joining_thread (joining_thread.cpp), scoped_thread (scoped_thread.cpp)  *)
(* and thread_guard (code_2_2.cpp).  One thread, main, makes the calls, in *)
(* any order that the types allow.                                         *)
(***************************************************************************)
EXTENDS FiniteSets

CONSTANTS Thread,
          Raw, Joining, Scoped,     \* variables of the three types that own a thread
          None

VARIABLES
    live,                   \* the variables in scope
    owns,                   \* of each of them; None when it is not joinable
    guarded,                \* the std::threads a thread_guard refers to
    run,                    \* of a thread: not started, running, returned
    joined, detached,
    terminated              \* the std::thread that called std::terminate, or None

vars == <<live, owns, guarded, run, joined, detached, terminated>>

Handle == Raw \cup Joining \cup Scoped

TypeOK ==
    /\ live \subseteq Handle /\ owns \in [Handle -> Thread \cup {None}]
    /\ guarded \subseteq Raw
    /\ run \in [Thread -> {"new", "running", "returned"}]
    /\ joined \subseteq Thread /\ detached \subseteq Thread
    /\ terminated \in Handle \cup {None}

Init ==
    /\ live = {} /\ owns = [h \in Handle |-> None] /\ guarded = {}
    /\ run = [t \in Thread |-> "new"] /\ joined = {} /\ detached = {}
    /\ terminated = None

joinable(h) == owns[h] # None
Running == terminated = None        \* the program still runs

-----------------------------------------------------------------------------
(* std::thread.                                                            *)

Returns(t) ==
    /\ Running /\ run[t] = "running"
    /\ run' = [run EXCEPT ![t] = "returned"]
    /\ UNCHANGED <<live, owns, guarded, joined, detached, terminated>>

\* join waits for the thread to return.
CanJoin(h) == joinable(h) => run[owns[h]] = "returned"

\* std::terminate if h owns a thread: of assigning to h, and of destroying it.
StdTerminates(h, own) == own[h] # None

StdAssign(h, own, t) ==
    IF StdTerminates(h, own)
    THEN terminated' = h /\ owns' = own
    ELSE owns' = [own EXCEPT ![h] = t] /\ UNCHANGED terminated

StdDestroy(h, own) ==
    /\ live' = live \ {h} /\ owns' = own
    /\ terminated' = IF StdTerminates(h, own) THEN h ELSE terminated

-----------------------------------------------------------------------------
(* What the classes add.                                                   *)

NeverJoins(h) == owns                               \* mutation of the next one
\* if (joinable()) join();
AfterJoin(h) == [owns EXCEPT ![h] = None]

Joins(h)  == h \in Joining \cup Scoped
Before(h) == IF Joins(h) THEN AfterJoin(h) ELSE owns
JoinedAt(h) == joined \cup IF Joins(h) /\ joinable(h) THEN {owns[h]} ELSE {}

Construct(h) ==
    /\ Running /\ h \in (Raw \cup Joining) \ live
    /\ live' = live \cup {h}
    /\ UNCHANGED <<owns, guarded, run, joined, detached, terminated>>

\* h = std::thread(f), or a joining_thread constructed with f.
Start(h, t) ==
    /\ Running /\ h \in live \ Scoped /\ run[t] = "new"
    /\ Joins(h) => CanJoin(h)
    /\ run' = [run EXCEPT ![t] = "running"]
    /\ StdAssign(h, Before(h), t)
    /\ joined' = JoinedAt(h)
    /\ UNCHANGED <<live, guarded, detached>>

\* h = std::move(g); a std::thread may also be moved into a joining_thread.
MoveAssign(h, g) ==
    /\ Running /\ {h, g} \subseteq live
    /\ {h, g} \subseteq Raw \/ (h \in Joining /\ g \in Raw \cup Joining)
    /\ Joins(h) => CanJoin(h)
    /\ StdAssign(h, [Before(h) EXCEPT ![g] = IF StdTerminates(h, Before(h)) THEN @ ELSE None],
                 Before(h)[g])
    /\ joined' = JoinedAt(h)
    /\ UNCHANGED <<live, guarded, run, detached>>

\* The move constructor of joining_thread.
MoveConstruct(h, g) ==
    /\ Running /\ h \in Joining \ live /\ g \in live \cap Joining
    /\ live' = live \cup {h}
    /\ owns' = [owns EXCEPT ![h] = owns[g], ![g] = None]
    /\ UNCHANGED <<guarded, run, joined, detached, terminated>>

\* scoped_thread throws when there is no thread; else it is joined once, in the
\* destructor, and nothing can take it away.
ConstructScoped(h, g) ==
    /\ Running /\ h \in Scoped \ live /\ g \in live \cap Raw /\ joinable(g)
    /\ live' = live \cup {h}
    /\ owns' = [owns EXCEPT ![h] = owns[g], ![g] = None]
    /\ UNCHANGED <<guarded, run, joined, detached, terminated>>

Swap(h, g) ==
    /\ Running /\ {h, g} \subseteq live \cap Joining
    /\ owns' = [owns EXCEPT ![h] = owns[g], ![g] = owns[h]]
    /\ UNCHANGED <<live, guarded, run, joined, detached, terminated>>

Join(h) ==
    /\ Running /\ h \in live \ Scoped /\ joinable(h) /\ CanJoin(h)
    /\ owns' = [owns EXCEPT ![h] = None] /\ joined' = joined \cup {owns[h]}
    /\ UNCHANGED <<live, guarded, run, detached, terminated>>

Detach(h) ==
    /\ Running /\ h \in live \ Scoped /\ joinable(h)
    /\ owns' = [owns EXCEPT ![h] = None] /\ detached' = detached \cup {owns[h]}
    /\ UNCHANGED <<live, guarded, run, joined, terminated>>

Guard(h) ==
    /\ Running /\ h \in (live \cap Raw) \ guarded
    /\ guarded' = guarded \cup {h}
    /\ UNCHANGED <<live, owns, run, joined, detached, terminated>>

\* ~thread_guard: the guard goes before the thread it refers to.
Unguard(h) ==
    /\ Running /\ h \in guarded /\ CanJoin(h)
    /\ guarded' = guarded \ {h}
    /\ owns' = AfterJoin(h)
    /\ joined' = joined \cup IF joinable(h) THEN {owns[h]} ELSE {}
    /\ UNCHANGED <<live, run, detached, terminated>>

Destroy(h) ==
    /\ Running /\ h \in live \ guarded
    /\ Joins(h) => CanJoin(h)
    /\ StdDestroy(h, Before(h))
    /\ joined' = JoinedAt(h)
    /\ UNCHANGED <<guarded, run, detached>>

-----------------------------------------------------------------------------
main == \/ \E h \in Handle : \/ Construct(h) \/ Join(h) \/ Detach(h) \/ Guard(h) \/ Unguard(h)
                             \/ Destroy(h) \/ \E t \in Thread : Start(h, t)
        \/ \E h, g \in Handle : \/ MoveAssign(h, g) \/ MoveConstruct(h, g)
                                \/ ConstructScoped(h, g) \/ Swap(h, g)

Next == main \/ \E t \in Thread : Returns(t)

Spec == Init /\ [][Next]_vars

-----------------------------------------------------------------------------
(* Properties.                                                             *)

\* Until std::terminate is called, a thread that was started has exactly one
\* owner in scope, or was joined after it had returned, or was detached; so when
\* no variable is left, only detached threads still run.  std::terminate is only
\* called for a std::thread that neither of the classes holds.
OneOwnerEach ==
    /\ TypeOK
    /\ terminated \in Raw \cup {None}
    /\ Running => \A t \in Thread :
          /\ run[t] # "new" /\ t \notin joined \cup detached =>
                Cardinality({h \in live : owns[h] = t}) = 1
          /\ t \in joined => run[t] = "returned"
          /\ live = {} /\ run[t] = "running" => t \in detached
=============================================================================
