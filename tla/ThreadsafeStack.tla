--------------------------- MODULE ThreadsafeStack ---------------------------
(***************************************************************************)
(* ch3/threadsafe_stack.cpp of cpp-concurrency-in-action: a stack with a   *)
(* mutex in each method, one thread that pushes and one that pops.  The    *)
(* popping thread never asks empty(): pop decides under its own lock.      *)
(***************************************************************************)
EXTENDS Integers, Sequences, SequencesExt

CONSTANTS Low, High,      \* the values pushed: 4 .. 9 in the code
          Tries             \* calls of pop: 5 in the code

VARIABLES
    data, m,
    adding, next,           \* add_to_stack: where it is, and i
    popping, tried, top,    \* pop_from_stack: where it is, i, the value read
    popped, thrown          \* history: values popped; empty_stack exceptions

vars == <<data, m, adding, next, popping, tried, top, popped, thrown>>

Nobody == "nobody"

TypeOK ==
    /\ data \in Seq(Low .. High) /\ m \in {Nobody, "add", "pop"}
    /\ adding \in {"call", "push", "unlock", "done"} /\ next \in Low .. High + 1
    /\ popping \in {"call", "test", "pop", "unlock", "done"}
    /\ tried \in 0 .. Tries /\ top \in Low - 1 .. High
    /\ popped \in Seq(Low .. High) /\ thrown \in 0 .. Tries

Init ==
    /\ data = <<>> /\ m = Nobody
    /\ adding = "call" /\ next = Low
    /\ popping = "call" /\ tried = 0 /\ top = Low - 1
    /\ popped = <<>> /\ thrown = 0

-----------------------------------------------------------------------------
NoLock(thread) == UNCHANGED m                       \* mutation of the next one
Lock(thread)   == m = Nobody /\ m' = thread
Unlock         == m' = Nobody

\* push, called for each of the values.
PushLocks ==
    /\ adding = "call" /\ next <= High
    /\ Lock("add") /\ adding' = "push"
    /\ UNCHANGED <<data, next, popping, tried, top, popped, thrown>>

Push ==
    /\ adding = "push"
    /\ data' = Append(data, next) /\ adding' = "unlock"
    /\ UNCHANGED <<m, next, popping, tried, top, popped, thrown>>

PushReturns ==
    /\ adding = "unlock" /\ Unlock
    /\ next' = next + 1 /\ adding' = IF next = High THEN "done" ELSE "call"
    /\ UNCHANGED <<data, popping, tried, top, popped, thrown>>

\* pop, in either form: test, read the top, remove it.
PopLocks ==
    /\ popping = "call" /\ tried < Tries
    /\ Lock("pop") /\ popping' = "test"
    /\ UNCHANGED <<data, adding, next, tried, top, popped, thrown>>

ReadTop ==
    /\ popping = "test" /\ data # <<>>
    /\ top' = data[Len(data)] /\ popping' = "pop"
    /\ UNCHANGED <<data, m, adding, next, tried, popped, thrown>>

Throw ==
    /\ popping = "test" /\ data = <<>>
    /\ thrown' = thrown + 1 /\ popping' = "unlock"
    /\ UNCHANGED <<data, m, adding, next, tried, top, popped>>

Pop ==
    /\ popping = "pop"
    /\ data' = Front(data) /\ popped' = Append(popped, top) /\ popping' = "unlock"
    /\ UNCHANGED <<m, adding, next, tried, top, thrown>>

PopReturns ==
    /\ popping = "unlock" /\ Unlock
    /\ tried' = tried + 1 /\ popping' = IF tried' = Tries THEN "done" ELSE "call"
    /\ UNCHANGED <<data, adding, next, top, popped, thrown>>

-----------------------------------------------------------------------------
add_to_stack   == PushLocks \/ Push \/ PushReturns
pop_from_stack == PopLocks \/ ReadTop \/ Throw \/ Pop \/ PopReturns

Next == add_to_stack \/ pop_from_stack

Spec == Init /\ [][Next]_vars

FairSpec == Spec /\ WF_vars(add_to_stack) /\ WF_vars(pop_from_stack)

-----------------------------------------------------------------------------
(* Properties.                                                             *)

Pushed == Low .. IF adding = "unlock" THEN next ELSE next - 1

\* Every value pushed is on the stack or has been popped, once; the stack is in
\* the order of the pushes, and what lies under a value when it is popped was
\* pushed before it; every call of pop is accounted for.
NothingLostOrDoubled ==
    /\ TypeOK
    /\ IsInjective(data \o popped) /\ ToSet(data \o popped) = Pushed
    /\ \A k \in 1 .. Len(data) - 1 : data[k] < data[k + 1]
    /\ Len(popped) + thrown = tried + (IF popping = "unlock" THEN 1 ELSE 0)

\* Both threads end, as f joins them: what is left are the values never popped.
Ended == adding = "done" /\ popping = "done" /\ m = Nobody

BothReturn == <>Ended
=============================================================================
