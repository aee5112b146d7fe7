-------------------------- MODULE AlternatingOutput --------------------------
(***************************************************************************)
(* cpp-living-code/concurrency_related/output_alternately.cpp: two threads *)
(* print the characters of a string in turn.  The loops read idx without   *)
(* the mutex: they see any value it has had since the thread last knew it. *)
(***************************************************************************)
EXTENDS Integers, Sequences

CONSTANT length             \* of str

VARIABLES flag, idx, mutex_,
          at,               \* of a thread: the loop's condition, the lock, inside, the end
          seen,             \* the last value of idx a thread has read
          printed           \* history: who printed each character, and which

vars == <<flag, idx, mutex_, at, seen, printed>>

Threads == {1, 2}
free == 0

TypeOK ==
    /\ flag \in BOOLEAN /\ idx \in 0 .. length /\ mutex_ \in Threads \cup {free}
    /\ at \in [Threads -> {"while", "lock", "if", "done"}]
    /\ seen \in [Threads -> 0 .. length]
    /\ printed \in Seq(Threads \X (0 .. length - 1))

Init ==
    /\ flag = TRUE /\ idx = 0 /\ mutex_ = free
    /\ at = [t \in Threads |-> "while"] /\ seen = [t \in Threads |-> 0]
    /\ printed = <<>>

-----------------------------------------------------------------------------
\* while (idx < length), outside the mutex.
While(t) ==
    /\ at[t] = "while"
    /\ \E v \in seen[t] .. idx :
          /\ seen' = [seen EXCEPT ![t] = v]
          /\ at' = [at EXCEPT ![t] = IF v < length THEN "lock" ELSE "done"]
    /\ UNCHANGED <<flag, idx, mutex_, printed>>

Lock(t) ==
    /\ at[t] = "lock" /\ mutex_ = free
    /\ mutex_' = t /\ at' = [at EXCEPT ![t] = "if"]
    /\ UNCHANGED <<flag, idx, seen, printed>>

MyTurn(t) == flag = (t = 1)

FlagAlone(t) == MyTurn(t)                           \* mutation of the next one
\* idx is looked at again: the other thread may have printed the last one.
Prints(t) == MyTurn(t) /\ idx < length

\* The inside of the critical section, and its end.
Body(t) ==
    /\ at[t] = "if" /\ mutex_ = t
    /\ mutex_' = free /\ at' = [at EXCEPT ![t] = "while"]
    /\ IF Prints(t)
       THEN /\ printed' = Append(printed, <<t, idx>>)
            /\ idx' = idx + 1 /\ flag' = ~flag
       ELSE UNCHANGED <<flag, idx, printed>>
    /\ seen' = [seen EXCEPT ![t] = idx']

-----------------------------------------------------------------------------
Thread(t) == While(t) \/ Lock(t) \/ Body(t)

Next == \E t \in Threads : Thread(t)

Spec == Init /\ [][Next]_vars

FairSpec == Spec /\ \A t \in Threads : WF_vars(Thread(t))

-----------------------------------------------------------------------------
(* Properties.                                                             *)

\* The characters are printed once each, in their order, the odd ones by the
\* first thread and the even ones by the second, and none beyond the last.
PrintedInTurn ==
    /\ TypeOK
    /\ Len(printed) = idx
    /\ \A k \in 1 .. idx : printed[k] = <<IF k % 2 = 1 THEN 1 ELSE 2, k - 1>>

\* Both loops end with everything printed, however stale the values are that they
\* read; unless a thread waits for ever for a mutex that is freed again and again
\* and that the other gets every time.
Ended == idx = length /\ \A t \in Threads : at[t] = "done"

Starves == []<>(mutex_ = free) /\ \E t \in Threads : <>[](at[t] = "lock")

EndsOrStarves == <>Ended \/ Starves
=============================================================================
