-------------------------- MODULE ParallelAccumulate -------------------------
(***************************************************************************)
(* ch2/parallel_accumulate.cpp of cpp-concurrency-in-action: the sum of    *)
(* the elements 1 .. length, in blocks, one thread for each block but the  *)
(* last, which the calling thread does.                                    *)
(***************************************************************************)
EXTENDS Integers, FiniteSets, FiniteSetsExt

CONSTANTS MaxLength, MaxHardware,   \* bounds
          min_per_thread            \* 25 in the code

VARIABLES
    length, hardware,       \* the call's elements; what the machine answers, 0 if unknown
    at,                     \* of the caller: start, block, join, done
    threads,                \* started, not yet joined, by block
    results,                \* of a block: what has been added up so far
    left,                   \* of a block: the elements still to be added
    added, sum              \* the results added up at the end: how many, and to what

vars == <<length, hardware, at, threads, results, left, added, sum>>

MaxThreads == 1 + (MaxLength \div min_per_thread)
Block == 0 .. MaxThreads

TypeOK ==
    /\ length \in 0 .. MaxLength /\ hardware \in 0 .. MaxHardware
    /\ at \in {"start", "block", "join", "done"}
    /\ threads \subseteq Block /\ results \in [Block -> Nat]
    /\ left \in [Block -> SUBSET (1 .. MaxLength)]
    /\ added \in 0 .. MaxThreads + 1 /\ sum \in Nat

Init ==
    /\ length \in 0 .. MaxLength /\ hardware \in 0 .. MaxHardware
    /\ at = "start" /\ threads = {}
    /\ results = [b \in Block |-> 0] /\ left = [b \in Block |-> {}]
    /\ added = 0 /\ sum = 0

-----------------------------------------------------------------------------
max_threads == (length + min_per_thread - 1) \div min_per_thread
num_threads == Min({IF hardware # 0 THEN hardware ELSE 2, max_threads})
block_size  == length \div num_threads

EqualBlock(b) == (b * block_size + 1) .. (b + 1) * block_size   \* mutation of the next one
\* The last block goes to the end.
Elements(b) == (b * block_size + 1)
                 .. (IF b = num_threads - 1 THEN length ELSE (b + 1) * block_size)

\* The threads are started one after the other, each with its block.
StartThread ==
    LET b == Cardinality(threads) IN
    /\ at = "start" /\ length > 0 /\ b < num_threads - 1
    /\ threads' = threads \cup {b}
    /\ left' = [left EXCEPT ![b] = Elements(b)]
    /\ UNCHANGED <<length, hardware, at, results, added, sum>>

LastBlock ==
    /\ at = "start" /\ length > 0 /\ Cardinality(threads) = num_threads - 1
    /\ at' = "block"
    /\ left' = [left EXCEPT ![num_threads - 1] = Elements(num_threads - 1)]
    /\ UNCHANGED <<length, hardware, threads, results, added, sum>>

NothingToAdd ==
    /\ at = "start" /\ length = 0
    /\ at' = "done"
    /\ UNCHANGED <<length, hardware, threads, results, left, added, sum>>

\* One step of std::accumulate in a block.
accumulate_block(b) ==
    /\ left[b] # {}
    /\ results' = [results EXCEPT ![b] = @ + Min(left[b])]
    /\ left' = [left EXCEPT ![b] = @ \ {Min(@)}]
    /\ UNCHANGED <<length, hardware, at, threads, added, sum>>

BlockDone ==
    /\ at = "block" /\ left[num_threads - 1] = {}
    /\ at' = "join"
    /\ UNCHANGED <<length, hardware, threads, results, left, added, sum>>

\* In their order.
JoinThread ==
    /\ at = "join" /\ threads # {} /\ left[Min(threads)] = {}
    /\ threads' = threads \ {Min(threads)}
    /\ UNCHANGED <<length, hardware, at, results, left, added, sum>>

\* One step of the std::accumulate of the results.
AddResult ==
    /\ at = "join" /\ threads = {}
    /\ sum' = sum + results[added] /\ added' = added + 1
    /\ at' = IF added' = num_threads THEN "done" ELSE "join"
    /\ UNCHANGED <<length, hardware, threads, results, left>>

-----------------------------------------------------------------------------
caller == StartThread \/ LastBlock \/ NothingToAdd \/ BlockDone \/ JoinThread \/ AddResult

Next == caller \/ \E b \in Block : accumulate_block(b)

Spec == Init /\ [][Next]_vars

FairSpec == Spec /\ WF_vars(caller) /\ \A b \in Block : WF_vars(accumulate_block(b))

-----------------------------------------------------------------------------
(* Properties.                                                             *)

\* Whatever the length and the machine, the result is the sum of all elements.
SumOfAll == TypeOK /\ (at = "done" => sum = (length * (length + 1)) \div 2)

\* The calls return.
Returns == <>(at = "done")
=============================================================================
