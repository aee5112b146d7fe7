------------------------------ MODULE DataQueue ------------------------------
(***************************************************************************)
(* The producer and the consumer of cpp-concurrency-in-action,             *)
(* ch4/condition_variable.cpp: data_preparation_thread pushes 0 .. Last on *)
(* a queue under a mutex and notifies after it has unlocked it;            *)
(* data_processing_thread waits on a condition variable with a predicate   *)
(* and stops at Last.                                                      *)
(***************************************************************************)
EXTENDS Integers, Sequences

CONSTANT Last       \* 1000 in the code

VARIABLES
    m,              \* who holds the mutex: "producer", "consumer" or "nobody"
    data_queue,
    i,              \* of the producer
    producer, consumer,     \* where they are
    processed       \* history: what the consumer has taken

vars == <<m, data_queue, i, producer, consumer, processed>>

TypeOK ==
    /\ m \in {"nobody", "producer", "consumer"}
    /\ data_queue \in Seq(0 .. Last) /\ i \in 0 .. Last + 1
    /\ producer \in {"lock", "push", "notify", "done"}
    /\ consumer \in {"lock", "test", "asleep", "take", "print", "done"}
    /\ processed \in Seq(0 .. Last)

Init ==
    /\ m = "nobody" /\ data_queue = <<>> /\ i = 0
    /\ producer = "lock" /\ consumer = "lock"
    /\ processed = <<>>

-----------------------------------------------------------------------------
PrepareLock ==
    /\ producer = "lock" /\ m = "nobody"
    /\ m' = "producer" /\ producer' = "push"
    /\ UNCHANGED <<data_queue, i, consumer, processed>>

\* push, and the end of the block that holds the lock_guard.
Push ==
    /\ producer = "push"
    /\ data_queue' = Append(data_queue, i)
    /\ m' = "nobody" /\ producer' = "notify"
    /\ UNCHANGED <<i, consumer, processed>>

NotWoken == consumer                                \* mutation of the next one
\* A thread woken up still has to take the mutex.
Awake == IF consumer = "asleep" THEN "lock" ELSE consumer

notify_one ==
    /\ producer = "notify"
    /\ consumer' = Awake
    /\ i' = i + 1
    /\ producer' = IF i = Last THEN "done" ELSE "lock"
    /\ UNCHANGED <<m, data_queue, processed>>

-----------------------------------------------------------------------------
ProcessLock ==
    /\ consumer = "lock" /\ m = "nobody"
    /\ m' = "consumer" /\ consumer' = "test"
    /\ UNCHANGED <<data_queue, i, producer, processed>>

SleepFirst == consumer = "test"                     \* mutation of the next one
MustWait == consumer = "test" /\ data_queue = <<>>

\* wait gives up the mutex and falls asleep in one step.
Wait ==
    /\ MustWait
    /\ m' = "nobody" /\ consumer' = "asleep"
    /\ UNCHANGED <<data_queue, i, producer, processed>>

\* A condition variable may wake its thread for no reason.
SpuriousWakeup ==
    /\ consumer = "asleep" /\ consumer' = "lock"
    /\ UNCHANGED <<m, data_queue, i, producer, processed>>

WaitReturns ==
    /\ consumer = "test" /\ ~MustWait
    /\ consumer' = "take"
    /\ UNCHANGED <<m, data_queue, i, producer, processed>>

\* front, pop and unlock.
Take ==
    /\ consumer = "take"
    /\ processed' = Append(processed, Head(data_queue))
    /\ data_queue' = Tail(data_queue)
    /\ m' = "nobody" /\ consumer' = "print"
    /\ UNCHANGED <<i, producer>>

PrintOrBreak ==
    /\ consumer = "print"
    /\ consumer' = IF processed[Len(processed)] = Last THEN "done" ELSE "lock"
    /\ UNCHANGED <<m, data_queue, i, producer, processed>>

-----------------------------------------------------------------------------
data_preparation_thread == PrepareLock \/ Push \/ notify_one

data_processing_thread == ProcessLock \/ Wait \/ WaitReturns \/ Take \/ PrintOrBreak

Next == data_preparation_thread \/ data_processing_thread \/ SpuriousWakeup

Spec == Init /\ [][Next]_vars

\* Both threads are scheduled.
FairSpec == Spec /\ WF_vars(data_preparation_thread) /\ WF_vars(data_processing_thread)

-----------------------------------------------------------------------------
(* Properties.                                                             *)

\* The numbers come out as they went in, each once, and no notification is
\* lost: while the consumer sleeps beside a number in the queue, the producer
\* has yet to notify it, and it never sleeps when the producer has gone.
HandedOver ==
    LET pushed == processed \o data_queue
    IN  /\ TypeOK
        /\ \A k \in 1 .. Len(pushed) : pushed[k] = k - 1
        /\ consumer = "asleep" =>
              /\ producer # "done"
              /\ data_queue # <<>> => producer = "notify"

\* The consumer gets to the last number, whether a notification comes before it
\* waits or for several numbers at once; a mutex need not be fair, so it is
\* excused if it is woken for no reason for ever.
WokenForEver == []<><<SpuriousWakeup>>_vars

AllProcessed == <>(consumer = "done") \/ WokenForEver
=============================================================================
