------------------------------ MODULE MCThreads ------------------------------
(***************************************************************************)
(* Instances of the programs with threads for TLC.  A behaviour is one of  *)
(* the program that "which" names; the others rest.                        *)
(***************************************************************************)
EXTENDS Integers

CONSTANTS Worker, None,                             \* code_3_11.cpp, code_3_12.cpp
          Last,                                     \* condition_variable.cpp
          StrLength,                                \* output_alternately.cpp
          LowValue, HighValue, Tries,               \* threadsafe_stack.cpp
          MaxLength, MaxHardware, min_per_thread,   \* parallel_accumulate.cpp
          Player, MaxInputs                         \* FrameSync.cpp, StateSync.cpp

ASSUME ThreadsAssumption ==
    /\ None \notin Worker
    /\ {Last, StrLength, Tries, MaxLength, MaxHardware, MaxInputs} \subseteq Nat
    /\ {LowValue, HighValue} \subseteq Int /\ LowValue <= HighValue
    /\ min_per_thread \in Nat \ {0}

VARIABLES which,
          q_m, data_queue, q_i, producer, consumer, processed,
          flag, idx, mutex_, o_at, seen, printed,
          data, s_m, adding, next, popping, tried, top, popped, thrown,
          z_program, z_at, resource_mutex, resource_flag, written, made, broken,
          length, hardware, p_at, p_threads, results, left, added, sum,
          g_program, running, g_mutex, g_server, g_main, input_queue, applied, received

Queue    == INSTANCE DataQueue WITH m <- q_m, i <- q_i
Output   == INSTANCE AlternatingOutput WITH length <- StrLength, at <- o_at
Stack    == INSTANCE ThreadsafeStack WITH Low <- LowValue, High <- HighValue, m <- s_m
Lazy     == INSTANCE LazyInit WITH Thread <- Worker, program <- z_program, at <- z_at
Parallel == INSTANCE ParallelAccumulate WITH at <- p_at, threads <- p_threads
Game     == INSTANCE GameSync WITH
    program <- g_program, mutex <- g_mutex, server <- g_server, main <- g_main

queue    == <<q_m, data_queue, q_i, producer, consumer, processed>>
output   == <<flag, idx, mutex_, o_at, seen, printed>>
stack    == <<data, s_m, adding, next, popping, tried, top, popped, thrown>>
lazy     == <<z_program, z_at, resource_mutex, resource_flag, written, made, broken>>
parallel == <<length, hardware, p_at, p_threads, results, left, added, sum>>
game     == <<g_program, running, g_mutex, g_server, g_main, input_queue, applied, received>>
threaded == <<queue, output, stack, lazy, parallel, game>>

ThreadPrograms == {"queue", "output", "stack", "lazy", "parallel", "game"}

ThreadsInit ==
    /\ Queue!Init /\ Output!Init /\ Stack!Init /\ Lazy!Init /\ Parallel!Init
    /\ Game!Init
    \* One initial state is enough for a program that rests.
    /\ which = "lazy" \/ z_program = "foo"
    /\ which = "parallel" \/ (length = 0 /\ hardware = 0)
    /\ which = "game" \/ g_program = "frame"

\* A step of the program the behaviour is about.
OneProgram(name, step) ==
    /\ which = name /\ step /\ UNCHANGED which
    /\ name # "queue" => UNCHANGED queue
    /\ name # "output" => UNCHANGED output
    /\ name # "stack" => UNCHANGED stack
    /\ name # "lazy" => UNCHANGED lazy
    /\ name # "parallel" => UNCHANGED parallel
    /\ name # "game" => UNCHANGED game

ThreadsNext ==
    \/ OneProgram("queue", Queue!Next)
    \/ OneProgram("output", Output!Next)
    \/ OneProgram("stack", Stack!Next)
    \/ OneProgram("lazy", Lazy!Next)
    \/ OneProgram("parallel", Parallel!Next)
    \/ OneProgram("game", Game!Next)

\* Every thread that can take a step takes one in the end.
ThreadsFair ==
    /\ WF_queue(which = "queue" /\ Queue!data_preparation_thread)
    /\ WF_queue(which = "queue" /\ Queue!data_processing_thread)
    /\ \A t \in {1, 2} : WF_output(which = "output" /\ Output!Thread(t))
    /\ WF_stack(which = "stack" /\ Stack!add_to_stack)
    /\ WF_stack(which = "stack" /\ Stack!pop_from_stack)
    /\ \A t \in Worker : WF_lazy(which = "lazy" /\ Lazy!Run(t))
    /\ WF_parallel(which = "parallel" /\ Parallel!caller)
    /\ \A b \in Parallel!Block : WF_parallel(which = "parallel" /\ Parallel!accumulate_block(b))
    /\ WF_game(which = "game" /\ Game!mainThread)
    /\ WF_game(which = "game" /\ Game!serverThread)

-----------------------------------------------------------------------------
\* What the threads of each program share is as it should be: condition_variable.cpp,
\* output_alternately.cpp, threadsafe_stack.cpp, code_3_11.cpp and code_3_12.cpp,
\* parallel_accumulate.cpp, FrameSync.cpp and StateSync.cpp.
ThreadsShareRightly ==
    /\ which = "queue" => Queue!HandedOver
    /\ which = "output" => Output!PrintedInTurn
    /\ which = "stack" => Stack!NothingLostOrDoubled
    /\ which = "lazy" => Lazy!MadeOnceUsedWhole
    /\ which = "parallel" => Parallel!SumOfAll
    /\ which = "game" => Game!MovesInOrder

\* And each program ends, unless a thread of one waits for ever for a mutex that
\* is freed again and again and that others take each time, or is woken for ever
\* for no reason.
Ended ==
    /\ which = "queue" => consumer = "done"
    /\ which = "output" => Output!Ended
    /\ which = "stack" => Stack!Ended
    /\ which = "lazy" => Lazy!Ended
    /\ which = "parallel" => p_at = "done"
    /\ which = "game" => g_main = "over"

ThreadsEnd == <>Ended \/ Queue!WokenForEver \/ Output!Starves \/ Game!Starves
=============================================================================
