------------------------------- MODULE GameSync ------------------------------
(***************************************************************************)
(* GameServer/Synchronization: a server thread that sends the state of a   *)
(* game and a main thread that hands it the players' inputs and stops it.  *)
(* "frame" is FrameSync.cpp: inputs are queued and applied once a frame;   *)
(* "state" is StateSync.cpp: inputs are applied as they come.              *)
(***************************************************************************)
EXTENDS Integers, Sequences, FiniteSets

CONSTANTS Player,
          MaxInputs         \* bound: inputs main hands over; two in the code

VARIABLES
    program,
    running, mutex,         \* input_mutex or state_mutex
    server, main,           \* where the two threads are
    input_queue,            \* FrameSync: of a player
    applied,                \* the moves applied to the game, of a player
    received                \* history: the inputs main has handed over, of a player

vars == <<program, running, mutex, server, main, input_queue, applied, received>>

Moves == {"MoveUp", "MoveDown"}

TypeOK ==
    /\ program \in {"frame", "state"}
    /\ running \in BOOLEAN /\ mutex \in {"free", "server", "main"}
    /\ server \in {"off", "while", "lock", "frame", "sleep", "returned"}
    /\ main \in {"start", "idle", "lock", "receive", "join", "over"}
    /\ input_queue \in [Player -> Seq(Moves)] /\ applied \in [Player -> Seq(Moves)]
    /\ received \in [Player -> Seq(Moves)]

Init ==
    /\ program \in {"frame", "state"}
    /\ running = FALSE /\ mutex = "free" /\ server = "off" /\ main = "start"
    /\ input_queue = [p \in Player |-> <<>>] /\ applied = [p \in Player |-> <<>>]
    /\ received = [p \in Player |-> <<>>]

-----------------------------------------------------------------------------
(* main, in both programs: start, receiveInput, sleep, stop.               *)

start ==
    /\ main = "start" /\ main' = "idle"
    /\ running' = TRUE /\ server' = "while"
    /\ UNCHANGED <<program, mutex, input_queue, applied, received>>

Inputs == UNION {{p} \X DOMAIN received[p] : p \in Player}

CallReceiveInput ==
    /\ main = "idle" /\ Cardinality(Inputs) < MaxInputs
    /\ main' = "lock"
    /\ UNCHANGED <<program, running, mutex, server, input_queue, applied, received>>

MainLocks ==
    /\ main = "lock" /\ mutex = "free"
    /\ main' = "receive" /\ mutex' = "main"
    /\ UNCHANGED <<program, running, server, input_queue, applied, received>>

\* receiveInput of FrameSyncServer.
QueueInput(player, move) ==
    /\ program = "frame" /\ main = "receive"
    /\ input_queue' = [input_queue EXCEPT ![player] = Append(@, move)]
    /\ received' = [received EXCEPT ![player] = Append(@, move)]
    /\ main' = "idle" /\ mutex' = "free"
    /\ UNCHANGED <<program, running, server, applied>>

\* receiveInput of StateSyncServer.
ApplyInput(player, move) ==
    /\ program = "state" /\ main = "receive"
    /\ applied' = [applied EXCEPT ![player] = Append(@, move)]
    /\ received' = [received EXCEPT ![player] = Append(@, move)]
    /\ main' = "idle" /\ mutex' = "free"
    /\ UNCHANGED <<program, running, server, input_queue>>

Stop ==
    /\ main = "idle"
    /\ main' = "join" /\ running' = FALSE
    /\ UNCHANGED <<program, mutex, server, input_queue, applied, received>>

Join ==
    /\ main = "join" /\ server = "returned"
    /\ main' = "over"
    /\ UNCHANGED <<program, running, mutex, server, input_queue, applied, received>>

-----------------------------------------------------------------------------
(* run, of the server thread.                                              *)

\* running is neither atomic nor guarded; the calls in the loop make the build
\* read it anew in every round.
While ==
    /\ server = "while"
    /\ server' = IF running THEN "lock" ELSE "returned"
    /\ UNCHANGED <<program, running, mutex, main, input_queue, applied, received>>

ServerLocks ==
    /\ server = "lock" /\ mutex = "free"
    /\ server' = "frame" /\ mutex' = "server"
    /\ UNCHANGED <<program, running, main, input_queue, applied, received>>

OneInputEach(p) == IF input_queue[p] = <<>> THEN <<>> ELSE <<Head(input_queue[p])>> \* mutation of the next one
\* Every player's queue is emptied.
Taken(p) == input_queue[p]

\* The frame is made of what was queued, and sent; the guard's scope is the body
\* of the loop, so the mutex stays locked while the server sleeps.
Frame ==
    /\ program = "frame" /\ server = "frame"
    /\ applied' = [p \in Player |-> applied[p] \o Taken(p)]
    /\ input_queue' = [p \in Player |->
                         SubSeq(input_queue[p], Len(Taken(p)) + 1, Len(input_queue[p]))]
    /\ server' = "sleep"
    /\ UNCHANGED <<program, running, mutex, main, received>>

\* broadcastGameState of StateSyncServer; its guard ends with it.
Broadcast ==
    /\ program = "state" /\ server = "frame"
    /\ server' = "sleep" /\ mutex' = "free"
    /\ UNCHANGED <<program, running, main, input_queue, applied, received>>

Wake ==
    /\ server = "sleep"
    /\ server' = "while" /\ mutex' = IF program = "frame" THEN "free" ELSE mutex
    /\ UNCHANGED <<program, running, main, input_queue, applied, received>>

-----------------------------------------------------------------------------
receiveInput == \E p \in Player, move \in Moves : QueueInput(p, move) \/ ApplyInput(p, move)
mainThread   == start \/ CallReceiveInput \/ MainLocks \/ receiveInput \/ Stop \/ Join
serverThread == While \/ ServerLocks \/ Frame \/ Broadcast \/ Wake

Next == mainThread \/ serverThread

Spec == Init /\ [][Next]_vars

FairSpec == Spec /\ WF_vars(mainThread) /\ WF_vars(serverThread)

-----------------------------------------------------------------------------
(* Properties.                                                             *)

\* Each player's moves are applied once and in the order they were made; a frame
\* that is sent leaves none behind.
MovesInOrder ==
    /\ TypeOK
    /\ \A p \in Player : applied[p] \o input_queue[p] = received[p]
    /\ server = "sleep" /\ program = "frame" => \A p \in Player : input_queue[p] = <<>>

\* main comes to its end, and with it the server thread; unless main waits for
\* ever for a mutex that the server frees and locks again each time; in FrameSync
\* it is free only between two rounds.
Starves == []<>(mutex = "free") /\ <>[](main = "lock")

StopsOrStarves == <>(main = "over") \/ Starves
=============================================================================
