----------------------------- MODULE MCPrograms -----------------------------
(***************************************************************************)
(* Instances of the programs with threads (MCThreads), and of those with   *)
(* several processes or an event loop, whose liveness TLC checks.  A       *)
(* behaviour is one of the program that "which" names; the others rest.    *)
(***************************************************************************)
EXTENDS MCThreads, FiniteSets

CONSTANTS Client, MaxLines, Reads, PipeRoom,        \* the servers of TCP ch10 and ch11
          LoopFds, LoopInbox,                       \* TCP ch12 and ch17; epoll.cc
          MaxPipe, MaxBacklog,                      \* unified_event_source.cc
          SepLines,                                 \* TCP ch16
          ReactorFds, MAX_EVENTS, MAX_BUF_LEN, IDLE,    \* Reactor.cpp
          Timer, Null, MaxClock, MaxDelay, TimedFds, TIMESLOT,  \* nonactive_connection.cc
          MaxInbox                                  \* of the last two

\* Finitely many clients, none of which is "no client"; lines and reads are counted.
ASSUME ProgramsAssumption ==
    /\ IsFiniteSet(Client) /\ None \notin Client
    /\ {MaxLines, Reads, PipeRoom} \subseteq Nat

VARIABLES
    main, clnt_sock, child, str_len, sigchld, handling, f_backlog, holds, up, f_eof,
    down, writer, reader, sent, got, lost, saver, i, fds, saved,
    program, reported, reading, writing, killed, e_open, e_ready, e_backlog, e_inbox,
    e_peer,
    u_at, events, u_stop_server, u_pending, pipefd, u_ready, u_backlog,
    streams, server, buffered, said, readable, h_eof, client, h_heard, answer,
    g_events, checkpos, epoll, r_phase, r_batch, r_open, r_backlog, r_inbox, r_peer,
    stranded, silent,
    head, tail, prev, n_next, expire, live, n_running, n_target, n_at, cur, now_time,
    now, users, user_data, n_stop_server, timeout, n_phase, n_batch, n_open,
    n_backlog, n_inbox, n_fin, n_ready, pipe, n_pending, alarmAt, n_heard

Fork == INSTANCE ForkServer WITH
    BUF_SIZE <- 2, backlog <- f_backlog, eof <- f_eof

Saving == INSTANCE SavingServer WITH
    BUF_SIZE <- 1, backlog <- f_backlog, eof <- f_eof

Loops == INSTANCE EchoLoops WITH
    Fds <- LoopFds, MaxInbox <- LoopInbox, open <- e_open, ready <- e_ready,
    backlog <- e_backlog, inbox <- e_inbox, peer <- e_peer

Unified == INSTANCE UnifiedEvents WITH
    at <- u_at, stop_server <- u_stop_server, pending <- u_pending, ready <- u_ready,
    backlog <- u_backlog

Half == INSTANCE HalfClose WITH
    Lines <- SepLines, eof <- h_eof, heard <- h_heard

React == INSTANCE Reactor WITH
    Fds <- ReactorFds, phase <- r_phase, batch <- r_batch, open <- r_open,
    backlog <- r_backlog, inbox <- r_inbox, peer <- r_peer

Idle == INSTANCE NonactiveConn WITH
    Fds <- TimedFds, next <- n_next, running <- n_running, target <- n_target,
    at <- n_at, stop_server <- n_stop_server, phase <- n_phase, batch <- n_batch,
    open <- n_open, backlog <- n_backlog, inbox <- n_inbox, fin <- n_fin,
    ready <- n_ready, pending <- n_pending, heard <- n_heard

forked   == <<main, clnt_sock, child, str_len, sigchld, handling, f_backlog, holds,
             up, f_eof, down, writer, reader, sent, got, lost>>
saving   == <<saver, i, fds, saved>>
processes == <<forked, saving>>
loops    == <<program, reported, reading, writing, killed, e_open, e_ready, e_backlog,
             e_inbox, e_peer>>
unified  == <<u_at, events, u_stop_server, u_pending, pipefd, u_ready, u_backlog>>
half     == <<streams, server, buffered, said, readable, h_eof, client, h_heard,
             answer>>
reactor  == <<g_events, checkpos, epoll, r_phase, r_batch, r_open, r_backlog, r_inbox,
             r_peer, stranded, silent>>
idle     == <<head, tail, prev, n_next, expire, live, n_running, n_target, n_at, cur,
             now_time, now, users, user_data, n_stop_server, timeout, n_phase,
             n_batch, n_open, n_backlog, n_inbox, n_fin, n_ready, pipe, n_pending,
             alarmAt, n_heard>>

looping == <<processes, loops, unified, half, reactor, idle>>
all     == <<which, threaded, looping>>

LoopPrograms == {"fork", "saving", "loops", "unified", "half", "reactor", "idle"}

LoopsInit ==
    /\ Saving!SavingInit /\ Loops!Init /\ Unified!Init /\ Half!Init
    /\ React!Init /\ Idle!ServerInit
    \* One initial state is enough for a program that rests.
    /\ which = "loops" \/ program = "select"
    /\ which = "half" \/ streams = "one"

\* A step of the program the behaviour is about.
OneLoop(name, step) ==
    /\ which = name /\ step /\ UNCHANGED <<which, threaded>>
    /\ name \notin {"fork", "saving"} => UNCHANGED processes
    /\ name # "loops" => UNCHANGED loops
    /\ name # "unified" => UNCHANGED unified
    /\ name # "half" => UNCHANGED half
    /\ name # "reactor" => UNCHANGED reactor
    /\ name # "idle" => UNCHANGED idle

LoopsNext ==
    \/ OneLoop("fork", Fork!Next /\ UNCHANGED saving)
    \/ OneLoop("saving", Saving!SavingNext)
    \/ OneLoop("loops", Loops!Next)
    \/ OneLoop("unified", Unified!Next)
    \/ OneLoop("half", Half!Next)
    \/ OneLoop("reactor", React!Next)
    \/ OneLoop("idle", Idle!ServerNext)

\* Processes run, time passes, signals are delivered.
LoopsFair ==
    /\ WF_forked(which = "fork" /\ Fork!parent)
    /\ \A c \in Client : /\ WF_forked(which = "fork" /\ Fork!serve(c))
                         /\ WF_forked(which = "fork" /\ Fork!read_routine(c))
    /\ WF_processes(which = "saving" /\ Saving!savingParent)
    /\ WF_processes(which = "saving" /\ Saving!saverProcess)
    /\ \A c \in Client : /\ WF_processes(which = "saving" /\ Saving!ServeAndTell(c))
                         /\ WF_forked(which = "saving" /\ Saving!read_routine(c))
    /\ WF_loops(which = "loops" /\ Loops!main)
    /\ WF_unified(which = "unified" /\ Unified!main)
    /\ \A sig \in Unified!Signals : WF_unified(which = "unified" /\ Unified!sig_handler(sig))
    /\ WF_half(which = "half" /\ (Half!sep_serv \/ Half!sep_serv2))
    /\ WF_half(which = "half" /\ Half!sep_clnt)
    /\ WF_reactor(which = "reactor" /\ React!main)
    /\ WF_reactor(which = "reactor" /\ React!Clock)
    /\ WF_idle(which = "idle" /\ Idle!main)
    /\ WF_idle(which = "idle" /\ Idle!ClockTick)
    /\ WF_idle(which = "idle" /\ Idle!Deliver)

-----------------------------------------------------------------------------
EachInit == which \in ThreadPrograms \cup LoopPrograms /\ ThreadsInit /\ LoopsInit

EachNext == \/ ThreadsNext /\ UNCHANGED looping
            \/ LoopsNext

EachSpec == EachInit /\ [][EachNext]_all /\ ThreadsFair /\ LoopsFair

\* The echo servers with processes of TCP ch10 and ch11.
ProcessesEchoWhole ==
    /\ which = "fork" => Fork!EchoedWhole /\ Fork!ZombiesAccounted
    /\ which = "saving" => Saving!EchoedWhole /\ Saving!AllSaved

\* A client that leaves, or has said its last line, is answered: TCP ch10, ch11, ch16.
ClientsLetGo ==
    <>[](/\ which = "fork" => Fork!LetGo
         /\ which = "saving" => Saving!LetGo \/ Saving!PipeStuck
         /\ which = "half" => Half!Answered)

\* The event loops leave nothing that has happened unserved: TCP ch12 and ch17,
\* epoll.cc, echo_server.cc and unified_event_source.cc.
LoopsServe ==
    /\ which = "loops" => Loops!EverythingRead /\ Loops!EveryoneAccepted
    /\ which = "unified" => Unified!StopsOnTerm

\* Reactor.cpp and nonactive_connection.cc.
DataIsTaken    == which = "reactor" => React!DataIsTaken
SilentIsClosed == which = "idle" => Idle!SilentIsClosed
=============================================================================
