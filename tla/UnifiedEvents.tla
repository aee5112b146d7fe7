----------------------------- MODULE UnifiedEvents ---------------------------
(***************************************************************************)
(* high-performance-server-programming-linux/ch10/unified_event_source.cc: *)
(* signals become bytes in a pipe, and the main loop reads them beside the *)
(* events of its sockets.  Everything is edge-triggered.                   *)
(***************************************************************************)
EXTENDS Integers, Sequences, FiniteSets, SequencesExt

CONSTANTS MaxPipe,          \* bound: signal numbers in the pipe
          MaxBacklog        \* bound: connections not yet accepted

VARIABLES
    at, events,             \* of main: in epoll_wait, or handling events, or over
    stop_server,
    pending, pipefd,        \* signals raised; numbers in the pipe
    ready, backlog

vars == <<at, events, stop_server, pending, pipefd, ready, backlog>>

Signals == {"SIGHUP", "SIGCHLD", "SIGTERM", "SIGINT"}

TypeOK ==
    /\ at \in {"epoll_wait", "events", "over"} /\ events \subseteq {"listenfd", "pipefd"}
    /\ stop_server \in BOOLEAN
    /\ pending \subseteq Signals /\ pipefd \in Seq(Signals)
    /\ ready \subseteq {"listenfd", "pipefd"} /\ backlog \in 0 .. MaxBacklog

Init ==
    /\ at = "epoll_wait" /\ events = {} /\ stop_server = FALSE
    /\ pending = {} /\ pipefd = <<>> /\ ready = {} /\ backlog = 0

-----------------------------------------------------------------------------
Raise(sig) ==
    /\ at # "over" /\ sig \notin pending /\ Len(pipefd) + Cardinality(pending) < MaxPipe
    /\ pending' = pending \cup {sig}
    /\ UNCHANGED <<at, events, stop_server, pipefd, ready, backlog>>

Connect ==
    /\ at # "over" /\ backlog < MaxBacklog
    /\ backlog' = backlog + 1 /\ ready' = ready \cup {"listenfd"}
    /\ UNCHANGED <<at, events, stop_server, pending, pipefd>>

\* Between any two steps of main; epoll_wait then starts again.
sig_handler(sig) ==
    /\ at # "over" /\ sig \in pending
    /\ pending' = pending \ {sig}
    /\ pipefd' = Append(pipefd, sig) /\ ready' = ready \cup {"pipefd"}
    /\ UNCHANGED <<at, events, stop_server, backlog>>

EpollWait ==
    LET told == {e \in ready : IF e = "pipefd" THEN pipefd # <<>> ELSE backlog > 0}
    IN  /\ at = "epoll_wait" /\ told # {}
        /\ at' = "events" /\ events' = told /\ ready' = {}
        /\ UNCHANGED <<stop_server, pending, pipefd, backlog>>

Handle(e) == at = "events" /\ e \in events /\ events' = events \ {e}

\* One connection, even if several wait; what it sends is never read.
Accept ==
    /\ Handle("listenfd")
    /\ backlog' = backlog - 1
    /\ UNCHANGED <<at, stop_server, pending, pipefd, ready>>

OneNumber == IF pipefd = <<>> THEN <<>> ELSE <<Head(pipefd)>> \* mutation of the next one
\* recv into 1024 bytes: everything that is in the pipe by then, perhaps nothing.
Received == pipefd

ReadSignals ==
    /\ Handle("pipefd")
    /\ pipefd' = SubSeq(pipefd, Len(Received) + 1, Len(pipefd))
    /\ stop_server' = (stop_server \/ ToSet(Received) \cap {"SIGTERM", "SIGINT"} # {})
    /\ UNCHANGED <<at, pending, ready, backlog>>

RoundEnds ==
    /\ at = "events" /\ events = {}
    /\ at' = IF stop_server THEN "over" ELSE "epoll_wait"
    /\ UNCHANGED <<events, stop_server, pending, pipefd, ready, backlog>>

-----------------------------------------------------------------------------
main == EpollWait \/ Accept \/ ReadSignals \/ RoundEnds

Next == main \/ Connect \/ \E sig \in Signals : Raise(sig) \/ sig_handler(sig)

Spec == Init /\ [][Next]_vars

\* main runs, and a pending signal is delivered.
FairSpec == Spec /\ WF_vars(main) /\ \A sig \in Signals : WF_vars(sig_handler(sig))

-----------------------------------------------------------------------------
(* Properties.                                                             *)

\* SIGTERM and SIGINT end the server, whatever other signals and connections
\* arrive before, with or after them.
StopsOnTerm == (pending \cap {"SIGTERM", "SIGINT"} # {}) ~> (at = "over")
=============================================================================
