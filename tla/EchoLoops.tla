------------------------------- MODULE EchoLoops -----------------------------
(***************************************************************************)
(* The echo servers with one process and an event loop.  They differ in    *)
(* who tells them of events, in which descriptors are edge-triggered and   *)
(* in how often they read per event; "program" says which one runs.        *)
(*   select, epollserv, level, edge, edge2:                                *)
(*       TCP-IP-networking-programming/chapter_12/echo_selectserv.c,       *)
(*       chapter_17/echo_epollserv.c, echo_epollserv_level_trigger.c,      *)
(*       echo_epollserv_edge_trigger.c, echo_epollserv_edge_trigger2.c     *)
(*   lt, et, echo: high-performance-server-programming-linux/ch09/         *)
(*       epoll.cc with each of its two workers, echo_server.cc             *)
(***************************************************************************)
EXTENDS Integers, FiniteSets, FiniteSetsExt

CONSTANTS Fds,              \* numbers above those of listenfd and udpfd
          None,
          MaxInbox          \* bound: buffers full of data in one socket

listenfd == 3
udpfd    == 4

VARIABLES
    program,
    reported,               \* what select or epoll_wait has returned, not yet handled
    reading,                \* the connection a loop reads until there is no more
    writing,                \* the connection whose echo write waits to get rid of
    killed,                 \* by SIGPIPE, for writing to a connection that is gone
    open,                   \* accepted, registered and not closed
    ready,                  \* epoll's list of edge-triggered descriptors
    backlog, inbox,         \* connections, data (of udpfd: datagrams)
    peer                    \* of a connection: "up"; "fin", it has said its last; "rst",
                            \* it has reset the connection; "pipe", and read or write
                            \* will not say so (again)

sockets == <<backlog, inbox, peer>>
at      == <<reported, reading, writing, killed>>
vars    == <<program, at, open, ready, sockets>>

TypeOK ==
    /\ reported \subseteq Fds \cup {listenfd, udpfd}
    /\ {reading, writing} \subseteq Fds \cup {None} /\ killed \in BOOLEAN
    /\ open \subseteq Fds /\ ready \subseteq Fds \cup {listenfd, udpfd}
    /\ backlog \in 0 .. Cardinality(Fds) /\ inbox \in [Fds \cup {udpfd} -> 0 .. MaxInbox]
    /\ peer \in [Fds -> {"up", "fin", "rst", "pipe"}]

Blocking == {"select", "epollserv", "level", "edge"}     \* those whose write blocks
Echoing  == Blocking \cup {"edge2", "echo"}              \* lt and et only print
Programs == Echoing \cup {"lt", "et"}

Init ==
    /\ program \in Programs
    /\ reported = {} /\ reading = None /\ writing = None /\ killed = FALSE
    /\ open = {} /\ ready = {}
    /\ backlog = 0 /\ inbox = [fd \in Fds \cup {udpfd} |-> 0]
    /\ peer = [fd \in Fds |-> "up"]

-----------------------------------------------------------------------------
(* Clients, and what the kernel does for them.                             *)

Connect ==
    /\ backlog + Cardinality(open) < Cardinality(Fds)
    /\ backlog' = backlog + 1
    /\ ready' = ready \cup {listenfd}
    /\ UNCHANGED <<program, at, open, inbox, peer>>

Arrives(fd) ==
    /\ inbox[fd] < MaxInbox
    /\ inbox' = [inbox EXCEPT ![fd] = @ + 1]
    /\ ready' = ready \cup {fd}
    /\ UNCHANGED <<program, at, open, backlog, peer>>

PeerSend(fd) == fd \in open /\ peer[fd] = "up" /\ Arrives(fd)
SendDatagram == program = "echo" /\ Arrives(udpfd)

\* A client ends its stream, or resets it; once ended, a reset is what it answers
\* to an echo.
PeerClose(fd) ==
    /\ fd \in open
    /\ \/ peer[fd] = "up" /\ \E p \in {"fin", "rst"} : peer' = [peer EXCEPT ![fd] = p]
       \/ peer[fd] = "fin" /\ program \in Echoing /\ peer' = [peer EXCEPT ![fd] = "pipe"]
    /\ ready' = ready \cup {fd}
    /\ UNCHANGED <<program, at, open, backlog, inbox>>

\* A client reads, and what write waits to get rid of, or a part of it, has room.
ClientReads ==
    /\ writing # None /\ writing' = None
    /\ UNCHANGED <<program, reported, reading, killed, open, ready, sockets>>

Readable == {fd \in open : inbox[fd] > 0 \/ peer[fd] # "up"}
              \cup (IF backlog > 0 THEN {listenfd} ELSE {})
              \cup (IF inbox[udpfd] > 0 THEN {udpfd} ELSE {})

\* select, poll and a level-triggered epoll tell of what is readable; an edge-
\* triggered descriptor is told of once per arrival.
Wait(edges) ==
    LET told == {fd \in Readable : fd \in edges => fd \in ready}
    IN  /\ reported = {} /\ reading = None /\ told # {}
        /\ reported' = told /\ ready' = {}
        /\ UNCHANGED <<program, reading, writing, killed, open, sockets>>

-----------------------------------------------------------------------------
(* Parts of the loops.                                                     *)

Handle(fd) == reading = None /\ fd \in reported /\ reported' = reported \ {fd}

\* One accept, for the lowest descriptor that is free.
Accept ==
    LET fd == Min(Fds \ open) IN
    /\ Handle(listenfd) /\ backlog > 0
    /\ backlog' = backlog - 1
    /\ open' = open \cup {fd}
    /\ UNCHANGED <<program, reading, writing, killed, ready, inbox, peer>>

Close(fd) == /\ open' = open \ {fd} /\ ready' = ready \ {fd}
             /\ peer' = [peer EXCEPT ![fd] = "up"]

\* A read or write has told of the reset.
ErrorTold(fd) == peer' = [peer EXCEPT ![fd] = "pipe"]

\* A write that a reset connection refuses: it says so once, then it raises SIGPIPE,
\* which no program handles or ignores.
Refused(fd) == \/ peer[fd] = "rst" /\ ErrorTold(fd) /\ UNCHANGED killed
               \/ peer[fd] = "pipe" /\ killed' = TRUE /\ UNCHANGED peer

\* What was read is written back (or printed).  Nobody looks at what write returns;
\* where the socket blocks, write may wait for the client to read.
Echo(fd) ==
    IF program \in Echoing /\ peer[fd] \in {"rst", "pipe"}
    THEN Refused(fd) /\ UNCHANGED writing
    ELSE /\ writing' \in IF program \in Blocking THEN {None, fd} ELSE {None}
         /\ UNCHANGED <<killed, peer>>

\* A write that waits finds its connection reset.
WriteFails ==
    /\ writing # None /\ Refused(writing)
    /\ writing' = None
    /\ UNCHANGED <<program, reported, reading, open, ready, backlog, inbox>>

\* A read of data takes a buffer full.
TakeData(fd) == inbox[fd] > 0 /\ inbox' = [inbox EXCEPT ![fd] = @ - 1]

\* One read: of data, of the end, or of an error, which lt takes for the end and the
\* others for data of length -1.
ReadOnce(fd) ==
    /\ Handle(fd) /\ fd \in open
    /\ \/ TakeData(fd) /\ Echo(fd) /\ UNCHANGED <<open, ready>>
       \/ /\ inbox[fd] = 0 /\ UNCHANGED <<writing, killed, inbox>>
          /\ IF peer[fd] = "rst" /\ program # "lt"
             THEN ErrorTold(fd) /\ UNCHANGED <<open, ready>>
             ELSE Close(fd)
    /\ UNCHANGED <<program, reading, backlog>>

StartReading(fd) ==
    /\ Handle(fd) /\ fd \in open
    /\ reading' = fd
    /\ UNCHANGED <<program, writing, killed, open, ready, sockets>>

StopsEarly == /\ reading # None /\ inbox[reading] < MaxInbox    \* mutation of the next one
              /\ reading' = None
              /\ UNCHANGED <<program, reported, writing, killed, open, ready, sockets>>
\* The loop ends when read says EAGAIN.
NoMore == /\ reading \in open /\ inbox[reading] = 0 /\ peer[reading] = "up"
          /\ reading' = None
          /\ UNCHANGED <<program, reported, writing, killed, open, ready, sockets>>

ReadMore ==
    /\ reading \in open
    /\ TakeData(reading) /\ Echo(reading)
    /\ UNCHANGED <<program, reported, reading, open, ready, backlog>>

\* read returns 0: the descriptor is closed, and the loop reads it once more.
ReadEnd ==
    /\ reading \in open /\ inbox[reading] = 0 /\ peer[reading] \in {"fin", "pipe"}
    /\ Close(reading)
    /\ UNCHANGED <<program, at, backlog, inbox>>

\* read says that the connection was reset: edge2 reads on, the others close it.
ReadError ==
    /\ reading \in open /\ inbox[reading] = 0 /\ peer[reading] = "rst"
    /\ IF program = "edge2" THEN ErrorTold(reading) /\ UNCHANGED <<reading, open, ready>>
       ELSE Close(reading) /\ reading' = None
    /\ UNCHANGED <<program, reported, writing, killed, backlog, inbox>>

\* The read after a close says EBADF, which epoll.cc and echo_server.cc take for the end.
ReadClosed ==
    /\ reading # None /\ reading \notin open
    /\ reading' = None
    /\ UNCHANGED <<program, reported, writing, killed, open, ready, sockets>>

Drain == ReadMore \/ ReadEnd \/ ReadError \/ NoMore

\* One recvfrom and its answer.
Recvfrom ==
    /\ Handle(udpfd)
    /\ inbox' = [inbox EXCEPT ![udpfd] = Max({@ - 1, 0})]
    /\ UNCHANGED <<program, reading, writing, killed, open, ready, backlog, peer>>

-----------------------------------------------------------------------------
(* The programs.                                                           *)

InOrder(fd) == fd = Min(reported)

echo_selectserv ==
    \/ Wait({})
    \/ Accept /\ InOrder(listenfd)
    \/ \E fd \in Fds : ReadOnce(fd) /\ InOrder(fd)

echo_epollserv == Wait({}) \/ Accept \/ \E fd \in Fds : ReadOnce(fd)

echo_epollserv_level_trigger == Wait({}) \/ Accept \/ \E fd \in Fds : ReadOnce(fd)

echo_epollserv_edge_trigger == Wait(Fds) \/ Accept \/ \E fd \in Fds : ReadOnce(fd)

\* It never takes EBADF for the end: after it has closed one connection it reads
\* the closed descriptor for ever.
echo_epollserv_edge_trigger2 ==
    Wait(Fds) \/ Accept \/ Drain \/ \E fd \in Fds : StartReading(fd)

lt == Wait({listenfd}) \/ Accept \/ \E fd \in Fds : ReadOnce(fd)

et == Wait({listenfd} \cup Fds) \/ Accept \/ Drain \/ ReadClosed
        \/ \E fd \in Fds : StartReading(fd)

echo_server == Wait({listenfd, udpfd} \cup Fds) \/ Accept \/ Recvfrom \/ Drain \/ ReadClosed
                 \/ \E fd \in Fds : StartReading(fd)

Loop == \/ program = "select" /\ echo_selectserv
        \/ program = "epollserv" /\ echo_epollserv
        \/ program = "level" /\ echo_epollserv_level_trigger
        \/ program = "edge" /\ echo_epollserv_edge_trigger
        \/ program = "edge2" /\ echo_epollserv_edge_trigger2
        \/ program = "lt" /\ lt
        \/ program = "et" /\ et
        \/ program = "echo" /\ echo_server

main == ~killed /\ ((writing = None /\ Loop) \/ WriteFails)

Clients == \/ Connect \/ SendDatagram \/ ClientReads
           \/ \E fd \in Fds : PeerSend(fd) \/ PeerClose(fd)

Next == main \/ (~killed /\ Clients)

Spec == Init /\ [][Next]_vars

\* The server runs.  Nothing says that a client reads its echo.
FairSpec == Spec /\ WF_vars(main)

-----------------------------------------------------------------------------
(* Properties.                                                             *)

Takes(fd) == inbox'[fd] < inbox[fd]

\* The loop over one connection never ends: its client never stops sending, or
\* edge2 reads a descriptor that it has closed.
Captured ==
    /\ <>[](reading # None)
    /\ []<><<\E fd \in Fds : Takes(fd)>>_vars \/ <>[](program = "edge2" /\ reading \notin open)

\* write waits for ever for a client that does not read, and everybody with it.
Stalled == <>[](writing # None)

\* What keeps a server from its clients; nothing else may.
Excused == Captured \/ Stalled \/ <>[]killed

\* Level-triggered, or edge-triggered with a loop, a connection with data, or
\* that has ended, is never left alone, whatever arrives while events are
\* handled; unless one connection keeps the server, by its loop or in write, or has
\* killed it.  One read per edge ("edge") is not enough, as the comment of that
\* program says.
EverythingRead ==
    program = "edge" \/ Excused
      \/ \A fd \in Fds : []<>(fd \notin Readable) \/ []<><<Takes(fd)>>_vars

\* Where the listening socket is level-triggered everybody is accepted.
EveryoneAccepted ==
    program \in {"lt", "et", "echo"} \/ Excused
      \/ []<>(backlog = 0) \/ []<><<backlog' < backlog>>_vars
=============================================================================
