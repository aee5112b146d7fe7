------------------------------- MODULE Reactor -------------------------------
(***************************************************************************)
(* The echo server of libevent/Reactor.cpp: a table of events, one per     *)
(* connection, each with the callback to run when its descriptor is ready. *)
(* A connection alternates between waiting to be read (EPOLLIN, RecvData)  *)
(* and waiting to be answered (EPOLLOUT, SendData), and a sweep before     *)
(* each epoll_wait is to close the connections that are idle.  One thread, *)
(* level-triggered descriptors.                                            *)
(*                                                                         *)
(* Time is kept as ages: idle is now - lastActive, counted up to the limit.*)
(***************************************************************************)
EXTENDS Integers, FiniteSets

CONSTANTS Fds,          \* descriptors accept may return: the descriptor limit
          None,         \* no descriptor
          MAX_EVENTS, MAX_BUF_LEN,
          IDLE,         \* the 60 seconds
          MaxInbox      \* bound: pieces of data waiting in one socket

VARIABLES
    g_events,           \* the table, but for the entry of the listening socket
    checkpos,
    epoll,              \* the interest list: events and data.ptr of a descriptor
    phase, batch,       \* where main is, or killed; events[] not yet handled
    open,               \* accepted and not closed by the server
    backlog, inbox,     \* the listening queue; the data waiting in a socket
    peer,               \* the other end: up, fin (it has shut down or closed), rst
                        \* (reset), pipe (reset after its fin)
    stranded,           \* history: accepted when the table was full
    silent              \* history: how long a connection has not been served

sockets == <<backlog, inbox, peer>>
history == <<stranded, silent>>
vars    == <<g_events, checkpos, epoll, phase, batch, open, sockets, history>>

Slots == 0 .. MAX_EVENTS - 1
Event == [fd : Fds \cup {None}, events : SUBSET {"IN", "OUT"},
          call_back : {"none", "RecvData", "SendData"}, status : {0, 1},
          len : 0 .. MAX_BUF_LEN, idle : 0 .. IDLE]

Unused == [fd |-> None, events |-> {}, call_back |-> "none",
           status |-> 0, len |-> 0, idle |-> 0]

Init ==
    /\ g_events = [s \in Slots |-> Unused]
    /\ checkpos = 0
    /\ epoll = [fd \in Fds |-> {}]
    /\ phase = "sweep" /\ batch = {}
    /\ open = {} /\ backlog = 0
    /\ inbox = [fd \in Fds |-> 0] /\ peer = [fd \in Fds |-> "up"]
    /\ stranded = {} /\ silent = [fd \in Fds |-> 0]

-----------------------------------------------------------------------------
(* Clients and clock.  What a client does whom the full table turned away  *)
(* is left out: nobody looks at its socket.                                *)

Known == open \ stranded

Connect ==
    /\ phase # "killed" /\ backlog + Cardinality(open) <= Cardinality(Fds)
    /\ backlog' = backlog + 1
    /\ UNCHANGED <<g_events, checkpos, epoll, phase, batch, open, inbox, peer, history>>

PeerSend(fd) ==
    /\ fd \in Known /\ peer[fd] = "up" /\ inbox[fd] < MaxInbox
    /\ inbox' = [inbox EXCEPT ![fd] = @ + 1]
    /\ UNCHANGED <<g_events, checkpos, epoll, phase, batch, open, backlog, peer, history>>

\* It sends its end, or a reset; or a reset after its end, when it has closed with
\* an answer unread or an answer finds it closed.
PeerClose(fd) ==
    /\ fd \in Known
    /\ \E to \in {"fin", "rst", "pipe"} :
          /\ <<peer[fd], to>> \in {<<"up", "fin">>, <<"up", "rst">>, <<"fin", "pipe">>}
          /\ peer' = [peer EXCEPT ![fd] = to]
    /\ UNCHANGED <<g_events, checkpos, epoll, phase, batch, open, backlog, inbox, history>>

Older(age) == IF age < IDLE THEN age + 1 ELSE IDLE

Clock ==
    /\ g_events' = [s \in Slots |-> IF g_events[s].status = 1
                                   THEN [g_events[s] EXCEPT !.idle = Older(@)] ELSE g_events[s]]
    /\ silent' = [fd \in Fds |-> IF fd \in Known THEN Older(silent[fd]) ELSE 0]
    /\ UNCHANGED <<checkpos, epoll, phase, batch, open, sockets, stranded>>

-----------------------------------------------------------------------------
(* The table.                                                              *)

SetEventStale(e, fd, cb) ==                         \* mutation of the next one
    [e EXCEPT !.fd = fd, !.call_back = cb, !.events = {}, !.status = 0]
SetEvent(e, fd, cb) ==
    [e EXCEPT !.fd = fd, !.call_back = cb, !.events = {}, !.status = 0, !.idle = 0]

DelEvent(e) == [e EXCEPT !.status = 0]

\* DelEvent of an entry that is given up: what else it holds is not read again.
Release(s) == g_events' = [g_events EXCEPT ![s] = Unused]

AddEvent(e, mask) == [e EXCEPT !.events = {mask}, !.status = 1]

SwitchAnyway(s, e, fd, cb, mask) ==                 \* mutation of the next one
    /\ g_events' = [g_events EXCEPT ![s] = AddEvent(SetEvent(e, fd, cb), mask)]
    /\ epoll' = [epoll EXCEPT ![fd] = @ \cup {[slot |-> s, events |-> mask]}]

\* SetEvent and AddEvent of an entry, in table and interest list.
Switch(s, e, fd, cb, mask) ==
    /\ g_events' = [g_events EXCEPT ![s] = AddEvent(SetEvent(e, fd, cb), mask)]
    /\ epoll' = [epoll EXCEPT ![fd] = {[slot |-> s, events |-> mask]}]

\* close: the descriptor leaves the interest list and its data are gone.
Close(fd) ==
    /\ open' = open \ {fd}
    /\ epoll' = [epoll EXCEPT ![fd] = {}]
    /\ inbox' = [inbox EXCEPT ![fd] = 0] /\ peer' = [peer EXCEPT ![fd] = "up"]
    /\ silent' = [silent EXCEPT ![fd] = 0]
    /\ UNCHANGED <<backlog, stranded>>

-----------------------------------------------------------------------------
(* The loop.                                                               *)

\* The for loop tests this entry, a hundred times: nothing in it moves checkpos.
Tested == IF checkpos = MAX_EVENTS THEN 0 ELSE checkpos

TooOld(e) == e.status = 1 /\ e.idle >= IDLE

Sweep ==
    /\ phase = "sweep"
    /\ phase' = "wait" /\ checkpos' = Tested
    /\ \/ /\ TooOld(g_events[Tested])
          /\ Release(Tested)
          /\ Close(g_events[Tested].fd)
       \/ /\ ~TooOld(g_events[Tested])
          /\ UNCHANGED <<g_events, epoll, open, sockets, history>>
    /\ UNCHANGED batch

Listen == [slot |-> MAX_EVENTS, events |-> "IN"]

ReadableAtEnd(fd) == peer[fd] # "up"                \* mutation of the next one
Readable(fd) == inbox[fd] > 0 \/ peer[fd] # "up"

\* A socket that is to be answered is taken to be writable.
Ready == {r \in UNION {epoll[fd] : fd \in Fds} :
             \/ r.events = "OUT"
             \/ \E fd \in open : r \in epoll[fd] /\ Readable(fd)}
         \cup (IF backlog > 0 THEN {Listen} ELSE {})

\* epoll_wait returns what is ready, or nothing after a second.
EpollWait ==
    /\ phase = "wait"
    /\ phase' = "events" /\ batch' = Ready
    /\ UNCHANGED <<g_events, checkpos, epoll, open, sockets, history>>

RoundEnds ==
    /\ phase = "events" /\ batch = {}
    /\ phase' = "sweep"
    /\ UNCHANGED <<g_events, checkpos, epoll, batch, open, sockets, history>>

Handling(r) == /\ phase = "events" /\ r \in batch /\ batch' = batch \ {r}
               /\ UNCHANGED <<phase, checkpos>>

Free == {s \in Slots : g_events[s].status = 0}
First == CHOOSE s \in Free : \A u \in Free : s <= u

\* AcceptConnection
Accept(fd) ==
    /\ Handling(Listen) /\ backlog > 0 /\ fd \notin open
    /\ backlog' = backlog - 1
    /\ open' = open \cup {fd}
    /\ IF Free = {}
         THEN stranded' = stranded \cup {fd} /\ UNCHANGED <<g_events, epoll>>
         ELSE /\ Switch(First, g_events[First], fd, "RecvData", "IN")
              /\ UNCHANGED stranded
    /\ UNCHANGED <<inbox, peer, silent>>

\* Out of descriptors: the client stays in the queue.
AcceptFails ==
    /\ Handling(Listen) /\ open = Fds
    /\ UNCHANGED <<g_events, epoll, open, sockets, history>>

\* A reported event is passed on if the entry still waits for it.
Awaited(s, mask, cb) == mask \in g_events[s].events /\ g_events[s].call_back = cb

Dispatch(s, mask, cb) == Handling([slot |-> s, events |-> mask]) /\ Awaited(s, mask, cb)

\* The terminating 0 of a full buffer falls on the first byte of len, which is
\* behind it, unless the compiler has put it elsewhere.
LenAfter(len) == IF len = MAX_BUF_LEN THEN {len, 0} ELSE {len}

RecvData(s) ==
    LET e == g_events[s] IN
    /\ Dispatch(s, "IN", "RecvData") /\ inbox[e.fd] > 0
    /\ \E left \in 0 .. inbox[e.fd] - 1 : inbox' = [inbox EXCEPT ![e.fd] = left]
    /\ \E len \in 1 .. MAX_BUF_LEN : \E l \in LenAfter(len) :
          Switch(s, [DelEvent(e) EXCEPT !.len = l], e.fd, "SendData", "OUT")
    /\ silent' = [silent EXCEPT ![e.fd] = 0]
    /\ UNCHANGED <<open, backlog, peer, stranded>>

RecvEnd(s) ==
    LET e == g_events[s] IN
    /\ Dispatch(s, "IN", "RecvData") /\ inbox[e.fd] = 0 /\ peer[e.fd] # "up"
    /\ Release(s)
    /\ Close(e.fd)

\* What send does not take is not sent again; len is not read again.
Sent(e) == [DelEvent(e) EXCEPT !.len = 0]

SendData(s) ==
    LET e == g_events[s] IN
    /\ Dispatch(s, "OUT", "SendData") /\ e.len > 0 /\ peer[e.fd] \in {"up", "fin"}
    /\ Switch(s, Sent(e), e.fd, "RecvData", "IN")
    /\ silent' = [silent EXCEPT ![e.fd] = 0]
    /\ UNCHANGED <<open, sockets, stranded>>

SendFails(s) ==
    LET e == g_events[s] IN
    /\ Dispatch(s, "OUT", "SendData")
    /\ peer[e.fd] = "rst" \/ (e.len = 0 /\ peer[e.fd] # "pipe")
    /\ Release(s)
    /\ Close(e.fd)

\* The process ends, and the kernel closes every descriptor and drops the queue.
Killed ==
    /\ phase' = "killed" /\ batch' = {} /\ open' = {} /\ backlog' = 0
    /\ g_events' = [s \in Slots |-> Unused]
    /\ epoll' = [fd \in Fds |-> {}]
    /\ inbox' = [fd \in Fds |-> 0] /\ peer' = [fd \in Fds |-> "up"]
    /\ stranded' = {} /\ silent' = [fd \in Fds |-> 0]
    /\ UNCHANGED checkpos

\* send without MSG_NOSIGNAL, after a reset that followed the end: SIGPIPE, which
\* nobody handles.
SendKills(s) ==
    /\ phase = "events" /\ [slot |-> s, events |-> "OUT"] \in batch
    /\ Awaited(s, "OUT", "SendData") /\ peer[g_events[s].fd] = "pipe"
    /\ Killed

-----------------------------------------------------------------------------
Environment == \/ Connect \/ Clock
               \/ \E fd \in Fds : PeerSend(fd) \/ PeerClose(fd)

main == \/ Sweep \/ EpollWait \/ RoundEnds \/ AcceptFails
        \/ \E fd \in Fds : Accept(fd)
        \/ \E s \in Slots : \/ RecvData(s) \/ RecvEnd(s)
                           \/ SendData(s) \/ SendFails(s) \/ SendKills(s)

Next == Environment \/ main

Spec == Init /\ [][Next]_vars

\* The process runs, and time passes.
FairSpec == Spec /\ WF_vars(main) /\ WF_vars(Clock)

-----------------------------------------------------------------------------
(* Properties.                                                             *)

\* Table, interest list and descriptors agree: an entry in use is the only one
\* of its descriptor, waits for what its callback does, and is what the kernel
\* will hand back; an event reported is still the one the entry waits for when
\* its turn comes; no descriptor is open that neither the table knows nor the
\* full table turned away.
TableConsistent ==
    /\ g_events \in [Slots -> Event] /\ checkpos \in 0 .. MAX_EVENTS
    /\ \A s \in Slots : g_events[s].status = 1 =>
          LET e == g_events[s] IN
          /\ e.fd \in open
          /\ e.events = IF e.call_back = "SendData" THEN {"OUT"} ELSE {"IN"}
          /\ epoll[e.fd] = {[slot |-> s, events |-> m] : m \in e.events}
    /\ \A fd \in Fds, r \in UNION {epoll[f] : f \in Fds} :
          r \in epoll[fd] => g_events[r.slot].status = 1 /\ g_events[r.slot].fd = fd
    /\ \A r \in batch \ {Listen} : \E fd \in open : r \in epoll[fd]
    /\ open = stranded \cup {fd \in Fds : epoll[fd] # {}}

\* The server hangs up only on a client that has hung up, or whom it has not
\* served for IDLE, or who has filled the buffer (the terminating 0 may then fall
\* on the length) - or on everybody, when it answers one that has reset the
\* connection after its end.
HangsUpForAReason ==
    [][\A fd \in open \ open' :
          \/ peer[fd] # "up" \/ silent[fd] >= IDLE
          \/ \E s \in Slots : g_events[s].fd = fd /\ g_events[s].events = {"OUT"}
                                           /\ g_events[s].len = 0
          \/ phase' = "killed" /\ \E s \in Slots : /\ g_events[s].events = {"OUT"}
                                                  /\ peer[g_events[s].fd] = "pipe"]_vars

\* What a client sends is read and put up for sending, however many others there
\* are, unless the table had no room for the client or the connection ends.
DataIsTaken ==
    \A fd \in Fds :
        fd \in Known /\ inbox[fd] > 0
            ~> (fd \notin open \/ \E r \in epoll[fd] : r.events = "OUT")

\* A client that has not communicated with the server for 60 s is disconnected
\* (the comment on line 257).
IdleIsClosed ==
    \A fd \in Fds : fd \in Known /\ silent[fd] = IDLE
                       ~> (fd \notin open \/ silent[fd] < IDLE)
=============================================================================
