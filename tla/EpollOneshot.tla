----------------------------- MODULE EpollOneshot ----------------------------
(***************************************************************************)
(* The server of high-performance-server-programming-linux/ch09/           *)
(* epolloneshot.cc.  A connection is registered with EPOLLONESHOT: once it *)
(* was reported it stays silent until reset_oneshot arms it again.  Main   *)
(* starts a thread for each report; the thread reads until there is no     *)
(* more, arms the connection and ends.                                     *)
(***************************************************************************)
EXTENDS Integers, FiniteSets

CONSTANTS Fds,          \* descriptors accept may return
          Thread,       \* bound: threads that run at a time
          NoFd,         \* the argument before it is first written
          MaxInbox      \* bound: pieces of data waiting in one socket

VARIABLES
    phase, batch,       \* main waits, or has events[] to handle
    fds_for_new_worker, \* its variable on the stack, in the same place each time
    at, sockfd,         \* of a thread: where it is, and its local variable
    open,               \* accepted and not closed
    armed,              \* the connections epoll may report
    ready,              \* the ready list of epollfd
    backlog, inbox, fin,\* the listening queue; of a socket: data, and its end
    lost                \* history: reported to a thread whose argument main overwrote

sockets == <<backlog, inbox, fin>>
threads == <<at, sockfd>>
vars    == <<phase, batch, fds_for_new_worker, threads, open, armed, ready, sockets,
             lost>>

TypeOK ==
    /\ phase \in {"wait", "events"} /\ batch \subseteq Fds \cup {"listen"}
    /\ fds_for_new_worker \in Fds \cup {NoFd}
    /\ at \in [Thread -> {"none", "created", "recv", "reset"}]
    /\ sockfd \in [Thread -> Fds \cup {NoFd}]
    /\ open \subseteq Fds /\ armed \subseteq open /\ ready \subseteq Fds \cup {"listen"}
    /\ backlog \in Nat
    /\ inbox \in [Fds -> 0 .. MaxInbox] /\ fin \in [Fds -> BOOLEAN] /\ lost \subseteq Fds

Init ==
    /\ phase = "wait" /\ batch = {}
    /\ fds_for_new_worker = NoFd
    /\ at = [w \in Thread |-> "none"] /\ sockfd = [w \in Thread |-> NoFd]
    /\ open = {} /\ armed = {} /\ ready = {}
    /\ backlog = 0
    /\ inbox = [fd \in Fds |-> 0] /\ fin = [fd \in Fds |-> FALSE] /\ lost = {}

-----------------------------------------------------------------------------
(* Clients.                                                                *)

Connect ==
    /\ backlog + Cardinality(open) < Cardinality(Fds)
    /\ backlog' = backlog + 1
    /\ ready' = ready \cup {"listen"}
    /\ UNCHANGED <<phase, batch, fds_for_new_worker, threads, open, armed, inbox, fin,
                   lost>>

PeerSend(fd) ==
    /\ fd \in open /\ ~fin[fd] /\ inbox[fd] < MaxInbox
    /\ inbox' = [inbox EXCEPT ![fd] = @ + 1]
    /\ ready' = ready \cup ({fd} \cap armed)
    /\ UNCHANGED <<phase, batch, fds_for_new_worker, threads, open, armed, backlog, fin,
                   lost>>

PeerClose(fd) ==
    /\ fd \in open /\ ~fin[fd]
    /\ fin' = [fin EXCEPT ![fd] = TRUE]
    /\ ready' = ready \cup ({fd} \cap armed)
    /\ UNCHANGED <<phase, batch, fds_for_new_worker, threads, open, armed, backlog, inbox,
                   lost>>

-----------------------------------------------------------------------------
(* main.                                                                   *)

Readable(fd) == inbox[fd] > 0 \/ fin[fd]

\* What is reported is disarmed; listenfd has no EPOLLONESHOT.
EpollWait ==
    LET reported == {fd \in ready \cap armed : Readable(fd)}
                      \cup {e \in ready : e = "listen" /\ backlog > 0}
    IN  /\ phase = "wait" /\ reported # {}
        /\ phase' = "events" /\ batch' = reported
        /\ ready' = {} /\ armed' = armed \ reported
        /\ UNCHANGED <<fds_for_new_worker, threads, open, sockets, lost>>

Handling(e) == phase = "events" /\ e \in batch /\ batch' = batch \ {e}

\* accept, and addfd with EPOLLONESHOT; data may have come before.
Accept(fd) ==
    /\ Handling("listen") /\ backlog > 0 /\ fd \notin open
    /\ backlog' = backlog - 1
    /\ open' = open \cup {fd} /\ armed' = armed \cup {fd}
    /\ \E n \in 0 .. MaxInbox : /\ inbox' = [inbox EXCEPT ![fd] = n]
                                /\ ready' = IF n > 0 THEN ready \cup {fd} ELSE ready
    /\ UNCHANGED <<phase, fds_for_new_worker, threads, fin, lost>>

Unread == \E w \in Thread : at[w] = "created"

\* pthread_create with the address of the variable.  What the variable held is lost if
\* a thread has yet to read it and epoll will not report that connection again.
StartWorker(fd, w) ==
    /\ Handling(fd) /\ at[w] = "none"
    /\ fds_for_new_worker' = fd
    /\ at' = [at EXCEPT ![w] = "created"]
    /\ lost' = lost \cup IF Unread THEN {fds_for_new_worker} \ (armed \cup {fd}) ELSE {}
    /\ UNCHANGED <<phase, sockfd, open, armed, ready, sockets>>

RoundEnds ==
    /\ phase = "events" /\ batch = {}
    /\ phase' = "wait"
    /\ UNCHANGED <<batch, fds_for_new_worker, threads, open, armed, ready, sockets, lost>>

-----------------------------------------------------------------------------
(* worker.                                                                 *)

\* It reads the variable of main through its argument, whatever that holds by now.
ReadArg(w) ==
    /\ at[w] = "created"
    /\ at' = [at EXCEPT ![w] = "recv"]
    /\ sockfd' = [sockfd EXCEPT ![w] = fds_for_new_worker]
    /\ UNCHANGED <<phase, batch, fds_for_new_worker, open, armed, ready, sockets, lost>>

Recv(w) ==
    LET fd == sockfd[w] IN
    /\ at[w] = "recv" /\ fd \in open /\ inbox[fd] > 0
    /\ \E left \in 0 .. inbox[fd] - 1 : inbox' = [inbox EXCEPT ![fd] = left]
    /\ UNCHANGED <<phase, batch, fds_for_new_worker, threads, open, armed, ready, backlog, fin, lost>>

Ends(w) == /\ at' = [at EXCEPT ![w] = "none"]
           /\ sockfd' = [sockfd EXCEPT ![w] = NoFd]

RecvEnd(w) ==
    LET fd == sockfd[w] IN
    /\ at[w] = "recv" /\ fd \in open /\ inbox[fd] = 0 /\ fin[fd]
    /\ open' = open \ {fd} /\ armed' = armed \ {fd} /\ ready' = ready \ {fd}
    /\ fin' = [fin EXCEPT ![fd] = FALSE] /\ lost' = lost \ {fd}
    /\ Ends(w)
    /\ UNCHANGED <<phase, batch, fds_for_new_worker, backlog, inbox>>

\* recv says EAGAIN.  A descriptor closed by another thread says EBADF, and the
\* loop goes on for ever.
RecvAgain(w) ==
    LET fd == sockfd[w] IN
    /\ at[w] = "recv" /\ fd \in open /\ inbox[fd] = 0 /\ ~fin[fd]
    /\ at' = [at EXCEPT ![w] = "reset"]
    /\ UNCHANGED <<phase, batch, fds_for_new_worker, sockfd, open, armed, ready, sockets, lost>>

ArmsUnseen(fd) == {}                                \* mutation of the next one
\* EPOLL_CTL_MOD looks at the descriptor once more.
Arms(fd) == IF Readable(fd) THEN {fd} ELSE {}

reset_oneshot(w) ==
    LET fd == sockfd[w] IN
    /\ at[w] = "reset"
    /\ armed' = armed \cup ({fd} \cap open)
    /\ ready' = ready \cup (Arms(fd) \cap open)
    /\ lost' = lost \ {fd}
    /\ Ends(w)
    /\ UNCHANGED <<phase, batch, fds_for_new_worker, open, sockets>>

-----------------------------------------------------------------------------
main == \/ EpollWait \/ RoundEnds
        \/ \E fd \in Fds : Accept(fd) \/ \E w \in Thread : StartWorker(fd, w)

worker(w) == ReadArg(w) \/ Recv(w) \/ RecvEnd(w) \/ RecvAgain(w) \/ reset_oneshot(w)

Next == \/ Connect
        \/ \E fd \in Fds : PeerSend(fd) \/ PeerClose(fd)
        \/ main
        \/ \E w \in Thread : worker(w)

Spec == Init /\ [][Next]_vars

-----------------------------------------------------------------------------
(* Properties.                                                             *)

\* At any time at most one thread serves a connection (the notes on lines 19
\* and 172).
OneThreadEach ==
    \A v, w \in Thread : sockfd[v] # NoFd /\ sockfd[v] = sockfd[w] => v = w

\* A connection with something to read always has somebody to see to it, however
\* the threads start, read, close and arm it: a thread that reads it or is to read
\* it, a report, or its place in the ready list.  The one exception is a connection
\* whose thread was created with an argument that main overwrote too early.
Attended ==
    /\ TypeOK
    /\ \A fd \in open \ lost : Readable(fd) =>
          \/ fd \in ready \cap armed
          \/ fd \in batch
          \/ fds_for_new_worker = fd /\ Unread
          \/ \E w \in Thread : sockfd[w] = fd
=============================================================================
