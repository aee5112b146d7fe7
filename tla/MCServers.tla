------------------------------ MODULE MCServers ------------------------------
(***************************************************************************)
(* Instances of the servers whose safety takes many states, for TLC.  A    *)
(* behaviour is one of the server that "which" names; the others rest.     *)
(***************************************************************************)
EXTENDS NonactiveConn, TLC

CONSTANTS None, Wild,
          Fd3, MAX_EVENTS, MAX_BUF_LEN, IDLE,   \* Reactor.cpp: three connections
          Fd1, Thread, InboxOf1,                \* epolloneshot.cc
          Client, PollFds, USER_LIMIT           \* chatroom_server.cc of ch09

\* Tables and limits have sizes, and "no descriptor", "no client" and the listening
\* sockets are none of the others.
ASSUME ServersAssumption ==
    /\ {MAX_EVENTS, USER_LIMIT} \subseteq Nat \ {0}
    /\ {MAX_BUF_LEN, IDLE, MaxInbox, InboxOf1} \subseteq Nat
    /\ {None, "listen"} \cap (Fd3 \cup Fd1 \cup Client) = {} /\ None \notin PollFds
    /\ Wild \notin PollFds \cup Client \cup {None}
    /\ PollFds \subseteq Nat \ (0 .. 3)

VARIABLES which,
          g_events, checkpos, epoll, r_phase, r_batch, r_open, r_backlog, r_inbox, r_peer,
          stranded, silent,
          o_phase, o_batch, fds_for_new_worker, o_at, sockfd, o_open, armed, o_ready,
          o_backlog, o_inbox, o_fin, lost,
          i, fds, events, revents, buf, write_buf, conn, link, so_error, p_inbox, unread,
          told

Loop == INSTANCE Reactor WITH
    Fds <- Fd3, phase <- r_phase, batch <- r_batch, open <- r_open, backlog <- r_backlog,
    inbox <- r_inbox, peer <- r_peer

Oneshot == INSTANCE EpollOneshot WITH
    Fds <- Fd1, NoFd <- None, MaxInbox <- InboxOf1, phase <- o_phase, batch <- o_batch,
    at <- o_at, open <- o_open, ready <- o_ready, backlog <- o_backlog, inbox <- o_inbox,
    fin <- o_fin

Room == INSTANCE PollRoom WITH Fds <- PollFds, inbox <- p_inbox

reactor == <<g_events, checkpos, epoll, r_phase, r_batch, r_open, r_backlog, r_inbox, r_peer,
             stranded, silent>>
oneshot == <<o_phase, o_batch, fds_for_new_worker, o_at, sockfd, o_open, armed, o_ready,
             o_backlog, o_inbox, o_fin, lost>>
room    == <<i, fds, events, revents, buf, write_buf, conn, link, so_error, p_inbox, unread, told>>
all     == <<which, allvars, reactor, oneshot, room>>

Servers == {"nonactive", "reactor", "oneshot", "room"}

EachInit == which \in Servers /\ ServerInit /\ Loop!Init /\ Oneshot!Init /\ Room!Init

EachNext ==
    /\ \/ which = "nonactive" /\ ServerNext /\ UNCHANGED <<reactor, oneshot, room>>
       \/ which = "reactor" /\ Loop!Next /\ UNCHANGED <<allvars, oneshot, room>>
       \/ which = "oneshot" /\ Oneshot!Next /\ UNCHANGED <<allvars, reactor, room>>
       \/ which = "room" /\ Room!Next /\ UNCHANGED <<allvars, reactor, oneshot>>
    /\ UNCHANGED which

EachSpec == EachInit /\ [][EachNext]_all

\* Reactor.cpp.
TablesConsistent  == Loop!TableConsistent
HangsUpForAReason == Loop!HangsUpForAReason
\* epolloneshot.cc.
Attended          == Oneshot!Attended
\* chatroom_server.cc of ch09.
NoWildPointer     == Room!NoWildPointer

Symmetry == Permutations(Timer) \cup Permutations(Fds)
=============================================================================
