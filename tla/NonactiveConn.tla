---------------------------- MODULE NonactiveConn ---------------------------
(***************************************************************************)
(* The server of high-performance-server-programming-linux/ch11/           *)
(* nonactive_connection.cc: it closes a connection that has been silent    *)
(* for three slots.  SIGALRM writes a byte to a pipe, the byte sets a      *)
(* flag, and the flag makes the end of the round run tick and ask for the  *)
(* next SIGALRM.  The server is one thread; the timers are those of        *)
(* SortedTimerLst, whose functions its handlers call.                      *)
(*                                                                         *)
(* Descriptors are edge-triggered, as in ChatRoom.                         *)
(***************************************************************************)
EXTENDS SortedTimerLst, FiniteSets

CONSTANTS Fds,          \* descriptors accept may return
          TIMESLOT,
          MaxInbox      \* bound: pieces of data waiting in one socket

ASSUME ServerAssumption ==
    /\ {"listen", "sig"} \cap Fds = {} /\ Null \notin Fds
    /\ TIMESLOT \in Nat \ {0} /\ 3 * TIMESLOT <= MaxDelay
    /\ MaxInbox \in Nat

VARIABLES
    users,              \* users[fd].timer
    user_data,          \* of a timer: the fd of the entry it points to
    stop_server, timeout,
    phase,              \* "wait" for epoll_wait, in the "events" of a round, or "done"
    batch,              \* events[] not yet handled
    open,               \* accepted and not closed by the server
    backlog, inbox, fin,\* the listening queue; of a socket: data, and its end
    ready,              \* the ready list of epollfd
    pipe, pending,      \* signals in the pipe, and signals not yet delivered
    alarmAt,            \* when SIGALRM is raised, or 0
    heard               \* history: when a connection was last read from

data    == <<users, user_data>>
loop    == <<stop_server, timeout, phase, batch>>
sockets == <<open, backlog, inbox, fin>>
sigs    == <<pipe, pending, alarmAt>>
server  == <<data, loop, sockets, ready, sigs, heard>>
allvars == <<vars, server>>

ServerTypeOK ==
    /\ users \in [Fds -> Pointer] /\ user_data \in [Timer -> Fds \cup {Null}]
    /\ stop_server \in BOOLEAN /\ timeout \in BOOLEAN
    /\ phase \in {"wait", "events", "done"}
    /\ batch \subseteq Fds \cup {"listen", "sig"}
    /\ ready \subseteq Fds \cup {"listen", "sig"}
    /\ open \subseteq Fds /\ backlog \in Nat
    /\ inbox \in [Fds -> 0 .. MaxInbox] /\ fin \in [Fds -> BOOLEAN]
    /\ pipe \subseteq {"SIGALRM", "SIGTERM"} /\ pending \subseteq {"SIGALRM", "SIGTERM"}
    /\ alarmAt \in Time /\ heard \in [Fds -> Time]

\* main has called alarm(TIMESLOT) for the first time.
ServerInit ==
    /\ Init
    /\ users = [fd \in Fds |-> Null] /\ user_data = [t \in Timer |-> Null]
    /\ stop_server = FALSE /\ timeout = FALSE
    /\ phase = "wait" /\ batch = {}
    /\ open = {} /\ backlog = 0
    /\ inbox = [fd \in Fds |-> 0] /\ fin = [fd \in Fds |-> FALSE]
    /\ ready = {}
    /\ pipe = {} /\ pending = {} /\ alarmAt = TIMESLOT
    /\ heard = [fd \in Fds |-> 0]

-----------------------------------------------------------------------------
(* Clients, clock and signals.                                             *)

Up == phase # "done"

Connect ==
    /\ Up /\ backlog + Cardinality(open) < Cardinality(Fds)
    /\ backlog' = backlog + 1
    /\ ready' = ready \cup {"listen"}
    /\ UNCHANGED <<vars, data, loop, open, inbox, fin, sigs, heard>>

PeerSend(fd) ==
    /\ Up /\ fd \in open /\ ~fin[fd] /\ inbox[fd] < MaxInbox
    /\ inbox' = [inbox EXCEPT ![fd] = @ + 1]
    /\ ready' = ready \cup {fd}
    /\ UNCHANGED <<vars, data, loop, open, backlog, fin, sigs, heard>>

PeerClose(fd) ==
    /\ Up /\ fd \in open /\ ~fin[fd]
    /\ fin' = [fin EXCEPT ![fd] = TRUE]
    /\ ready' = ready \cup {fd}
    /\ UNCHANGED <<vars, data, loop, open, backlog, inbox, sigs, heard>>

ClockTick ==
    /\ Up /\ Clock
    /\ IF now + 1 = alarmAt
         THEN pending' = pending \cup {"SIGALRM"} /\ alarmAt' = 0
         ELSE UNCHANGED <<pending, alarmAt>>
    /\ UNCHANGED <<data, loop, sockets, ready, pipe, heard>>

Terminate ==
    /\ Up /\ pending' = pending \cup {"SIGTERM"}
    /\ UNCHANGED <<vars, data, loop, sockets, ready, pipe, alarmAt, heard>>

sig_handler(sig) ==
    /\ Up /\ sig \in pending
    /\ pending' = pending \ {sig}
    /\ pipe' = pipe \cup {sig}
    /\ ready' = ready \cup {"sig"}
    /\ UNCHANGED <<vars, data, loop, sockets, alarmAt, heard>>

-----------------------------------------------------------------------------
(* The loop.                                                               *)

Readable == {e \in ready : \/ e = "listen" /\ backlog > 0
                           \/ e = "sig" /\ pipe # {}
                           \/ e \in open /\ (inbox[e] > 0 \/ fin[e])}

EpollWait ==
    /\ phase = "wait" /\ Readable # {}
    /\ phase' = "events" /\ batch' = Readable /\ ready' = {}
    /\ UNCHANGED <<vars, data, stop_server, timeout, sockets, sigs, heard>>

Handling(e) == phase = "events" /\ running = "none" /\ e \in batch /\ batch' = batch \ {e}

IdleUntil == now + 3 * TIMESLOT

Accept(fd, t) ==
    /\ Handling("listen") /\ backlog > 0 /\ fd \notin open
    /\ backlog' = backlog - 1 /\ open' = open \cup {fd}
    /\ users' = [users EXCEPT ![fd] = t]
    /\ user_data' = [user_data EXCEPT ![t] = fd]
    /\ addTimer(t, IdleUntil) /\ UNCHANGED now
    /\ heard' = [heard EXCEPT ![fd] = now]
    /\ UNCHANGED <<stop_server, timeout, phase, inbox, fin, ready, sigs>>

ReadSignals ==
    /\ Handling("sig")
    /\ timeout' = (timeout \/ "SIGALRM" \in pipe)
    /\ stop_server' = (stop_server \/ "SIGTERM" \in pipe)
    /\ pipe' = {}
    /\ UNCHANGED <<vars, data, phase, sockets, ready, pending, alarmAt, heard>>

KeepExpiry(fd) == expire[users[fd]]                 \* two mutations of Extended
OneSlotMore(fd) == now + TIMESLOT
Extended(fd) == IdleUntil

\* One recv; the timer of the connection moves.
Receive(fd) ==
    /\ Handling(fd) /\ inbox[fd] > 0
    /\ \E left \in 0 .. inbox[fd] - 1 : inbox' = [inbox EXCEPT ![fd] = left]
    /\ IF users[fd] # Null THEN adjustTimer(users[fd], Extended(fd)) ELSE UNCHANGED list
    /\ UNCHANGED now
    /\ heard' = [heard EXCEPT ![fd] = now]
    /\ UNCHANGED <<data, stop_server, timeout, phase, open, backlog, fin, ready, sigs>>

\* cb_func: the descriptor is closed, and with it its registration.
cb_func(fd) ==
    /\ open' = open \ {fd}
    /\ ready' = ready \ {fd}
    /\ inbox' = [inbox EXCEPT ![fd] = 0] /\ fin' = [fin EXCEPT ![fd] = FALSE]
    /\ heard' = [heard EXCEPT ![fd] = 0]
    /\ UNCHANGED backlog

DropKeepsTimer(fd) == UNCHANGED list                \* mutation of the next one
DropTimer(fd) == IF users[fd] # Null THEN delTimer(users[fd]) ELSE UNCHANGED list

\* recv reports the end of the connection, or an error.  users[fd].timer keeps
\* the address of the deleted timer.
PeerGone(fd) ==
    /\ Handling(fd) /\ inbox[fd] = 0 /\ fin[fd]
    /\ cb_func(fd)
    /\ DropTimer(fd) /\ UNCHANGED now
    /\ user_data' = [user_data EXCEPT ![users[fd]] = Null]
    /\ UNCHANGED <<users, stop_server, timeout, phase, sigs>>

EndOfRound == phase = "events" /\ running = "none" /\ batch = {}

NextRound == phase' = IF stop_server THEN "done" ELSE "wait"

NothingTimed ==
    /\ EndOfRound /\ ~timeout
    /\ NextRound
    /\ UNCHANGED <<vars, data, stop_server, timeout, batch, sockets, ready, sigs, heard>>

\* timer_handler: tick, then alarm(TIMESLOT).
RunTick ==
    /\ EndOfRound /\ timeout
    /\ tick /\ UNCHANGED <<now, server>>

FireTimer ==
    /\ Expire /\ UNCHANGED now
    /\ cb_func(user_data[cur])
    /\ user_data' = [user_data EXCEPT ![cur] = Null]
    /\ UNCHANGED <<users, loop, sigs>>

RearmIfBusy == alarmAt' = IF head = Null THEN 0 ELSE now + TIMESLOT  \* mutation of
Rearm == alarmAt' = now + TIMESLOT                                   \* Rearm

AfterTick ==
    /\ Rearm
    /\ timeout' = FALSE
    /\ NextRound
    /\ UNCHANGED <<now, data, stop_server, batch, sockets, ready, pipe, pending, heard>>

TickDone == TickEnds /\ AfterTick

NoTimers == EndOfRound /\ timeout /\ head = Null /\ AfterTick /\ UNCHANGED list

-----------------------------------------------------------------------------
Environment == \/ Connect \/ Terminate
               \/ \E fd \in Fds : PeerSend(fd) \/ PeerClose(fd)

Deliver == \E sig \in {"SIGALRM", "SIGTERM"} : sig_handler(sig)

main == \/ EpollWait \/ ReadSignals
        \/ \E fd \in Fds : \/ Receive(fd) \/ PeerGone(fd)
                           \/ \E t \in Timer : Accept(fd, t)
        \/ Inside /\ UNCHANGED server
        \/ NothingTimed \/ NoTimers \/ RunTick \/ FireTimer \/ TickDone

ServerNext == Environment \/ ClockTick \/ Deliver \/ main

ServerSpec == ServerInit /\ [][ServerNext]_allvars

\* The process is scheduled, time passes, signals are delivered.
FairServer == /\ ServerSpec
              /\ WF_allvars(main) /\ WF_allvars(ClockTick) /\ WF_allvars(Deliver)

-----------------------------------------------------------------------------
(* Properties.                                                             *)

\* A connection and its timer point to each other, nothing else is allocated,
\* and no handler ever follows the dangling users[fd].timer of a closed one:
\* addresses and descriptors are reused in any order.
OneTimerEach ==
    /\ ServerTypeOK
    /\ \A fd \in open : users[fd] \in live /\ user_data[users[fd]] = fd
    /\ \A t \in live : user_data[t] \in open /\ users[user_data[t]] = t

\* The chain of alarms never breaks: until the server is done, an alarm is set,
\* or its signal, its byte or its flag is on the way.
AlarmNeverLost ==
    Up => \/ alarmAt > now
          \/ "SIGALRM" \in pending
          \/ "SIGALRM" \in pipe /\ "sig" \in ready \cup batch
          \/ timeout

\* The server gives up a connection that has not ended only when it has read
\* nothing from it for three slots.
NeverCutShort ==
    [][\A fd \in open \ open' : ~fin[fd] => now >= heard[fd] + 3 * TIMESLOT]_allvars

\* The handlers call the list as it wants to be called, though neither it nor they
\* look: one call at a time, an existing timer, a later expiry.  So what holds of
\* SortedTimerLst holds here.
UsesTheList == Spec

\* SIGALRM is raised at e or later, within the clock's bound, or it has been raised
\* and the tick it leads to has not begun.
AlarmFrom(e) ==
    \/ alarmAt \in e .. MaxClock
    \/ now >= e /\ running # "tick" /\ (timeout \/ "SIGALRM" \in pipe \cup pending)

\* A connection that has been silent for three slots when an alarm comes is closed,
\* however signals, bytes, flag and the events of the rounds fall, unless it is read
\* from first or the server stops.  (That the alarms go on is AlarmNeverLost.)
SilentIsClosed ==
    \A fd \in Fds, h \in 0 .. MaxClock - 3 * TIMESLOT :
        (fd \in open /\ heard[fd] = h /\ AlarmFrom(h + 3 * TIMESLOT))
            ~> (fd \notin open \/ heard[fd] # h \/ phase = "done")
=============================================================================
