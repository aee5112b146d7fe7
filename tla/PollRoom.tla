------------------------------- MODULE PollRoom ------------------------------
(***************************************************************************)
(* The chat room of high-performance-server-programming-linux/ch09: one    *)
(* process (chatroom_server.cc) that polls every socket, and its clients  *)
(* (chatroom_client.cc).  users[] is indexed by descriptor, fds[] by       *)
(* place; fds is the sequence of the descriptors in places 1 .. user_cnt.  *)
(* A buffer holds the client whose text is in it, nothing, or what new     *)
(* left there: users[] is never initialised.                               *)
(***************************************************************************)
EXTENDS Integers, Sequences, FiniteSets, SequencesExt

CONSTANTS Client,
          Fds,              \* numbers: accept returns the lowest that is free
          None,             \* no client, no text, NULL
          Wild,             \* an indeterminate value: a pointer or a text
          USER_LIMIT,
          MaxInbox          \* bound: texts waiting in one socket

VARIABLES
    i, fds,                 \* the place main looks at, or -1 in poll
    events, revents,        \* of a descriptor in fds; revents of listenfd too
    buf, write_buf,         \* users[fd]
    conn,                   \* of a descriptor: whose connection it is
    link,                   \* of a client's connection, as the server's kernel sees it
    so_error, inbox,
    unread,                 \* there is text for the client that it has not received
    told                    \* history: open sockets given a text that send has not taken

users   == <<buf, write_buf>>
kernel  == <<conn, link, so_error, inbox>>
vars    == <<i, fds, events, revents, users, kernel, unread, told>>

Bits == {"in", "out", "err", "hup"}
listenfd == 3               \* the first descriptor after standard error
user_cnt == Len(fds)
Current == fds[i]
Polling == i = -1

TypeOK ==
    /\ i \in -1 .. USER_LIMIT + 1 /\ fds \in Seq(Fds) /\ user_cnt <= USER_LIMIT
    /\ events \in [Fds -> SUBSET Bits]
    /\ revents \in [Fds \cup {listenfd} -> SUBSET Bits]
    /\ buf \in [Fds -> Client \cup {None, Wild}]
    /\ write_buf \in [Fds -> Fds \cup {None, Wild}]
    /\ conn \in [Fds -> Client \cup {None}]
    /\ link \in [Client -> {"out", "queued", "up", "fin", "rst", "over"}]
    /\ so_error \in [Client -> BOOLEAN] /\ inbox \in [Client -> 0 .. MaxInbox]
    /\ unread \in [Client -> BOOLEAN] /\ told \subseteq Fds

Init ==
    /\ i = -1 /\ fds = <<>>
    /\ events = [fd \in Fds |-> {}] /\ revents = [p \in Fds \cup {listenfd} |-> {}]
    /\ buf = [fd \in Fds |-> Wild] /\ write_buf = [fd \in Fds |-> Wild]
    /\ conn = [fd \in Fds |-> None]
    /\ link = [c \in Client |-> "out"] /\ so_error = [c \in Client |-> FALSE]
    /\ inbox = [c \in Client |-> 0]
    /\ unread = [c \in Client |-> FALSE] /\ told = {}

-----------------------------------------------------------------------------
(* chatroom_client.cc.                                                     *)

Connect(c) ==
    /\ link[c] = "out"
    /\ link' = [link EXCEPT ![c] = "queued"]
    /\ UNCHANGED <<i, fds, events, revents, users, conn, so_error, inbox, unread, told>>

\* Standard input, spliced into the socket.
Splice(c) ==
    /\ link[c] \in {"queued", "up"} /\ inbox[c] < MaxInbox
    /\ inbox' = [inbox EXCEPT ![c] = @ + 1]
    /\ UNCHANGED <<i, fds, events, revents, users, conn, link, so_error, unread, told>>

ReadMessage(c) ==
    /\ unread[c] /\ link[c] = "up"
    /\ unread' = [unread EXCEPT ![c] = FALSE]
    /\ UNCHANGED <<i, fds, events, revents, users, kernel, told>>

\* The client is stopped by its user.  Closing a socket that holds text nobody
\* has read resets the connection.
ClientEnds(c) ==
    /\ link[c] \in {"queued", "up"}
    /\ link' = [link EXCEPT ![c] = IF unread[c] THEN "rst" ELSE "fin"]
    /\ so_error' = [so_error EXCEPT ![c] = unread[c]]
    /\ unread' = [unread EXCEPT ![c] = FALSE]
    /\ UNCHANGED <<i, fds, events, revents, users, conn, inbox, told>>

-----------------------------------------------------------------------------
(* chatroom_server.cc.                                                     *)

Queue == {c \in Client : link[c] \in {"queued", "fin"}
                           /\ c \notin {conn[fd] : fd \in Fds} /\ ~so_error[c]}

State(c) == (IF inbox[c] > 0 \/ link[c] # "up" THEN {"in"} ELSE {})
            \cup (IF so_error[c] THEN {"err"} ELSE {})
            \cup (IF link[c] = "rst" THEN {"hup"} ELSE {}) \cup {"out"}

Poll ==
    LET seen == [p \in Fds \cup {listenfd} |->
                   IF p = listenfd THEN IF Queue # {} THEN {"in"} ELSE {}
                   ELSE IF p \in ToSet(fds) THEN State(conn[p]) \cap (events[p] \cup {"err", "hup"})
                   ELSE {}]
    IN  /\ Polling /\ \E p \in DOMAIN seen : seen[p] # {}
        /\ revents' = seen /\ i' = 0
        /\ UNCHANGED <<fds, events, users, kernel, unread, told>>

At(place) == ~Polling /\ i = place /\ i' = i + 1

ReadingAndWriting == {"in", "out", "hup", "err"}    \* mutation of the next one
AtFirst == {"in", "hup", "err"}

\* A place in users keeps what its descriptor's former owner left in it.
Accept(c, fd) ==
    /\ At(0) /\ "in" \in revents[listenfd] /\ c \in Queue /\ user_cnt < USER_LIMIT
    /\ conn[fd] = None /\ \A f \in Fds : conn[f] = None => fd <= f
    /\ conn' = [conn EXCEPT ![fd] = c]
    /\ link' = [link EXCEPT ![c] = IF @ = "queued" THEN "up" ELSE @]
    /\ fds' = Append(fds, fd)
    /\ events' = [events EXCEPT ![fd] = AtFirst] /\ revents' = [revents EXCEPT ![fd] = {}]
    /\ told' = told \ {fd}
    /\ UNCHANGED <<users, so_error, inbox, unread>>

TooManyUsers(c) ==
    /\ At(0) /\ "in" \in revents[listenfd] /\ c \in Queue
    /\ user_cnt >= USER_LIMIT
    /\ link' = [link EXCEPT ![c] = "over"] /\ inbox' = [inbox EXCEPT ![c] = 0]
    /\ UNCHANGED <<fds, events, revents, users, conn, so_error, unread, told>>

OnUser(bit) == /\ ~Polling /\ i \in 1 .. user_cnt /\ bit \in revents[Current]
               /\ bit # "err" => "err" \notin revents[Current]
               /\ bit \in {"in", "out"} => "hup" \notin revents[Current]
               /\ bit = "out" => "in" \notin revents[Current]

\* getsockopt clears the error it returns.
PollErr ==
    /\ OnUser("err") /\ i' = i + 1
    /\ so_error' = [so_error EXCEPT ![conn[Current]] = FALSE]
    /\ UNCHANGED <<fds, events, revents, users, conn, link, inbox, unread, told>>

\* fds[i] = fds[user_cnt], --user_cnt; what was at i is looked at again.
Without == Front([fds EXCEPT ![i] = fds[user_cnt]])

\* The entry of the last user is copied over the one of the user who leaves, whose
\* buffer recv may have cleared before.
Leave(bufs) ==
    LET last == fds[user_cnt] IN
    /\ buf' = [bufs EXCEPT ![Current] = bufs[last]]
    /\ write_buf' = [write_buf EXCEPT ![Current] = write_buf[last]]
    /\ conn' = [conn EXCEPT ![Current] = None]
    /\ link' = [link EXCEPT ![conn[Current]] = "over"]
    /\ inbox' = [inbox EXCEPT ![conn[Current]] = 0]
    /\ so_error' = [so_error EXCEPT ![conn[Current]] = FALSE]
    /\ fds' = Without /\ told' = told \ {Current}
    /\ UNCHANGED <<i, events, revents, unread>>

PollHup == OnUser("hup") /\ Leave(buf)

\* recv < 0: the connection was reset after poll looked at it.
RecvFails == /\ OnUser("in") /\ inbox[conn[Current]] = 0 /\ so_error[conn[Current]]
             /\ Leave([buf EXCEPT ![Current] = None])

\* recv = 0: nothing is done, but the buffer was cleared.
RecvEnd ==
    LET c == conn[Current] IN
    /\ OnUser("in") /\ inbox[c] = 0 /\ link[c] # "up" /\ ~so_error[c]
    /\ i' = i + 1
    /\ buf' = [buf EXCEPT ![Current] = None]
    /\ UNCHANGED <<fds, events, revents, write_buf, kernel, unread, told>>

\* mask |= ~bit sets every bit but that one, and clears none.
OrNot(mask, bit) == mask \cup (Bits \ {bit})

RecvText ==
    LET c == conn[Current]
        others == ToSet(fds) \ {Current}
    IN  /\ OnUser("in") /\ inbox[c] > 0
        /\ i' = i + 1
        /\ \E left \in 0 .. inbox[c] - 1 : inbox' = [inbox EXCEPT ![c] = left]
        /\ buf' = [buf EXCEPT ![Current] = c]
        /\ events' = [fd \in Fds |-> IF fd \in others THEN OrNot(events[fd], "in") \cup {"out"}
                                                      ELSE events[fd]]
        /\ write_buf' = [fd \in Fds |-> IF fd \in others THEN Current ELSE write_buf[fd]]
        /\ told' = told \cup others
        /\ UNCHANGED <<fds, revents, conn, link, so_error, unread>>

\* What a wild pointer leads to is wild as well.
Text(fd) == IF write_buf[fd] \in {None, Wild} THEN write_buf[fd] ELSE buf[write_buf[fd]]

\* strlen finds something or nothing where memory was never written.
Sent(fd) == IF Text(fd) = Wild THEN {Wild, None} ELSE {Text(fd)}

Send ==
    /\ OnUser("out") /\ i' = i + 1
    /\ \E text \in Sent(Current) :
         LET c == conn[Current] IN
         /\ unread' = [unread EXCEPT ![c] = @ \/ (text # None /\ link[c] = "up")]
         /\ IF text # None /\ link[c] = "fin"           \* the client's kernel resets it
            THEN /\ link' = [link EXCEPT ![c] = "rst"]
                 /\ so_error' = [so_error EXCEPT ![c] = TRUE]
            ELSE /\ so_error' = [so_error EXCEPT ![c] = @ /\ text = None]
                 /\ UNCHANGED link
    /\ IF write_buf[Current] = None THEN UNCHANGED <<write_buf, events, told>>
       ELSE /\ write_buf' = [write_buf EXCEPT ![Current] = None]
            /\ events' = [events EXCEPT ![Current] = OrNot(@, "out") \cup {"in"}]
            /\ told' = told \ {Current}
    /\ UNCHANGED <<fds, revents, buf, conn, inbox>>

NothingSeen ==
    /\ IF i = 0 THEN revents[listenfd] = {} ELSE i \in 1 .. user_cnt /\ revents[Current] = {}
    /\ i' = i + 1
    /\ UNCHANGED <<fds, events, revents, users, kernel, unread, told>>

RoundEnds ==
    /\ i = user_cnt + 1 /\ i' = -1
    /\ revents' = [p \in DOMAIN revents |-> {}]         \* poll fills them anew
    /\ UNCHANGED <<fds, events, users, kernel, unread, told>>

-----------------------------------------------------------------------------
main == \/ Poll \/ PollErr \/ PollHup \/ RecvFails \/ RecvEnd \/ RecvText \/ Send
        \/ NothingSeen \/ RoundEnds
        \/ \E c \in Client : TooManyUsers(c) \/ \E fd \in Fds : Accept(c, fd)

Next == main \/ \E c \in Client : Connect(c) \/ Splice(c) \/ ReadMessage(c) \/ ClientEnds(c)

Spec == Init /\ [][Next]_vars

-----------------------------------------------------------------------------
(* Properties.                                                             *)

\* Nothing to send, or a text that send has not taken yet, in another place's buffer.
PointsRight(fd) == write_buf[fd] \in IF fd \in told THEN Fds \ {fd} ELSE {None}

\* Whatever order users leave in, fds holds each open socket once.  POLLOUT, once
\* asked for, is never switched off again, so send comes to a socket in every round,
\* and nothing initialises write_buf (line 67) or resets it at accept: where POLLOUT
\* is asked for it is NULL, or points to the entry of another place because main has
\* read a text for this socket since it was accepted and has not sent it yet.
NoWildPointer ==
    /\ TypeOK
    /\ IsInjective(fds) /\ ToSet(fds) = {fd \in Fds : conn[fd] # None}
    /\ \A fd \in ToSet(fds) : "out" \in events[fd] => PointsRight(fd)

\* What a client says goes to every client but itself (the notes on lines 16
\* and 17): what main is about to write to a socket was not read from it.
NeverOwnText == OnUser("out") => Text(Current) # conn[Current]
=============================================================================
