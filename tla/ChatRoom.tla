------------------------------ MODULE ChatRoom ------------------------------
(***************************************************************************)
(* The multi-process chat-room server of                                   *)
(* high-performance-server-programming-linux/ch13/chatroom_server.cc.      *)
(*                                                                         *)
(* The parent accepts connections and forks one child per client.  A child *)
(* reads what its client says into "its" slot of a shared memory segment   *)
(* and writes the number of the slot on its pipe; the parent forwards that *)
(* number to every other child, and each of those copies the slot to its   *)
(* own client.  The parent keeps the table g_users[0 .. g_user_count - 1]  *)
(* dense: when a child is reaped, the last entry moves into the hole.      *)
(*                                                                         *)
(* A client is identified with the child that serves it, so an element of  *)
(* Clients is a connection, a pid and a pipe at once.  The name is free    *)
(* again, for another connection, once the child has been reaped: this is  *)
(* how the kernel reuses a pid.                                            *)
(*                                                                         *)
(* Every descriptor is watched with EPOLLIN | EPOLLET: a descriptor enters *)
(* the ready set when something ARRIVES, not while something is there.     *)
(***************************************************************************)
EXTENDS Integers, Sequences, FiniteSets

CONSTANTS Clients,      \* the connections, each with the pid of its child
          NoUser,       \* an entry of g_users never written
          USER_LIMIT,   \* the capacity of the room
          MaxConnects,  \* bound: connections made in a behaviour
          MaxLeaves,    \* bound: clients that close their connection
          MaxTerms,     \* bound: SIGTERM or SIGINT sent to the server
          MaxSend,      \* bound: messages one connection sends
          MaxEchoes     \* bound: SIGTERMs that a child forwards to its parent

ASSUME ChatRoomAssumption ==
    /\ NoUser \notin Clients
    /\ {"listen", "sig"} \cap Clients = {}
    /\ USER_LIMIT \in Nat \ {0}
    /\ {MaxConnects, MaxLeaves, MaxTerms, MaxSend, MaxEchoes} \subseteq Nat

VARIABLES
    \* the parent's tables (main, and the globals)
    g_users,        \* g_users[i].pid
    g_user_count,
    sub_process,    \* pid -> index in g_users, or -1
    terminate, stop_server,
    exited,         \* main has returned
    \* the parent's event loop
    pready,         \* descriptors on the ready list of epollfd
    pbatch,         \* events[] of this round not yet handled
    signals,        \* signals[] read from sig_pipefd[0], not yet handled
    \* what the kernel holds
    sigpipe,        \* bytes in sig_pipefd
    pending,        \* signals pending for the parent
    backlog,        \* connections not yet accepted
    shm,            \* share_mem, one value per BUFFER_SIZE slot
    up,             \* pipe child -> parent: how many copies of idx are in it
    down,           \* pipe parent -> child: the numbers in it
    sentN, readN,   \* messages of the client sent, and received by recv
    fin,            \* the connection is over (the client or the child closed it)
    \* the children
    cpc,            \* where each child is
    idx,            \* the argument of run_child
    stop_child,
    termed,         \* a SIGTERM is pending for the child
    cready, cbatch, \* the child's ready list and events[]
    \* history and bounds
    got,            \* got[c][d]: the last message of d that client c has been
                    \* sent; when c joins, what d had said before
    used            \* how often the environment has acted

tables  == <<g_users, g_user_count, sub_process>>
flags   == <<terminate, stop_server, exited>>
ploop   == <<pready, pbatch, signals>>
sigs    == <<sigpipe, pending>>
pipes   == <<up, down>>
conns   == <<backlog, sentN, readN, fin>>
child   == <<cpc, idx, stop_child, termed, cready, cbatch>>
parent  == <<tables, flags, ploop>>
hist    == <<shm, got, used>>
others  == <<pipes, conns, child, hist>>
outside == <<parent, sigs, pipes, conns, hist>>
vars    == <<tables, flags, ploop, sigs, pipes, conns, child, shm, got, used>>

Sigs    == {"SIGCHLD", "SIGTERM"}
Budgets == {"connect", "leave", "term", "echo"}
Slots   == 0 .. USER_LIMIT - 1
Blank   == [from |-> NoUser, upto |-> 0]      \* a slot after memset
Content == {Blank} \cup [from : Clients, upto : Nat]

\* A child is "forked" until it has closed the descriptors it inherited,
\* "starting" until its own SIGTERM handler is installed; then it is in the
\* for loop or at its end ("loop"), between the test of stop_child and
\* epoll_wait ("entering"), blocked ("waiting"), or between memset and recv
\* ("filling").
InLoop     == {"loop", "entering", "waiting", "filling"}
ChildState == {"none", "forked", "starting", "zombie"} \cup InLoop

Alive(c)   == cpc[c] \notin {"none", "zombie"}
Members    == {g_users[i] : i \in 0 .. g_user_count - 1}

TablesOK ==
    /\ g_users \in [0 .. USER_LIMIT -> Clients \cup {NoUser}]
    /\ g_user_count \in 0 .. USER_LIMIT
    /\ sub_process \in [Clients -> -1 .. USER_LIMIT]
    /\ terminate \in BOOLEAN /\ stop_server \in BOOLEAN /\ exited \in BOOLEAN

LoopOK ==
    /\ pready \subseteq Clients \cup {"listen", "sig"}
    /\ pbatch \subseteq Clients \cup {"listen", "sig"}
    /\ signals \in Seq(Sigs)

KernelOK ==
    /\ sigpipe \in Seq(Sigs)
    /\ pending \subseteq Sigs
    /\ backlog \subseteq Clients
    /\ shm \in [Slots -> Content]
    /\ up \in [Clients -> Nat]
    /\ down \in [Clients -> Seq(Slots)]
    /\ sentN \in [Clients -> Nat] /\ readN \in [Clients -> Nat]
    /\ fin \in [Clients -> BOOLEAN]

ChildrenOK ==
    /\ cpc \in [Clients -> ChildState]
    /\ idx \in [Clients -> Slots]
    /\ stop_child \in [Clients -> BOOLEAN]
    /\ termed \in [Clients -> BOOLEAN]
    /\ cready \in [Clients -> SUBSET {"conn", "pipe"}]
    /\ cbatch \in [Clients -> SUBSET {"conn", "pipe"}]

HistoryOK ==
    /\ got \in [Clients -> [Clients -> Nat]]
    /\ used \in [Budgets -> Nat]

\* Every index a child was forked with is one of a slot, and so is every number
\* on a pipe: nobody writes or reads beyond share_mem.
TypeOK == TablesOK /\ LoopOK /\ KernelOK /\ ChildrenOK /\ HistoryOK

Init ==
    /\ g_users = [i \in 0 .. USER_LIMIT |-> NoUser]
    /\ g_user_count = 0
    /\ sub_process = [c \in Clients |-> -1]
    /\ terminate = FALSE /\ stop_server = FALSE /\ exited = FALSE
    /\ pready = {} /\ pbatch = {} /\ signals = <<>>
    /\ sigpipe = <<>> /\ pending = {}
    /\ backlog = {}
    /\ shm = [i \in Slots |-> Blank]
    /\ up = [c \in Clients |-> 0] /\ down = [c \in Clients |-> <<>>]
    /\ sentN = [c \in Clients |-> 0] /\ readN = [c \in Clients |-> 0]
    /\ fin = [c \in Clients |-> TRUE]
    /\ cpc = [c \in Clients |-> "none"]
    /\ idx = [c \in Clients |-> 0]
    /\ stop_child = [c \in Clients |-> FALSE]
    /\ termed = [c \in Clients |-> FALSE]
    /\ cready = [c \in Clients |-> {}] /\ cbatch = [c \in Clients |-> {}]
    /\ got = [c \in Clients |-> [d \in Clients |-> 0]]
    /\ used = [k \in Budgets |-> 0]

-----------------------------------------------------------------------------
(* Epoll.  epoll_wait returns the descriptors of the ready list that are   *)
(* still readable and empties the list.  Their order is abstracted.        *)

ReadableByParent ==
    {e \in pready : \/ e = "listen" /\ backlog # {}
                    \/ e = "sig" /\ sigpipe # <<>>
                    \/ e \in Clients /\ (up[e] > 0 \/ cpc[e] = "zombie")}

ConnReadable(c) == readN[c] < sentN[c] \/ fin[c]

PipeReadableEOFMissed(c) == down[c] # <<>>          \* mutation of the next one
PipeReadable(c) == down[c] # <<>> \/ exited

Readable(c) == {e \in {"conn", "pipe"} : \/ e = "conn" /\ ConnReadable(c)
                                         \/ e = "pipe" /\ PipeReadable(c)}

\* The ready list of child c after something arrived on e.
Edge(c, e) == IF cpc[c] \in InLoop THEN cready[c] \cup {e} ELSE cready[c]

-----------------------------------------------------------------------------
(* The clients, and the operator of the server.                            *)

Connect(c) ==
    /\ ~exited /\ cpc[c] = "none" /\ c \notin backlog
    /\ used["connect"] < MaxConnects
    /\ used' = [used EXCEPT !["connect"] = @ + 1]
    /\ backlog' = backlog \cup {c}
    /\ fin' = [fin EXCEPT ![c] = FALSE]
    /\ pready' = pready \cup {"listen"}
    /\ UNCHANGED <<tables, flags, pbatch, signals, sigs, pipes, child, sentN,
                   readN, shm, got>>

ClientSend(c) ==
    /\ ~fin[c] /\ sentN[c] < MaxSend
    /\ sentN' = [sentN EXCEPT ![c] = @ + 1]
    /\ cready' = [cready EXCEPT ![c] = Edge(c, "conn")]
    /\ UNCHANGED <<parent, sigs, pipes, backlog, readN, fin, cpc, idx,
                   stop_child, termed, cbatch, hist>>

ClientLeave(c) ==
    /\ ~fin[c] /\ used["leave"] < MaxLeaves
    /\ used' = [used EXCEPT !["leave"] = @ + 1]
    /\ fin' = [fin EXCEPT ![c] = TRUE]
    /\ cready' = [cready EXCEPT ![c] = Edge(c, "conn")]
    /\ UNCHANGED <<parent, sigs, pipes, backlog, sentN, readN, cpc, idx,
                   stop_child, termed, cbatch, shm, got>>

\* kill(1) or Ctrl-C: SIGTERM and SIGINT have one handler and one meaning.
Interrupt ==
    /\ ~exited /\ used["term"] < MaxTerms
    /\ used' = [used EXCEPT !["term"] = @ + 1]
    /\ pending' = pending \cup {"SIGTERM"}
    /\ UNCHANGED <<parent, sigpipe, pipes, conns, child, shm, got>>

-----------------------------------------------------------------------------
(* The parent.                                                             *)

\* The handler runs whenever the kernel delivers a pending signal.
sig_handler(sig) ==
    /\ ~exited /\ sig \in pending
    /\ pending' = pending \ {sig}
    /\ sigpipe' = Append(sigpipe, sig)
    /\ pready' = pready \cup {"sig"}
    /\ UNCHANGED <<tables, flags, pbatch, signals, others>>

EpollWait ==
    /\ ~exited /\ ~stop_server /\ pbatch = {} /\ signals = <<>>
    /\ ReadableByParent # {}
    /\ pbatch' = ReadableByParent
    /\ pready' = {}
    /\ UNCHANGED <<tables, flags, signals, sigs, others>>

\* The while loop ends and main returns: del_resource, and every pipe end of
\* the parent is closed, so a child still there reads EOF.
Exit ==
    /\ ~exited /\ stop_server /\ pbatch = {} /\ signals = <<>>
    /\ exited' = TRUE
    /\ backlog' = {}
    /\ fin' = [c \in Clients |-> fin[c] \/ c \in backlog]
    /\ sentN' = [c \in Clients |-> IF c \in backlog THEN 0 ELSE sentN[c]]
    /\ cready' = [c \in Clients |-> Edge(c, "pipe")]
    /\ UNCHANGED <<tables, terminate, stop_server, ploop, sigs, pipes, readN,
                   cpc, idx, stop_child, termed, cbatch, hist>>

Handling(e) == signals = <<>> /\ e \in pbatch /\ pbatch' = pbatch \ {e}

AcceptFails ==
    /\ Handling("listen")
    /\ UNCHANGED <<tables, flags, pready, signals, sigs, others>>

RoomLeftOffByOne == g_user_count <= USER_LIMIT      \* mutation of the next one
RoomLeft == g_user_count < USER_LIMIT

\* accept, then close: the room is full, or (elsewhere) fork failed.
Refuse(c) ==
    /\ c \in backlog
    /\ backlog' = backlog \ {c}
    /\ fin' = [fin EXCEPT ![c] = TRUE]
    /\ sentN' = [sentN EXCEPT ![c] = 0]
    /\ UNCHANGED <<tables, flags, pready, signals, sigs, pipes, readN, child,
                   hist>>

TooManyUsers(c) == Handling("listen") /\ ~RoomLeft /\ Refuse(c)

ForkFails(c) == Handling("listen") /\ RoomLeft /\ Refuse(c)

Fork(c) ==
    /\ Handling("listen") /\ RoomLeft
    /\ c \in backlog
    /\ backlog' = backlog \ {c}
    /\ g_users' = [g_users EXCEPT ![g_user_count] = c]
    /\ sub_process' = [sub_process EXCEPT ![c] = g_user_count]
    /\ g_user_count' = g_user_count + 1
    /\ cpc' = [cpc EXCEPT ![c] = "forked"]
    /\ idx' = [idx EXCEPT ![c] = g_user_count]
    /\ got' = [got EXCEPT ![c] = [d \in Clients |-> IF d = c THEN 0 ELSE readN[d]]]
    /\ UNCHANGED <<flags, pready, signals, sigs, pipes, sentN, readN, fin,
                   stop_child, termed, cready, cbatch, shm, used>>

ReadSignals ==
    /\ Handling("sig")
    /\ signals' = sigpipe
    /\ sigpipe' = <<>>
    /\ UNCHANGED <<tables, flags, pready, pending, others>>

NextSignal(sig) == signals # <<>> /\ Head(signals) = sig

\* The entry that moves into the hole: g_users[--g_user_count].
LastUserPostDecrement == g_users[g_user_count]      \* mutation of the next one
LastUser == g_users[g_user_count - 1]

\* sub_process after user c has left entry i.  The second assignment uses the
\* entry just moved: when the last user leaves, it is c itself.
RemappedNotMoved(c, i) == [sub_process EXCEPT ![c] = -1]     \* mutation of the next one
Remapped(c, i) == [sub_process EXCEPT ![c] = -1, ![LastUser] = i]

\* One round of the waitpid loop.
Reap(c) ==
    LET del_user == sub_process[c]
    IN  /\ NextSignal("SIGCHLD") /\ cpc[c] = "zombie"
        /\ cpc' = [cpc EXCEPT ![c] = "none"]
        /\ idx' = [idx EXCEPT ![c] = 0] /\ up' = [up EXCEPT ![c] = 0]
        /\ IF del_user < 0 \/ del_user > USER_LIMIT
             THEN /\ sub_process' = [sub_process EXCEPT ![c] = -1]
                  /\ UNCHANGED <<g_users, g_user_count, pready>>
             ELSE /\ g_users' = [g_users EXCEPT ![del_user] = LastUser]
                  /\ g_user_count' = g_user_count - 1
                  /\ sub_process' = Remapped(c, del_user)
                  /\ pready' = pready \ {c}
        /\ UNCHANGED <<flags, pbatch, signals, sigs, down, conns, stop_child,
                       termed, cready, cbatch, hist>>

\* waitpid has nothing more to report.
NoMoreChildrenUnchecked == TRUE                     \* mutation of the next one
NoMoreChildren == \A c \in Clients : cpc[c] # "zombie"

LastUserGoneUncounted == terminate                  \* mutation of the next one
LastUserGone == terminate /\ g_user_count = 0

ReapDone ==
    /\ NextSignal("SIGCHLD") /\ NoMoreChildren
    /\ signals' = Tail(signals)
    /\ stop_server' = (stop_server \/ LastUserGone)
    /\ UNCHANGED <<tables, terminate, exited, pready, pbatch, sigs, others>>

KillAll ==
    /\ NextSignal("SIGTERM")
    /\ signals' = Tail(signals)
    /\ IF g_user_count = 0
         THEN stop_server' = TRUE /\ UNCHANGED <<terminate, termed>>
         ELSE /\ termed' = [c \in Clients |-> termed[c] \/ (c \in Members /\ Alive(c))]
              /\ terminate' = TRUE
              /\ UNCHANGED stop_server
    /\ UNCHANGED <<tables, exited, pready, pbatch, sigs, pipes, conns, cpc,
                   idx, stop_child, cready, cbatch, hist>>

RecipientsWithSender(c) == {d \in Members : Alive(d)}               \* mutations of
RecipientsRunning(c) == {d \in Members \ {c} : cpc[d] \in InLoop}   \* the next one
Recipients(c) == {d \in Members \ {c} : Alive(d)}

\* An event on the pipe of c: one number is read and sent to the others.  A
\* child that is gone does not get it; the event may be one of a pipe that an
\* earlier event of the same round has closed.
Relay(c) ==
    /\ Handling(c)
    /\ IF cpc[c] # "none" /\ up[c] > 0
         THEN /\ up' = [up EXCEPT ![c] = @ - 1]
              /\ down' = [d \in Clients |-> IF d \in Recipients(c)
                                              THEN Append(down[d], idx[c])
                                              ELSE down[d]]
              /\ cready' = [d \in Clients |-> IF d \in Recipients(c)
                                                THEN Edge(d, "pipe")
                                                ELSE cready[d]]
         ELSE UNCHANGED <<up, down, cready>>
    /\ UNCHANGED <<tables, flags, pready, signals, sigs, conns, cpc, idx,
                   stop_child, termed, cbatch, hist>>

-----------------------------------------------------------------------------
(* A child.                                                                *)

CloseInherited(c) ==
    /\ cpc[c] = "forked"
    /\ cpc' = [cpc EXCEPT ![c] = "starting"]
    /\ UNCHANGED <<outside, idx, stop_child, termed, cready, cbatch>>

\* run_child up to its loop.
SetUp(c) ==
    /\ cpc[c] = "starting"
    /\ cpc' = [cpc EXCEPT ![c] = "loop"]
    /\ cready' = [cready EXCEPT ![c] = Readable(c)]
    /\ UNCHANGED <<outside, idx, stop_child, termed, cbatch>>

\* SIGTERM is delivered.  Until run_child installs child_term_handler the
\* child has the parent's sig_handler: it writes to the parent's own signal
\* pipe, and once that descriptor is closed it does nothing.  The parent
\* answers each forwarded SIGTERM with another one, so their number is bounded.
DeliverTerm(c) ==
    /\ termed[c] /\ Alive(c)
    /\ cpc[c] = "forked" => used["echo"] < MaxEchoes
    /\ termed' = [termed EXCEPT ![c] = FALSE]
    /\ stop_child' = [stop_child EXCEPT ![c] = @ \/ cpc[c] \in InLoop]
    /\ cpc' = [cpc EXCEPT ![c] = IF @ = "waiting" THEN "loop" ELSE @]
    /\ IF cpc[c] = "forked" /\ ~exited
         THEN /\ sigpipe' = Append(sigpipe, "SIGTERM")
              /\ pready' = pready \cup {"sig"}
              /\ used' = [used EXCEPT !["echo"] = @ + 1]
         ELSE UNCHANGED <<sigpipe, pready, used>>
    /\ UNCHANGED <<tables, flags, pbatch, signals, pending, pipes, conns, idx,
                   cready, cbatch, shm, got>>

AtHead(c) == cpc[c] = "loop" /\ cbatch[c] = {}

\* while (!stop_child): leave the loop, close everything, exit(0).  What was
\* unread in connfd and in the pipe is discarded with them; what the child has
\* written on the pipe stays there for the parent.
ChildExit(c) ==
    /\ AtHead(c) /\ stop_child[c]
    /\ cpc' = [cpc EXCEPT ![c] = "zombie"]
    /\ stop_child' = [stop_child EXCEPT ![c] = FALSE]
    /\ termed' = [termed EXCEPT ![c] = FALSE]
    /\ cready' = [cready EXCEPT ![c] = {}]
    /\ down' = [down EXCEPT ![c] = <<>>]
    /\ fin' = [fin EXCEPT ![c] = TRUE]
    /\ sentN' = [sentN EXCEPT ![c] = 0] /\ readN' = [readN EXCEPT ![c] = 0]
    /\ got' = [d \in Clients |-> [e \in Clients |->
                 IF c \in {d, e} THEN 0 ELSE got[d][e]]]
    /\ IF exited
         THEN UNCHANGED <<pending, pready>>
         ELSE /\ pending' = pending \cup {"SIGCHLD"}
              /\ pready' = pready \cup {c}
    /\ UNCHANGED <<tables, flags, pbatch, signals, sigpipe, up, backlog, idx,
                   cbatch, shm, used>>

GoOn(c) ==
    /\ AtHead(c) /\ ~stop_child[c]
    /\ cpc' = [cpc EXCEPT ![c] = "entering"]
    /\ UNCHANGED <<outside, idx, stop_child, termed, cready, cbatch>>

Block(c) ==
    /\ cpc[c] = "entering"
    /\ cpc' = [cpc EXCEPT ![c] = "waiting"]
    /\ UNCHANGED <<outside, idx, stop_child, termed, cready, cbatch>>

Wake(c) ==
    /\ cpc[c] = "waiting" /\ cready[c] \cap Readable(c) # {}
    /\ cpc' = [cpc EXCEPT ![c] = "loop"]
    /\ cbatch' = [cbatch EXCEPT ![c] = cready[c] \cap Readable(c)]
    /\ cready' = [cready EXCEPT ![c] = {}]
    /\ UNCHANGED <<outside, idx, stop_child, termed>>

\* An event on connfd: the slot is blanked ...
ClearSlot(c) ==
    /\ cpc[c] = "loop" /\ "conn" \in cbatch[c]
    /\ shm' = [shm EXCEPT ![idx[c]] = Blank]
    /\ cpc' = [cpc EXCEPT ![c] = "filling"]
    /\ UNCHANGED <<parent, sigs, pipes, conns, idx, stop_child, termed, cready,
                   cbatch, got, used>>

Receivable(c) == readN[c] + 1 .. sentN[c]

\* ... then filled by one recv, which returns the messages that fit, and the
\* parent is told.  recv returns 0 once everything has been read.
FillSlot(c) ==
    /\ cpc[c] = "filling"
    /\ cpc' = [cpc EXCEPT ![c] = "loop"]
    /\ cbatch' = [cbatch EXCEPT ![c] = @ \ {"conn"}]
    /\ IF readN[c] < sentN[c]
         THEN /\ \E k \in Receivable(c) :
                    /\ readN' = [readN EXCEPT ![c] = k]
                    /\ shm' = [shm EXCEPT ![idx[c]] = [from |-> c, upto |-> k]]
              /\ up' = [up EXCEPT ![c] = @ + 1]
              /\ pready' = IF exited THEN pready ELSE pready \cup {c}
              /\ UNCHANGED stop_child
         ELSE /\ stop_child' = [stop_child EXCEPT ![c] = TRUE]
              /\ UNCHANGED <<readN, shm, up, pready>>
    /\ UNCHANGED <<tables, flags, pbatch, signals, sigs, down, backlog, sentN,
                   fin, idx, termed, cready, got, used>>

\* An event on the pipe: one number is read and that slot is sent to the
\* client.  A client that has closed answers with a reset, a new event on
\* connfd.
SendToClient(c) ==
    /\ cpc[c] = "loop" /\ "pipe" \in cbatch[c]
    /\ cbatch' = [cbatch EXCEPT ![c] = @ \ {"pipe"}]
    /\ IF down[c] # <<>>
         THEN LET slot == shm[Head(down[c])]
              IN  /\ down' = [down EXCEPT ![c] = Tail(@)]
                  /\ got' = IF slot = Blank THEN got
                            ELSE [got EXCEPT ![c][slot.from] = slot.upto]
                  /\ cready' = IF fin[c] THEN [cready EXCEPT ![c] = @ \cup {"conn"}]
                               ELSE cready
                  /\ UNCHANGED stop_child
         ELSE /\ stop_child' = [stop_child EXCEPT ![c] = TRUE]
              /\ UNCHANGED <<down, got, cready>>
    /\ UNCHANGED <<parent, sigs, up, conns, cpc, idx, termed, shm, used>>

-----------------------------------------------------------------------------
Environment == \/ Interrupt
               \/ \E c \in Clients : Connect(c) \/ ClientSend(c) \/ ClientLeave(c)

HandleSignal == ReapDone \/ KillAll \/ \E c \in Clients : Reap(c)

HandleEvent == \/ AcceptFails
               \/ ReadSignals
               \/ \E c \in Clients :
                     TooManyUsers(c) \/ ForkFails(c) \/ Fork(c) \/ Relay(c)

Parent == EpollWait \/ Exit \/ HandleSignal \/ HandleEvent

Deliver == \E sig \in Sigs : sig_handler(sig)

run_child(c) == \/ CloseInherited(c) \/ SetUp(c)
                \/ ChildExit(c) \/ GoOn(c) \/ Block(c) \/ Wake(c)
                \/ ClearSlot(c) \/ FillSlot(c) \/ SendToClient(c)

Next == \/ Environment
        \/ Parent
        \/ Deliver
        \/ \E c \in Clients : run_child(c) \/ DeliverTerm(c)

Spec == Init /\ [][Next]_vars

\* The kernel schedules every process that can run and delivers every pending
\* signal; clients and operator may stop at any time.
Fairness == /\ WF_vars(Parent) /\ WF_vars(Deliver)
            /\ \A c \in Clients : WF_vars(run_child(c)) /\ WF_vars(DeliverTerm(c))

FairSpec == Spec /\ Fairness

-----------------------------------------------------------------------------
(* Properties.                                                             *)

\* The dense table and the pid map are inverse to each other and hold exactly
\* the children not yet reaped: whatever the order of connections, exits and
\* coalesced SIGCHLDs, the swap-remove of lines 322-335 loses and disturbs
\* nobody.
UserTable ==
    /\ \A i \in 0 .. g_user_count - 1 :
          /\ g_users[i] \in Clients
          /\ cpc[g_users[i]] # "none"
          /\ sub_process[g_users[i]] = i
    /\ \A c \in Clients :
          cpc[c] # "none" => /\ sub_process[c] \in 0 .. g_user_count - 1
                             /\ g_users[sub_process[c]] = c

\* The table, seen as a set, does what Membership says.
Table == INSTANCE Membership
         WITH members  <- Members,
              dead     <- {c \in Clients : cpc[c] = "zombie"},
              over     <- exited,
              Capacity <- USER_LIMIT

ImplementsMembership == Table!Spec

\* When the server has stopped at most one child is left, the one accepted by
\* a later event of the round in which stop_server was set.
OneOrphan == exited => Cardinality({c \in Clients : Alive(c)}) <= 1

\* As long as nobody has left, entry i of the table and slot i belong together.
NobodyLeft == used["leave"] = 0 /\ used["term"] = 0

\* Until somebody leaves, nobody is sent what it said itself (lines 373-381 skip
\* the sender, but what is sent is whatever the slot holds by then).
NoEcho == NobodyLeft => \A c \in Clients : got[c][c] = 0

\* The slots are read and written without a lock, yet until somebody leaves
\* nobody is left behind: once no notification of c is on its way to d, the client of d has been sent
\* the newest message that c's child has read.
CaughtUp ==
    \A c, d \in Clients :
        (NobodyLeft /\ c # d /\ Alive(c) /\ Alive(d) /\ cpc[c] # "filling" /\ up[c] = 0
           /\ \A i \in 1 .. Len(down[d]) : down[d][i] # idx[c])
        => got[d][c] = readN[c]

\* One SIGCHLD may stand for several exits and may be handled late, but every
\* child that exits is reaped, unless the server stops first (lines 318-340).
ZombiesReaped == \A c \in Clients : cpc[c] = "zombie" ~> (cpc[c] = "none" \/ exited)

\* A child that outlives the server reads EOF on its pipe and exits too.
OrphansExit == \A c \in Clients : (exited /\ Alive(c)) ~> ~Alive(c)

-----------------------------------------------------------------------------
(* What comments of the source say and the code does not do.               *)

\* Lines 392-394: every child writes only the part of the read cache that
\* belongs to the connection it serves.  The children keep the index they were
\* forked with, the table does not.
SlotsPrivate ==
    \A c, d \in Clients :
        (c # d /\ cpc[c] \in InLoop /\ cpc[d] \in InLoop) => idx[c] # idx[d]

\* Lines 99 and 345: SIGTERM ends a child.
KilledChildExits == \A c \in Clients : termed[c] ~> ~Alive(c)
=============================================================================
