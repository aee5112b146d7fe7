------------------------------ MODULE ForkServer -----------------------------
(***************************************************************************)
(* TCP-IP-networking-programming/chapter_10: the echo server with a        *)
(* process per client (echo_mpserv.c) and its clients of two processes,    *)
(* one that writes and one that reads (echo_mpclient.c).  A line of text   *)
(* is one unit; a read takes any part of what waits.                       *)
(***************************************************************************)
EXTENDS Integers, Sequences, FiniteSets, SequencesExt

CONSTANTS Client,           \* numbered in the order they connect
          None,
          BUF_SIZE,         \* lines that fit in a buffer
          MaxLines          \* bound: lines a client types

VARIABLES
    main, clnt_sock,        \* of the server's parent
    child, str_len,         \* of the child that serves a client
    sigchld, handling,      \* SIGCHLD is pending; the parent is in read_childproc
    backlog,
    holds,                  \* the server's processes that have the client's socket open
    up, eof, down,          \* lines to the server, and their end; lines to the client
    writer, reader,         \* the client's processes
    sent, got,              \* history: lines written and read by the client
    lost                    \* history: SIGCHLDs raised while one was pending

server == <<main, clnt_sock, child, str_len>>
signal == <<sigchld, handling, lost>>
wires  == <<up, eof, down>>
client == <<writer, reader, sent, got>>
vars   == <<server, signal, backlog, holds, wires, client>>

TypeOK ==
    /\ main \in {"accept", "fork", "close"} /\ clnt_sock \in Client \cup {None}
    /\ child \in [Client -> {"none", "read", "write", "close", "zombie", "gone"}]
    /\ str_len \in [Client -> 0 .. MaxLines]
    /\ sigchld \in BOOLEAN /\ handling \in BOOLEAN /\ lost \in 0 .. Cardinality(Client)
    /\ backlog \in Seq(Client)
    /\ holds \in [Client -> SUBSET {"parent", "child"}]
    /\ up \in [Client -> 0 .. MaxLines] /\ down \in [Client -> 0 .. MaxLines]
    /\ eof \in [Client -> BOOLEAN]
    /\ writer \in [Client -> {"none", "write", "done"}]
    /\ reader \in [Client -> {"none", "read", "done"}]
    /\ sent \in [Client -> 0 .. MaxLines] /\ got \in [Client -> 0 .. MaxLines]

Init ==
    /\ main = "accept" /\ clnt_sock = None
    /\ child = [c \in Client |-> "none"] /\ str_len = [c \in Client |-> 0]
    /\ sigchld = FALSE /\ handling = FALSE /\ lost = 0
    /\ backlog = <<>> /\ holds = [c \in Client |-> {}]
    /\ up = [c \in Client |-> 0] /\ down = [c \in Client |-> 0]
    /\ eof = [c \in Client |-> FALSE]
    /\ writer = [c \in Client |-> "none"] /\ reader = [c \in Client |-> "none"]
    /\ sent = [c \in Client |-> 0] /\ got = [c \in Client |-> 0]

\* What a read may return of n lines that wait.
Part(n) == {k \in 1 .. n : k <= BUF_SIZE}

-----------------------------------------------------------------------------
(* echo_mpclient.c.                                                        *)

Connect(c) ==
    /\ reader[c] = "none" /\ \A d \in Client : d < c => reader[d] # "none"
    /\ backlog' = Append(backlog, c) /\ holds' = [holds EXCEPT ![c] = {"parent"}]
    /\ writer' = [writer EXCEPT ![c] = "write"] /\ reader' = [reader EXCEPT ![c] = "read"]
    /\ UNCHANGED <<server, signal, wires, sent, got>>

Type(c) ==
    /\ writer[c] = "write" /\ sent[c] < MaxLines /\ holds[c] # {}
    /\ sent' = [sent EXCEPT ![c] = @ + 1] /\ up' = [up EXCEPT ![c] = @ + 1]
    /\ UNCHANGED <<server, signal, backlog, holds, eof, down, writer, reader, got>>

Quit(c) ==
    /\ writer[c] = "write"
    /\ writer' = [writer EXCEPT ![c] = "done"]
    /\ eof' = [eof EXCEPT ![c] = TRUE]
    /\ UNCHANGED <<server, signal, backlog, holds, up, down, reader, sent, got>>

ReadLines(c) ==
    /\ reader[c] = "read" /\ down[c] > 0
    /\ \E n \in Part(down[c]) : /\ down' = [down EXCEPT ![c] = @ - n]
                               /\ got' = [got EXCEPT ![c] = @ + n]
    /\ UNCHANGED <<server, signal, backlog, holds, up, eof, writer, reader, sent>>

\* read returns 0 when no process of the server has the socket any more.
ReadEnds(c) ==
    /\ reader[c] = "read" /\ down[c] = 0 /\ holds[c] = {}
    /\ reader' = [reader EXCEPT ![c] = "done"]
    /\ UNCHANGED <<server, signal, backlog, holds, wires, writer, sent, got>>

read_routine(c)  == ReadLines(c) \/ ReadEnds(c)
write_routine(c) == Type(c) \/ Quit(c)

-----------------------------------------------------------------------------
(* echo_mpserv.c: the parent.  Nothing of its loop runs during the handler. *)

Parent(at) == main = at /\ ~handling

Accept ==
    /\ Parent("accept") /\ backlog # <<>>
    /\ clnt_sock' = Head(backlog) /\ backlog' = Tail(backlog)
    /\ main' = "fork"
    /\ UNCHANGED <<child, str_len, signal, holds, wires, client>>

Fork ==
    /\ Parent("fork") /\ main' = "close"
    /\ child' = [child EXCEPT ![clnt_sock] = "read"]
    /\ holds' = [holds EXCEPT ![clnt_sock] = @ \cup {"child"}]
    /\ UNCHANGED <<clnt_sock, str_len, signal, backlog, wires, client>>

KeepsOpen(c) == UNCHANGED holds                     \* mutation of the next one
Closes(c) == holds' = [holds EXCEPT ![c] = @ \ {"parent"}]

\* After a fork that failed, and after one that did not.
CloseInParent ==
    /\ main \in {"fork", "close"} /\ ~handling
    /\ main' = "accept" /\ clnt_sock' = None
    /\ Closes(clnt_sock)
    /\ UNCHANGED <<child, str_len, signal, backlog, wires, client>>

\* A signal of the same kind that is pending already is not counted twice.
SIGCHLD == /\ sigchld' = TRUE
           /\ lost' = IF sigchld THEN lost + 1 ELSE lost
           /\ UNCHANGED handling

Deliver ==
    /\ sigchld /\ ~handling
    /\ sigchld' = FALSE /\ handling' = TRUE
    /\ UNCHANGED <<server, lost, backlog, holds, wires, client>>

ReapsLater(zombies) == child' = child                  \* mutation of the next one
Reaps(zombies) == IF zombies = {} THEN child' = child
                  ELSE \E c \in zombies : child' = [child EXCEPT ![c] = "gone"]

\* One waitpid(-1, WNOHANG).
read_childproc ==
    /\ handling /\ handling' = FALSE
    /\ Reaps({c \in Client : child[c] = "zombie"})
    /\ UNCHANGED <<main, clnt_sock, str_len, sigchld, lost, backlog, holds, wires, client>>

-----------------------------------------------------------------------------
(* echo_mpserv.c: a child.                                                 *)

Read(c) ==
    /\ child[c] = "read" /\ up[c] > 0
    /\ \E n \in Part(up[c]) : /\ up' = [up EXCEPT ![c] = @ - n]
                             /\ str_len' = [str_len EXCEPT ![c] = n]
    /\ child' = [child EXCEPT ![c] = "write"]
    /\ UNCHANGED <<main, clnt_sock, signal, backlog, holds, eof, down, client>>

Write(c) ==
    /\ child[c] = "write"
    /\ down' = [down EXCEPT ![c] = @ + str_len[c]]
    /\ child' = [child EXCEPT ![c] = "read"]
    /\ UNCHANGED <<main, clnt_sock, str_len, signal, backlog, holds, up, eof, client>>

EndSeen(c)  == eof[c]                               \* mutation of the next one
AtEnd(c) == eof[c] /\ up[c] = 0

CloseInChild(c) ==
    /\ child[c] = "read" /\ AtEnd(c)
    /\ holds' = [holds EXCEPT ![c] = @ \ {"child"}]
    /\ child' = [child EXCEPT ![c] = "close"]
    /\ UNCHANGED <<main, clnt_sock, str_len, signal, backlog, wires, client>>

ChildExits(c) ==
    /\ child[c] = "close"
    /\ child' = [child EXCEPT ![c] = "zombie"]
    /\ SIGCHLD
    /\ UNCHANGED <<main, clnt_sock, str_len, backlog, holds, wires, client>>

-----------------------------------------------------------------------------
parent == Accept \/ Fork \/ CloseInParent \/ Deliver \/ read_childproc
serve(c) == Read(c) \/ Write(c) \/ CloseInChild(c) \/ ChildExits(c)

Next == \/ parent
        \/ \E c \in Client : Connect(c) \/ write_routine(c) \/ read_routine(c) \/ serve(c)

Spec == Init /\ [][Next]_vars

\* Every process runs; nobody has to type or to quit.  A fork may fail, but the
\* parent does one or the other.
FairSpec == /\ Spec /\ WF_vars(parent)
            /\ \A c \in Client : WF_vars(serve(c)) /\ WF_vars(read_routine(c))

-----------------------------------------------------------------------------
(* Properties.                                                             *)

\* When the reading half of a client ends, it has every line that the writing
\* half had sent before it said that there were no more, unless the fork failed.
EchoedWhole ==
    \A c \in Client : reader[c] = "done" /\ child[c] # "none" =>
        got[c] = sent[c] /\ writer[c] = "done"

\* A client that quits is let go: its reading half comes to the end, whichever
\* of the parent and the child closes the connection last.
LetGo == \A c \in Client : writer[c] = "done" => reader[c] = "done"

QuitsWhole == <>[]LetGo

\* There are never more zombies than SIGCHLDs pending, being handled or lost:
\* one waitpid each removes them but for those whose signal met another.
ZombiesAccounted ==
    /\ TypeOK
    /\ Cardinality({c \in Client : child[c] = "zombie"})
          <= lost + (IF sigchld THEN 1 ELSE 0) + (IF handling THEN 1 ELSE 0)
=============================================================================
