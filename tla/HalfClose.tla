------------------------------- MODULE HalfClose -----------------------------
(***************************************************************************)
(* TCP-IP-networking-programming/chapter_16: a server that says three      *)
(* lines and wants to hear one more, with both its streams on one          *)
(* descriptor (sep_serv.c) or on two (sep_serv2.c), and their client       *)
(* (sep_clnt.c).                                                           *)
(***************************************************************************)
EXTENDS Integers

CONSTANT Lines              \* 3 in the code

VARIABLES
    streams,                \* "one" or "two" descriptors
    server, buffered, said, \* lines in the buffer of writefp; lines in the socket
    readable,               \* readfp still has an open descriptor
    eof,                    \* the client has been sent the end
    client, heard,
    answer                  \* the client's last line: none, sent, received, refused

vars == <<streams, server, buffered, said, readable, eof, client, heard, answer>>

TypeOK ==
    /\ streams \in {"one", "two"}
    /\ server \in {"puts", "flush", "shutdown", "close", "gets", "done"}
    /\ buffered \in 0 .. Lines /\ said \in 0 .. Lines /\ heard \in 0 .. Lines
    /\ readable \in BOOLEAN /\ eof \in BOOLEAN
    /\ client \in {"gets", "answer", "done"}
    /\ answer \in {"none", "sent", "received", "refused"}

Init ==
    /\ streams \in {"one", "two"} /\ server = "puts"
    /\ buffered = 0 /\ said = 0 /\ readable = TRUE /\ eof = FALSE
    /\ client = "gets" /\ heard = 0 /\ answer = "none"

-----------------------------------------------------------------------------
(* sep_serv.c and sep_serv2.c.                                             *)

Fputs ==
    /\ server = "puts"
    /\ buffered' = buffered + 1
    /\ server' = IF buffered' = Lines THEN "flush" ELSE "puts"
    /\ UNCHANGED <<streams, said, readable, eof, client, heard, answer>>

Fflush ==
    /\ server = "flush"
    /\ said' = said + buffered /\ buffered' = 0
    /\ server' = IF streams = "two" THEN "shutdown" ELSE "close"
    /\ UNCHANGED <<streams, readable, eof, client, heard, answer>>

\* shutdown(SHUT_WR), in sep_serv2.c only.
Shutdown ==
    /\ server = "shutdown"
    /\ eof' = TRUE /\ server' = "close"
    /\ UNCHANGED <<streams, buffered, said, readable, client, heard, answer>>

\* fclose(writefp): of sep_serv.c's one descriptor nothing is left.
Fclose ==
    /\ server = "close"
    /\ eof' = TRUE /\ readable' = (streams = "two")
    /\ server' = "gets"
    /\ UNCHANGED <<streams, buffered, said, client, heard, answer>>

\* fgets(readfp) waits for the client, or fails at once.
Fgets ==
    /\ server = "gets" /\ (readable => client = "done")
    /\ answer' = IF readable THEN "received" ELSE answer
    /\ server' = "done"
    /\ UNCHANGED <<streams, buffered, said, readable, eof, client, heard>>

-----------------------------------------------------------------------------
(* sep_clnt.c.                                                             *)

ClientGets ==
    /\ client = "gets" /\ heard < said
    /\ heard' = heard + 1
    /\ UNCHANGED <<streams, server, buffered, said, readable, eof, client, answer>>

ClientSeesEnd ==
    /\ client = "gets" /\ heard = said /\ eof
    /\ client' = "answer"
    /\ UNCHANGED <<streams, server, buffered, said, readable, eof, heard, answer>>

\* A host whose socket is closed both ways refuses what comes.
ClientAnswers ==
    /\ client = "answer" /\ client' = "done"
    /\ answer' = IF readable THEN "sent" ELSE "refused"
    /\ UNCHANGED <<streams, server, buffered, said, readable, eof, heard>>

-----------------------------------------------------------------------------
sep_serv == Fputs \/ Fflush \/ (streams = "one" /\ (Fclose \/ Fgets))
sep_serv2 == streams = "two" /\ (Shutdown \/ Fclose \/ Fgets)
sep_clnt == ClientGets \/ ClientSeesEnd \/ ClientAnswers

Next == sep_serv \/ sep_serv2 \/ sep_clnt

Spec == Init /\ [][Next]_vars

FairSpec == Spec /\ WF_vars(sep_serv \/ sep_serv2) /\ WF_vars(sep_clnt)

-----------------------------------------------------------------------------
(* Properties.                                                             *)

\* The client hears every line before the end; its answer reaches the server
\* that has two streams, and never the one that has one (the question on line
\* 43 of sep_serv.c and line 49 of sep_serv2.c).
Answered ==
    /\ client = "done" /\ server = "done" /\ heard = Lines
    /\ answer = IF streams = "two" THEN "received" ELSE "refused"

AnswerReceived == <>Answered
=============================================================================
