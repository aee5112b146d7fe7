----------------------------- MODULE SavingServer ----------------------------
(***************************************************************************)
(* The echo server of TCP-IP-networking-programming/chapter_11: that of    *)
(* chapter 10 with one more process, which saves what was echoed.  The     *)
(* children write to it through a pipe; it reads ten times and ends.  No   *)
(* process ever closes its copies of the two ends of the pipe.             *)
(***************************************************************************)
EXTENDS ForkServer

CONSTANTS Reads,            \* 10 in the code
          PipeRoom          \* lines that fit in the pipe

VARIABLES saver, i, fds,    \* the saving process, its loop, the lines in the pipe
          saved             \* lines in echomsg.txt

saving == <<saver, i, fds, saved>>
all    == <<vars, saving>>

SavingTypeOK ==
    /\ saver \in {"read", "zombie", "gone"} /\ i \in 0 .. Reads
    /\ fds \in 0 .. PipeRoom /\ saved \in Nat

SavingInit == Init /\ saver = "read" /\ i = 0 /\ fds = 0 /\ saved = 0

-----------------------------------------------------------------------------
\* One of the ten reads, with its fwrite.
SaverReads ==
    /\ saver = "read" /\ i < Reads /\ fds > 0
    /\ \E n \in Part(fds) : fds' = fds - n /\ saved' = saved + n
    /\ i' = i + 1
    /\ UNCHANGED <<vars, saver>>

SaverExits ==
    /\ saver = "read" /\ i = Reads
    /\ saver' = "zombie" /\ SIGCHLD
    /\ UNCHANGED <<server, backlog, holds, wires, client, i, fds, saved>>

\* The loop of the parent is that of chapter 10; it does not look whether fork
\* failed, and closes its copy either way.
Serve == (Accept \/ Fork \/ CloseInParent \/ Deliver) /\ UNCHANGED saving

ReapSaver ==
    /\ handling /\ handling' = FALSE
    /\ saver = "zombie" /\ saver' = "gone"
    /\ UNCHANGED <<server, sigchld, lost, backlog, holds, wires, client, i, fds, saved>>

\* waitpid(-1) takes any zombie there is.
ReapAny == \/ read_childproc /\ (saver = "zombie" => child' # child) /\ UNCHANGED saving
           \/ ReapSaver

EchoAndTell(c) ==
    /\ child[c] = "write"
    /\ down' = [down EXCEPT ![c] = @ + str_len[c]]
    /\ child' = [child EXCEPT ![c] = "tell"]
    /\ UNCHANGED <<main, clnt_sock, str_len, signal, backlog, holds, up, eof, client, saving>>

WithoutTelling(n) == fds + n <= PipeRoom /\ UNCHANGED fds   \* mutation of the next one
\* A write of at most PIPE_BUF bytes waits until there is room for all of it.
ToPipe(n) == fds + n <= PipeRoom /\ fds' = fds + n

WriteToPipe(c) ==
    /\ child[c] = "tell" /\ ToPipe(str_len[c])
    /\ child' = [child EXCEPT ![c] = "read"]
    /\ UNCHANGED <<main, clnt_sock, str_len, signal, backlog, holds, wires, client, saver, i, saved>>

ServeAndTell(c) == \/ EchoAndTell(c) \/ WriteToPipe(c)
                   \/ (Read(c) \/ CloseInChild(c) \/ ChildExits(c)) /\ UNCHANGED saving

\* The client program is that of chapter 10 again.
echo_mpclient(c) == (Connect(c) \/ write_routine(c) \/ read_routine(c)) /\ UNCHANGED saving

-----------------------------------------------------------------------------
saverProcess == SaverReads \/ SaverExits
savingParent == Serve \/ ReapAny

SavingNext == saverProcess \/ savingParent
                \/ \E c \in Client : echo_mpclient(c) \/ ServeAndTell(c)

SavingSpec == SavingInit /\ [][SavingNext]_all

-----------------------------------------------------------------------------
(* Properties.                                                             *)

\* While the saving process reads, no line is lost on the way to the file: those
\* saved, those in the pipe and those a child is about to write to it are those
\* that were echoed.
Total(f) == FoldFunction(+, 0, f)

AllSaved ==
    /\ SavingTypeOK
    /\ saved + fds + Total([c \in Client |-> IF child[c] = "tell" THEN str_len[c] ELSE 0])
          = Total([c \in Client |-> down[c] + got[c]])

\* A client that quits is let go, as long as the pipe takes what its child has
\* to say: the saving process leaves after ten reads, and nothing empties the
\* pipe from then on.
PipeStuck == saver # "read" /\ \E c \in Client : child[c] = "tell" /\ fds + str_len[c] > PipeRoom

QuitsUnlessStuck == <>[](LetGo \/ PipeStuck)
=============================================================================
