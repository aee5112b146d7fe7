---------------------------- MODULE ProcessProofs ----------------------------
(***************************************************************************)
(* Proofs about ForkServer and SavingServer, the echo servers of TCP ch10  *)
(* and ch11 that fork for each client, for any number of clients and lines,*)
(* any size of the pipe and any number of reads.                           *)
(***************************************************************************)
EXTENDS MCPrograms, FiniteSetTheorems, SequenceTheorems, TLAPS

-----------------------------------------------------------------------------
(* The echo servers with processes of TCP ch10 and ch11.                   *)

LEMMA ProgramNumbers ==
    /\ IsFiniteSet(Client) /\ None \notin Client
    /\ MaxLines \in Nat /\ Reads \in Nat /\ PipeRoom \in Nat
BY ProgramsAssumption DEF ProgramsAssumption

EchoTypes ==
    /\ main \in {"accept", "fork", "close"} /\ clnt_sock \in Client \cup {None}
    /\ child \in [Client -> {"none", "read", "write", "tell", "close", "zombie", "gone"}]
    /\ str_len \in [Client -> 0 .. MaxLines]
    /\ sigchld \in BOOLEAN /\ handling \in BOOLEAN /\ lost \in Nat
    /\ f_backlog \in Seq(Client)
    /\ holds \in [Client -> SUBSET {"parent", "child"}]
    /\ up \in [Client -> 0 .. MaxLines] /\ down \in [Client -> 0 .. MaxLines]
    /\ f_eof \in [Client -> BOOLEAN]
    /\ writer \in [Client -> {"none", "write", "done"}]
    /\ reader \in [Client -> {"none", "read", "done"}]
    /\ sent \in [Client -> 0 .. MaxLines] /\ got \in [Client -> 0 .. MaxLines]

\* Where the lines of a client are, and what each end of a connection tells about the
\* other.  A connection that waits or has just been accepted is held by the parent alone.
LinesOf(c) ==
    sent[c] = up[c] + (IF child[c] = "write" THEN str_len[c] ELSE 0) + down[c] + got[c]

EndsOf(c) ==
    /\ reader[c] = "none" => writer[c] = "none"
    /\ f_eof[c] => writer[c] = "done"
    /\ "child" \in holds[c] <=> child[c] \in {"read", "write", "tell"}
    /\ child[c] \in {"close", "zombie", "gone"} => f_eof[c] /\ up[c] = 0
    /\ reader[c] = "done" => holds[c] = {} /\ down[c] = 0

Fresh(c) == child[c] = "none" /\ "parent" \in holds[c]

BacklogInv ==
    /\ \A k \in 1 .. Len(f_backlog) : /\ Fresh(f_backlog[k]) /\ reader[f_backlog[k]] # "none"
                                      /\ f_backlog[k] # clnt_sock
    /\ \A k, l \in 1 .. Len(f_backlog) : f_backlog[k] = f_backlog[l] => k = l
    /\ \A c \in Client : reader[c] = "none" => child[c] = "none" /\ c # clnt_sock
    /\ main # "accept" => clnt_sock \in Client
    /\ main = "fork" => Fresh(clnt_sock)

EchoInv == EchoTypes /\ BacklogInv /\ \A c \in Client : LinesOf(c) /\ EndsOf(c)

Parents == <<main, clnt_sock, child, holds, f_backlog, reader>>

LEMMA EchoStart == Fork!Init => EchoInv
<1> SUFFICES ASSUME Fork!Init PROVE EchoInv
    OBVIOUS
<1>1. EchoTypes
  <2>1. 0 \in 0 .. MaxLines /\ f_backlog \in Seq(Client)
        BY ProgramNumbers DEF Fork!Init
  <2>2. /\ child \in [Client -> {"none", "read", "write", "tell", "close", "zombie", "gone"}]
        /\ holds \in [Client -> SUBSET {"parent", "child"}] /\ f_eof \in [Client -> BOOLEAN]
        BY DEF Fork!Init
  <2> QED BY <2>1, <2>2 DEF Fork!Init, EchoTypes
<1>2. Len(f_backlog) = 0
      BY DEF Fork!Init
<1>3. BacklogInv
      BY <1>2, ProgramNumbers DEF Fork!Init, BacklogInv
<1>4. \A c \in Client : LinesOf(c) /\ EndsOf(c)
      BY DEF Fork!Init, LinesOf, EndsOf
<1> QED BY <1>1, <1>3, <1>4 DEF EchoInv

LEMMA SameBacklog == ASSUME BacklogInv, UNCHANGED Parents PROVE BacklogInv'
BY DEF Parents, BacklogInv, Fresh

LEMMA Waiting == ASSUME EchoInv
                 PROVE  \A k \in 1 .. Len(f_backlog) : f_backlog[k] \in Client /\ Fresh(f_backlog[k])
<1>1. \A k \in 1 .. Len(f_backlog) : f_backlog[k] \in Client
      BY DEF EchoInv, EchoTypes
<1> QED BY <1>1 DEF EchoInv, BacklogInv

\* A child goes on: it is not of a connection that waits.
LEMMA ChildGoesOn ==
    ASSUME EchoInv, UNCHANGED <<main, clnt_sock, f_backlog, reader>>,
           NEW c \in Client, child[c] \in {"read", "write", "tell", "close", "zombie"},
           NEW to \in {"read", "write", "tell", "close", "zombie", "gone"},
           child' = [child EXCEPT ![c] = to],
           \A d \in Client : "parent" \in holds'[d] <=> "parent" \in holds[d]
    PROVE  BacklogInv' /\ child' \in [Client -> {"none", "read", "write", "tell", "close", "zombie", "gone"}]
<1>1. \A d \in Client : child'[d] = "none" <=> child[d] = "none"
      BY DEF EchoInv, EchoTypes
<1>2. \A k \in 1 .. Len(f_backlog) : Fresh(f_backlog[k])'
      BY <1>1, Waiting DEF Fresh
<1>3. main = "fork" => Fresh(clnt_sock)'
      BY <1>1 DEF EchoInv, BacklogInv, Fresh
<1>4. child' \in [Client -> {"none", "read", "write", "tell", "close", "zombie", "gone"}]
      BY DEF EchoInv, EchoTypes
<1> QED BY <1>1, <1>2, <1>3, <1>4 DEF EchoInv, BacklogInv

\* A client connects.
LEMMA EchoConnects ==
    ASSUME EchoInv, NEW c \in Client, Fork!Connect(c) \/ Saving!Connect(c) PROVE EchoInv'
<1>1. /\ reader[c] = "none" /\ f_backlog' = Append(f_backlog, c)
      /\ holds' = [holds EXCEPT ![c] = {"parent"}]
      /\ writer' = [writer EXCEPT ![c] = "write"] /\ reader' = [reader EXCEPT ![c] = "read"]
      /\ UNCHANGED <<main, clnt_sock, child, str_len, sigchld, handling, lost, up, f_eof, down,
                     sent, got>>
      BY DEF Fork!Connect, Fork!server, Fork!signal, Fork!wires,
             Saving!Connect, Saving!server, Saving!signal, Saving!wires
<1>2. EchoTypes'
  <2>1. f_backlog' \in Seq(Client)
        BY <1>1 DEF EchoInv, EchoTypes
  <2> QED BY <1>1, <2>1 DEF EchoInv, EchoTypes
<1>3. /\ f_backlog \in Seq(Client) /\ Len(f_backlog) \in Nat /\ Len(f_backlog') = Len(f_backlog) + 1
      /\ f_backlog'[Len(f_backlog) + 1] = c
      /\ \A k \in 1 .. Len(f_backlog) : f_backlog'[k] = f_backlog[k] /\ f_backlog[k] \in Client
      BY <1>1 DEF EchoInv, EchoTypes
<1>4. BacklogInv'
  <2>1. \A k \in 1 .. Len(f_backlog) : f_backlog[k] # c
        BY <1>1 DEF EchoInv, BacklogInv
  <2>2. child[c] = "none" /\ c # clnt_sock
        BY <1>1 DEF EchoInv, BacklogInv
  <2>3. ASSUME NEW k \in 1 .. Len(f_backlog')
        PROVE  Fresh(f_backlog[k])' /\ reader'[f_backlog'[k]] # "none" /\ f_backlog'[k] # clnt_sock'
    <3>1. CASE k = Len(f_backlog) + 1
      <4>1. f_backlog'[k] = c /\ "parent" \in holds'[c] /\ reader'[c] = "read"
            BY <1>1, <1>3, <3>1 DEF EchoInv, EchoTypes
      <4> QED BY <1>1, <2>2, <4>1 DEF Fresh
    <3>2. CASE k \in 1 .. Len(f_backlog)
      <4>1. /\ f_backlog'[k] = f_backlog[k] /\ f_backlog[k] \in Client \ {c} /\ Fresh(f_backlog[k])
            /\ reader[f_backlog[k]] # "none" /\ f_backlog[k] # clnt_sock
            BY <1>3, <2>1, <3>2 DEF EchoInv, BacklogInv
      <4>2. \A d \in Client \ {c} : holds'[d] = holds[d] /\ reader'[d] = reader[d]
            BY <1>1 DEF EchoInv, EchoTypes
      <4> QED BY <1>1, <4>1, <4>2 DEF Fresh
    <3> QED BY <1>3, <3>1, <3>2
  <2>4. \A k, l \in 1 .. Len(f_backlog') : f_backlog'[k] = f_backlog'[l] => k = l
        BY <1>3, <2>1 DEF EchoInv, BacklogInv
  <2>5. main' = "fork" => Fresh(clnt_sock)'
        BY <1>1, <2>2 DEF EchoInv, EchoTypes, BacklogInv, Fresh
  <2> QED BY <1>1, <2>3, <2>4, <2>5 DEF EchoInv, EchoTypes, BacklogInv
<1>5. ASSUME NEW d \in Client PROVE LinesOf(d)' /\ EndsOf(d)'
  <2>1. LinesOf(d) /\ EndsOf(d) /\ (d = c => child[d] = "none" /\ ~ f_eof[d])
        BY <1>1 DEF EchoInv, BacklogInv, EndsOf
  <2> QED BY <1>1, <2>1 DEF EchoInv, EchoTypes, LinesOf, EndsOf
<1> QED BY <1>2, <1>4, <1>5 DEF EchoInv

\* What the client's two processes do.
LEMMA EchoClients ==
    ASSUME EchoInv, NEW c \in Client,
           \/ Fork!write_routine(c) \/ Saving!write_routine(c)
           \/ Fork!ReadLines(c) \/ Saving!ReadLines(c)
    PROVE  EchoInv'
<1>1. UNCHANGED <<main, clnt_sock, child, str_len, sigchld, handling, lost, f_backlog, holds,
                  reader>>
      BY DEF Fork!write_routine, Fork!Type, Fork!Quit, Fork!ReadLines, Fork!server, Fork!signal,
             Saving!write_routine, Saving!Type, Saving!Quit, Saving!ReadLines, Saving!server,
             Saving!signal
<1>2. BacklogInv'
      BY <1>1, SameBacklog DEF EchoInv, Parents
<1>3. CASE Fork!Type(c) \/ Saving!Type(c)
  <2>1. /\ writer[c] = "write" /\ sent[c] < MaxLines /\ UNCHANGED <<f_eof, down, writer, got>>
        /\ sent' = [sent EXCEPT ![c] = @ + 1] /\ up' = [up EXCEPT ![c] = @ + 1]
        BY <1>3 DEF Fork!Type, Saving!Type
  <2>2. LinesOf(c) /\ EndsOf(c) /\ ~ f_eof[c] /\ up[c] + 1 \in 0 .. MaxLines
        BY <2>1, ProgramNumbers DEF EchoInv, EchoTypes, LinesOf, EndsOf
  <2>3. EchoTypes'
        BY <1>1, <2>1, <2>2, ProgramNumbers DEF EchoInv, EchoTypes
  <2>4. ASSUME NEW d \in Client PROVE LinesOf(d)' /\ EndsOf(d)'
    <3>1. CASE d = c
      <4>1. /\ sent'[c] = sent[c] + 1 /\ up'[c] = up[c] + 1
            /\ {down[c], got[c], up[c], str_len[c]} \subseteq Nat
            BY <2>1 DEF EchoInv, EchoTypes
      <4>2. LinesOf(c)'
            BY <1>1, <2>1, <2>2, <4>1 DEF LinesOf
      <4> QED BY <1>1, <2>1, <2>2, <3>1, <4>2 DEF EndsOf
    <3>2. CASE d # c
      <4>1. up'[d] = up[d] /\ sent'[d] = sent[d] /\ LinesOf(d) /\ EndsOf(d)
            BY <2>1, <3>2 DEF EchoInv, EchoTypes
      <4> QED BY <1>1, <2>1, <4>1 DEF LinesOf, EndsOf
    <3> QED BY <3>1, <3>2
  <2> QED BY <1>2, <2>3, <2>4 DEF EchoInv
<1>4. CASE Fork!Quit(c) \/ Saving!Quit(c)
  <2>1. /\ writer[c] = "write" /\ UNCHANGED <<up, down, sent, got>>
        /\ writer' = [writer EXCEPT ![c] = "done"] /\ f_eof' = [f_eof EXCEPT ![c] = TRUE]
        BY <1>4 DEF Fork!Quit, Saving!Quit
  <2>2. EchoTypes'
        BY <1>1, <2>1 DEF EchoInv, EchoTypes
  <2>3. ASSUME NEW d \in Client PROVE LinesOf(d)' /\ EndsOf(d)'
    <3>1. LinesOf(d) /\ EndsOf(d)
          BY DEF EchoInv
    <3>2. f_eof'[d] => writer'[d] = "done"
          BY <2>1, <3>1 DEF EchoInv, EchoTypes, EndsOf
    <3>3. /\ reader[d] = "none" => writer'[d] = writer[d]
          /\ f_eof[d] => f_eof'[d]
          BY <2>1, <3>1 DEF EchoInv, EchoTypes, EndsOf
    <3> QED BY <1>1, <2>1, <3>1, <3>2, <3>3 DEF LinesOf, EndsOf
  <2> QED BY <1>2, <2>2, <2>3 DEF EchoInv
<1>5. CASE Fork!ReadLines(c) \/ Saving!ReadLines(c)
  <2>1. PICK n \in 1 .. down[c] : /\ down' = [down EXCEPT ![c] = @ - n]
                                  /\ got' = [got EXCEPT ![c] = @ + n]
        BY <1>5 DEF Fork!ReadLines, Fork!Part, Saving!ReadLines, Saving!Part
  <2>2. reader[c] = "read" /\ UNCHANGED <<up, f_eof, writer, sent>>
        BY <1>5 DEF Fork!ReadLines, Saving!ReadLines
  <2>3. LinesOf(c) /\ EndsOf(c) /\ down[c] - n \in 0 .. MaxLines /\ got[c] + n \in 0 .. MaxLines
    <3>1. /\ down[c] \in 0 .. MaxLines /\ got[c] \in Nat /\ up[c] \in Nat /\ str_len[c] \in Nat
          /\ sent[c] \in 0 .. MaxLines /\ n \in 1 .. down[c] /\ LinesOf(c) /\ EndsOf(c)
          BY <2>1 DEF EchoInv, EchoTypes
    <3> QED BY <3>1, ProgramNumbers DEF LinesOf
  <2>4. EchoTypes'
        BY <1>1, <2>1, <2>2, <2>3 DEF EchoInv, EchoTypes
  <2>5. ASSUME NEW d \in Client PROVE LinesOf(d)' /\ EndsOf(d)'
    <3>1. CASE d = c
      <4>1. /\ down'[c] = down[c] - n /\ got'[c] = got[c] + n
            /\ {down[c], got[c], up[c], str_len[c]} \subseteq Nat /\ n \in Nat
            BY <2>1 DEF EchoInv, EchoTypes
      <4>2. LinesOf(c)'
            BY <1>1, <2>2, <2>3, <4>1 DEF LinesOf
      <4> QED BY <1>1, <2>2, <2>3, <3>1, <4>2 DEF EndsOf
    <3>2. CASE d # c
      <4>1. down'[d] = down[d] /\ got'[d] = got[d] /\ LinesOf(d) /\ EndsOf(d)
            BY <2>1, <3>2 DEF EchoInv, EchoTypes
      <4> QED BY <1>1, <2>2, <4>1 DEF LinesOf, EndsOf
    <3> QED BY <3>1, <3>2
  <2> QED BY <1>2, <2>4, <2>5 DEF EchoInv
<1> QED BY <1>3, <1>4, <1>5 DEF Fork!write_routine, Saving!write_routine

\* The reading half ends: nobody of the server is left to write to it.
LEMMA EchoReadEnds ==
    ASSUME EchoInv, NEW c \in Client, Fork!ReadEnds(c) \/ Saving!ReadEnds(c) PROVE EchoInv'
<1>1. /\ reader[c] = "read" /\ down[c] = 0 /\ holds[c] = {}
      /\ reader' = [reader EXCEPT ![c] = "done"]
      /\ UNCHANGED <<main, clnt_sock, child, str_len, sigchld, handling, lost, f_backlog, holds,
                     up, f_eof, down, writer, sent, got>>
      BY DEF Fork!ReadEnds, Fork!server, Fork!signal, Fork!wires,
             Saving!ReadEnds, Saving!server, Saving!signal, Saving!wires
<1>2. EchoTypes'
      BY <1>1 DEF EchoInv, EchoTypes
<1>3. BacklogInv'
  <2>1. \A k \in 1 .. Len(f_backlog) : f_backlog[k] \in Client
        BY DEF EchoInv, EchoTypes
  <2>2. \A d \in Client : /\ reader[d] # "none" => reader'[d] # "none"
                         /\ reader'[d] = "none" => reader[d] = "none"
        BY <1>1 DEF EchoInv, EchoTypes
  <2> QED BY <1>1, <2>1, <2>2 DEF EchoInv, BacklogInv, Fresh
<1>4. ASSUME NEW d \in Client PROVE LinesOf(d)' /\ EndsOf(d)'
      BY <1>1 DEF EchoInv, EchoTypes, LinesOf, EndsOf
<1> QED BY <1>2, <1>3, <1>4 DEF EchoInv

\* The parent.
LEMMA EchoAccepts == ASSUME EchoInv, Fork!Accept \/ Saving!Accept PROVE EchoInv'
<1>1. /\ main = "accept" /\ main' = "fork" /\ f_backlog # <<>>
      /\ clnt_sock' = Head(f_backlog) /\ f_backlog' = Tail(f_backlog)
      /\ UNCHANGED <<child, str_len, sigchld, handling, lost, holds, up, f_eof, down, writer,
                     reader, sent, got>>
      BY DEF Fork!Accept, Fork!Parent, Fork!signal, Fork!wires, Fork!client,
             Saving!Accept, Saving!Parent, Saving!signal, Saving!wires, Saving!client
<1>2. /\ f_backlog \in Seq(Client) /\ Len(f_backlog) \in Nat \ {0}
      /\ clnt_sock' = f_backlog[1] /\ clnt_sock' \in Client
      /\ f_backlog' \in Seq(Client) /\ Len(f_backlog') = Len(f_backlog) - 1
      /\ \A k \in 1 .. Len(f_backlog') : f_backlog'[k] = f_backlog[k + 1]
      BY <1>1 DEF EchoInv, EchoTypes
<1>3. EchoTypes'
      BY <1>1, <1>2 DEF EchoInv, EchoTypes
<1>4. BacklogInv'
      BY <1>1, <1>2 DEF EchoInv, BacklogInv, Fresh
<1>5. ASSUME NEW d \in Client PROVE LinesOf(d)' /\ EndsOf(d)'
      BY <1>1 DEF EchoInv, EchoTypes, LinesOf, EndsOf
<1> QED BY <1>3, <1>4, <1>5 DEF EchoInv

LEMMA EchoForks == ASSUME EchoInv, Fork!Fork \/ Saving!Fork PROVE EchoInv'
<1> DEFINE c == clnt_sock
<1>1. /\ main = "fork" /\ main' = "close"
      /\ child' = [child EXCEPT ![c] = "read"]
      /\ holds' = [holds EXCEPT ![c] = @ \cup {"child"}]
      /\ UNCHANGED <<clnt_sock, str_len, sigchld, handling, lost, f_backlog, up, f_eof, down, writer,
                     reader, sent, got>>
      BY DEF Fork!Fork, Fork!Parent, Fork!signal, Fork!wires, Fork!client,
             Saving!Fork, Saving!Parent, Saving!signal, Saving!wires, Saving!client
<1>2. c \in Client /\ Fresh(c) /\ reader[c] # "none"
      BY <1>1 DEF EchoInv, BacklogInv
<1>3. EchoTypes'
      BY <1>1, <1>2 DEF EchoInv, EchoTypes
<1>4. BacklogInv'
  <2>1. \A k \in 1 .. Len(f_backlog) : f_backlog[k] \in Client
        BY DEF EchoInv, EchoTypes
  <2> QED BY <1>1, <1>2, <2>1 DEF EchoInv, EchoTypes, BacklogInv, Fresh
<1>5. ASSUME NEW d \in Client PROVE LinesOf(d)' /\ EndsOf(d)'
      BY <1>1, <1>2 DEF EchoInv, EchoTypes, LinesOf, EndsOf, Fresh
<1> QED BY <1>3, <1>4, <1>5 DEF EchoInv

LEMMA EchoCloses == ASSUME EchoInv, Fork!CloseInParent \/ Saving!CloseInParent PROVE EchoInv'
<1> DEFINE c == clnt_sock
<1>1. /\ main # "accept" /\ main' = "accept" /\ clnt_sock' = None
      /\ holds' = [holds EXCEPT ![c] = @ \ {"parent"}]
      /\ UNCHANGED <<child, str_len, sigchld, handling, lost, f_backlog, up, f_eof, down, writer,
                     reader, sent, got>>
      BY DEF Fork!CloseInParent, Fork!Closes, Fork!signal, Fork!wires, Fork!client,
             Saving!CloseInParent, Saving!Closes, Saving!signal, Saving!wires, Saving!client
<1>2. c \in Client /\ reader[c] # "none"
      BY <1>1 DEF EchoInv, BacklogInv
<1>3. EchoTypes'
      BY <1>1, <1>2 DEF EchoInv, EchoTypes
<1>4. BacklogInv'
  <2>1. \A k \in 1 .. Len(f_backlog) : f_backlog[k] \in Client \ {c} /\ Fresh(f_backlog[k])
        BY Waiting DEF EchoInv, BacklogInv
  <2>2. \A d \in Client \ {c} : holds'[d] = holds[d]
        BY <1>1 DEF EchoInv, EchoTypes
  <2>3. \A k \in 1 .. Len(f_backlog) : Fresh(f_backlog[k])' /\ f_backlog[k] # None
        BY <1>1, <2>1, <2>2, ProgramNumbers DEF Fresh
  <2> QED BY <1>1, <2>3, ProgramNumbers DEF EchoInv, BacklogInv
<1>5. ASSUME NEW d \in Client PROVE LinesOf(d)' /\ EndsOf(d)'
      BY <1>1, <1>2 DEF EchoInv, EchoTypes, LinesOf, EndsOf
<1> QED BY <1>3, <1>4, <1>5 DEF EchoInv

\* Signals, and zombies that are waited for.
LEMMA EchoSignals ==
    ASSUME EchoInv,
           /\ UNCHANGED <<main, clnt_sock, str_len, f_backlog, holds, up, f_eof, down, writer,
                          reader, sent, got>>
           /\ sigchld' \in BOOLEAN /\ handling' \in BOOLEAN /\ lost' \in Nat
           /\ \/ child' = child
              \/ \E c \in Client : /\ child[c] = "zombie"
                                   /\ child' = [child EXCEPT ![c] = "gone"]
              \/ \E c \in Client : /\ child[c] = "close"
                                   /\ child' = [child EXCEPT ![c] = "zombie"]
    PROVE  EchoInv'
<1>1. CASE child' = child
  <2>1. EchoTypes'
        BY <1>1 DEF EchoInv, EchoTypes
  <2>2. BacklogInv'
        BY <1>1, SameBacklog DEF EchoInv, Parents
  <2>3. ASSUME NEW d \in Client PROVE LinesOf(d)' /\ EndsOf(d)'
        BY <1>1 DEF EchoInv, LinesOf, EndsOf
  <2> QED BY <2>1, <2>2, <2>3 DEF EchoInv
<1>2. ASSUME NEW c \in Client, child[c] \in {"zombie", "close"}, NEW to \in {"gone", "zombie"},
             child' = [child EXCEPT ![c] = to]
      PROVE  EchoInv'
  <2>1. EchoTypes'
        BY <1>2 DEF EchoInv, EchoTypes
  <2>2. BacklogInv'
        BY <1>2, ChildGoesOn
  <2>3. ASSUME NEW d \in Client PROVE LinesOf(d)' /\ EndsOf(d)'
        BY <1>2 DEF EchoInv, EchoTypes, LinesOf, EndsOf
  <2> QED BY <2>1, <2>2, <2>3 DEF EchoInv
<1> QED BY <1>1, <1>2

\* A child reads, writes to its client and, in ch11, to the pipe.
LEMMA EchoReads == ASSUME EchoInv, NEW c \in Client, Fork!Read(c) \/ Saving!Read(c) PROVE EchoInv'
<1>1. PICK n \in 1 .. up[c] : /\ up' = [up EXCEPT ![c] = @ - n]
                              /\ str_len' = [str_len EXCEPT ![c] = n]
      BY DEF Fork!Read, Fork!Part, Saving!Read, Saving!Part
<1>2. /\ child[c] = "read" /\ child' = [child EXCEPT ![c] = "write"]
      /\ UNCHANGED <<main, clnt_sock, sigchld, handling, lost, f_backlog, holds, f_eof, down,
                     writer, reader, sent, got>>
      BY DEF Fork!Read, Fork!signal, Fork!client, Saving!Read, Saving!signal, Saving!client
<1>3. LinesOf(c) /\ EndsOf(c) /\ n \in 0 .. MaxLines /\ up[c] - n \in 0 .. MaxLines
      BY <1>1, ProgramNumbers DEF EchoInv, EchoTypes
<1>4. EchoTypes'
      BY <1>1, <1>2, <1>3 DEF EchoInv, EchoTypes
<1>5. BacklogInv'
      BY <1>2, ChildGoesOn
<1>6. ASSUME NEW d \in Client PROVE LinesOf(d)' /\ EndsOf(d)'
  <2>1. CASE d = c
    <3>1. /\ up'[c] = up[c] - n /\ str_len'[c] = n /\ child'[c] = "write"
          /\ {down[c], got[c], up[c]} \subseteq Nat /\ n \in Nat
          BY <1>1, <1>2 DEF EchoInv, EchoTypes
    <3>2. LinesOf(c)'
          BY <1>2, <1>3, <3>1 DEF LinesOf
    <3> QED BY <1>2, <1>3, <2>1, <3>1, <3>2 DEF EndsOf
  <2>2. CASE d # c
    <3>1. /\ up'[d] = up[d] /\ str_len'[d] = str_len[d] /\ child'[d] = child[d]
          /\ LinesOf(d) /\ EndsOf(d)
          BY <1>1, <1>2, <2>2 DEF EchoInv, EchoTypes
    <3> QED BY <1>2, <3>1 DEF LinesOf, EndsOf
  <2> QED BY <2>1, <2>2
<1> QED BY <1>4, <1>5, <1>6 DEF EchoInv

LEMMA EchoWrites ==
    ASSUME EchoInv, NEW c \in Client, child[c] = "write", NEW to \in {"read", "tell"},
           /\ down' = [down EXCEPT ![c] = @ + str_len[c]]
           /\ child' = [child EXCEPT ![c] = to]
           /\ UNCHANGED <<main, clnt_sock, str_len, sigchld, handling, lost, f_backlog, holds, up,
                          f_eof, writer, reader, sent, got>>
    PROVE  EchoInv'
<1>1. LinesOf(c) /\ EndsOf(c) /\ down[c] + str_len[c] \in 0 .. MaxLines
  <2>1. /\ down[c] \in 0 .. MaxLines /\ got[c] \in Nat /\ up[c] \in Nat /\ str_len[c] \in Nat
        /\ sent[c] \in 0 .. MaxLines /\ LinesOf(c) /\ EndsOf(c)
        BY DEF EchoInv, EchoTypes
  <2> QED BY <2>1, ProgramNumbers DEF LinesOf
<1>2. EchoTypes'
      BY <1>1 DEF EchoInv, EchoTypes
<1>3. BacklogInv'
      BY ChildGoesOn
<1>4. ASSUME NEW d \in Client PROVE LinesOf(d)' /\ EndsOf(d)'
  <2>1. CASE d = c
    <3>1. /\ down'[c] = down[c] + str_len[c] /\ child'[c] = to
          /\ {down[c], got[c], up[c], str_len[c]} \subseteq Nat
          BY DEF EchoInv, EchoTypes
    <3>2. LinesOf(c)'
          BY <1>1, <3>1 DEF LinesOf
    <3> QED BY <1>1, <2>1, <3>1, <3>2 DEF EndsOf
  <2>2. CASE d # c
    <3>1. down'[d] = down[d] /\ child'[d] = child[d] /\ LinesOf(d) /\ EndsOf(d)
          BY <2>2 DEF EchoInv, EchoTypes
    <3> QED BY <3>1 DEF LinesOf, EndsOf
  <2> QED BY <2>1, <2>2
<1> QED BY <1>2, <1>3, <1>4 DEF EchoInv

LEMMA EchoTells == ASSUME EchoInv, NEW c \in Client, Saving!WriteToPipe(c) PROVE EchoInv'
<1>1. /\ child[c] = "tell" /\ child' = [child EXCEPT ![c] = "read"]
      /\ UNCHANGED <<main, clnt_sock, str_len, sigchld, handling, lost, f_backlog, holds, up,
                     f_eof, down, writer, reader, sent, got>>
      BY DEF Saving!WriteToPipe, Saving!signal, Saving!wires, Saving!client
<1>2. EchoTypes'
      BY <1>1 DEF EchoInv, EchoTypes
<1>3. BacklogInv'
      BY <1>1, ChildGoesOn
<1>4. ASSUME NEW d \in Client PROVE LinesOf(d)' /\ EndsOf(d)'
      BY <1>1 DEF EchoInv, EchoTypes, LinesOf, EndsOf
<1> QED BY <1>2, <1>3, <1>4 DEF EchoInv

LEMMA EchoChildCloses ==
    ASSUME EchoInv, NEW c \in Client, Fork!CloseInChild(c) \/ Saving!CloseInChild(c) PROVE EchoInv'
<1>1. /\ child[c] = "read" /\ f_eof[c] /\ up[c] = 0
      /\ holds' = [holds EXCEPT ![c] = @ \ {"child"}]
      /\ child' = [child EXCEPT ![c] = "close"]
      /\ UNCHANGED <<main, clnt_sock, str_len, sigchld, handling, lost, f_backlog, up, f_eof, down,
                     writer, reader, sent, got>>
      BY DEF Fork!CloseInChild, Fork!AtEnd, Fork!signal, Fork!wires, Fork!client,
             Saving!CloseInChild, Saving!AtEnd, Saving!signal, Saving!wires, Saving!client
<1>2. EchoTypes'
      BY <1>1 DEF EchoInv, EchoTypes
<1>3. BacklogInv'
  <2>1. \A d \in Client : "parent" \in holds'[d] <=> "parent" \in holds[d]
        BY <1>1 DEF EchoInv, EchoTypes
  <2> QED BY <1>1, <2>1, ChildGoesOn
<1>4. ASSUME NEW d \in Client PROVE LinesOf(d)' /\ EndsOf(d)'
      BY <1>1 DEF EchoInv, EchoTypes, LinesOf, EndsOf
<1> QED BY <1>2, <1>3, <1>4 DEF EchoInv

\* Steps of either server.
EchoStep ==
    \/ Fork!Next
    \/ Saving!SavingNext

LEMMA EchoSteps == ASSUME EchoInv, EchoStep PROVE EchoInv'
<1>1. ASSUME NEW c \in Client, \/ Fork!Connect(c) \/ Fork!write_routine(c) \/ Fork!read_routine(c)
                               \/ Saving!echo_mpclient(c)
      PROVE  EchoInv'
      BY <1>1, EchoConnects, EchoClients, EchoReadEnds
         DEF Fork!read_routine, Saving!read_routine, Saving!echo_mpclient
<1>2. CASE \/ Fork!Accept \/ Fork!Fork \/ Fork!CloseInParent
           \/ Saving!Accept \/ Saving!Fork \/ Saving!CloseInParent
      BY <1>2, EchoAccepts, EchoForks, EchoCloses
<1>3. CASE Fork!Deliver \/ Saving!Deliver \/ Fork!read_childproc \/ Saving!ReapAny \/ Saving!saverProcess
  <2>1. UNCHANGED <<main, clnt_sock, str_len, f_backlog, holds, up, f_eof, down, writer,
                    reader, sent, got>>
        BY <1>3 DEF Fork!Deliver, Saving!Deliver, Fork!read_childproc, Saving!read_childproc,
                    Saving!ReapAny, Saving!ReapSaver, Saving!saverProcess, Saving!SaverReads,
                    Saving!SaverExits, Saving!vars, Fork!server, Fork!wires, Fork!client,
                    Saving!server, Saving!wires, Saving!client
  <2>2. sigchld' \in BOOLEAN /\ handling' \in BOOLEAN /\ lost' \in Nat
    <3>1. CASE Fork!Deliver \/ Saving!Deliver
          BY <3>1 DEF EchoInv, EchoTypes, Fork!Deliver, Saving!Deliver
    <3>2. CASE Fork!read_childproc \/ Saving!ReapAny
          BY <3>2 DEF EchoInv, EchoTypes, Fork!read_childproc, Saving!read_childproc,
                      Saving!ReapAny, Saving!ReapSaver
    <3>3. CASE Saving!SaverReads
          BY <3>3 DEF EchoInv, EchoTypes, Saving!SaverReads, Saving!vars, Saving!signal
    <3>4. CASE Saving!SaverExits
          BY <3>4 DEF EchoInv, EchoTypes, Saving!SaverExits, Saving!SIGCHLD
    <3> QED BY <1>3, <3>1, <3>2, <3>3, <3>4 DEF Saving!saverProcess
  <2>3. \/ child' = child
        \/ \E c \in Client : child[c] = "zombie" /\ child' = [child EXCEPT ![c] = "gone"]
        BY <1>3 DEF Fork!Deliver, Saving!Deliver, Fork!read_childproc, Fork!Reaps, Saving!Reaps,
                    Saving!read_childproc, Saving!ReapAny, Saving!ReapSaver, Saving!saverProcess,
                    Saving!SaverReads, Saving!SaverExits, Saving!vars, Fork!server, Saving!server
  <2> QED BY <2>1, <2>2, <2>3, EchoSignals
<1>4. ASSUME NEW c \in Client, Fork!serve(c) \/ Saving!ServeAndTell(c) PROVE EchoInv'
  <2>1. CASE \/ Fork!Read(c) \/ Saving!Read(c) \/ Fork!CloseInChild(c) \/ Saving!CloseInChild(c)
             \/ Saving!WriteToPipe(c)
        BY <2>1, EchoReads, EchoChildCloses, EchoTells
  <2>2. CASE Fork!Write(c) \/ Saving!EchoAndTell(c)
    <3>1. /\ child[c] = "write" /\ down' = [down EXCEPT ![c] = @ + str_len[c]]
          /\ UNCHANGED <<main, clnt_sock, str_len, sigchld, handling, lost, f_backlog, holds, up,
                         f_eof, writer, reader, sent, got>>
          BY <2>2 DEF Fork!Write, Fork!signal, Fork!client, Saving!EchoAndTell, Saving!signal,
                      Saving!client
    <3>2. child' = [child EXCEPT ![c] = "read"] \/ child' = [child EXCEPT ![c] = "tell"]
          BY <2>2 DEF Fork!Write, Saving!EchoAndTell
    <3> QED BY <3>1, <3>2, EchoWrites
  <2>3. CASE Fork!ChildExits(c) \/ Saving!ChildExits(c)
    <3>1. /\ child[c] = "close" /\ child' = [child EXCEPT ![c] = "zombie"]
          /\ UNCHANGED <<main, clnt_sock, str_len, f_backlog, holds, up, f_eof, down, writer,
                         reader, sent, got, handling>>
          /\ sigchld' = TRUE /\ lost' = IF sigchld THEN lost + 1 ELSE lost
          BY <2>3 DEF Fork!ChildExits, Fork!SIGCHLD, Fork!wires, Fork!client,
                      Saving!ChildExits, Saving!SIGCHLD, Saving!wires, Saving!client
    <3>2. sigchld' \in BOOLEAN /\ handling' \in BOOLEAN /\ lost' \in Nat
          BY <3>1 DEF EchoInv, EchoTypes
    <3> QED BY <3>1, <3>2, EchoSignals
  <2> QED BY <1>4, <2>1, <2>2, <2>3 DEF Fork!serve, Saving!ServeAndTell
<1> QED BY <1>1, <1>2, <1>3, <1>4
        DEF EchoStep, Fork!Next, Fork!parent, Saving!SavingNext, Saving!savingParent, Saving!Serve

\* EchoedWhole of either server is that formula over the same variables.
LEMMA EchoWhole == ASSUME EchoInv PROVE Fork!EchoedWhole /\ Saving!EchoedWhole
<1> SUFFICES ASSUME NEW c \in Client, reader[c] = "done", child[c] # "none"
             PROVE  got[c] = sent[c] /\ writer[c] = "done"
    BY DEF Fork!EchoedWhole, Saving!EchoedWhole
<1>1. EndsOf(c) /\ LinesOf(c) /\ got[c] \in Nat
      BY DEF EchoInv, EchoTypes
<1>2. child[c] \in {"close", "zombie", "gone"}
      BY <1>1 DEF EchoInv, EchoTypes, EndsOf
<1> QED BY <1>1, <1>2 DEF EndsOf, LinesOf

-----------------------------------------------------------------------------
(* Sums.  The recursion that adds up a function has a solution without     *)
(* recursion, the number of its units, and no other one.                   *)

Some(s) == CHOOSE x \in s : TRUE
Iterates(f, g) ==
    g = [s \in SUBSET DOMAIN f |-> IF s = {} THEN 0 ELSE f[Some(s)] + g[s \ {Some(s)}]]

Units(f, s, m) == {p \in s \X (1 .. m) : p[2] <= f[p[1]]}

LEMMA UnitsAre ==
    ASSUME NEW S, IsFiniteSet(S), NEW m \in Nat, NEW f \in [S -> 0 .. m], NEW s \in SUBSET S
    PROVE  IsFiniteSet(Units(f, s, m)) /\ Cardinality(Units(f, s, m)) \in Nat
<1>1. IsFiniteSet(s) /\ IsFiniteSet(1 .. m)
      BY FS_Subset, FS_Interval
<1>2. IsFiniteSet(s \X (1 .. m))
      BY <1>1, FS_Product
<1>3. Units(f, s, m) \in SUBSET (s \X (1 .. m))
      BY DEF Units
<1>4. IsFiniteSet(Units(f, s, m))
      BY <1>2, <1>3, FS_Subset
<1> QED BY <1>4, FS_CardinalityType

LEMMA OneMore ==
    ASSUME NEW S, IsFiniteSet(S), NEW m \in Nat, NEW f \in [S -> 0 .. m], NEW s \in SUBSET S, NEW x \in s
    PROVE  Cardinality(Units(f, s, m)) = f[x] + Cardinality(Units(f, s \ {x}, m))
<1> DEFINE own == {x} \X (1 .. f[x])
           rest == Units(f, s \ {x}, m)
<1>1. f[x] \in 0 .. m
      OBVIOUS
<1>2. IsFiniteSet({x}) /\ Cardinality({x}) = 1
      BY FS_Singleton
<1>3. IsFiniteSet(1 .. f[x]) /\ Cardinality(1 .. f[x]) = f[x]
  <2>1. PICK n \in Nat : n = f[x]
        BY <1>1
  <2>2. \A a, b \in Int : /\ IsFiniteSet(a .. b)
                          /\ Cardinality(a .. b) = IF a > b THEN 0 ELSE b - a + 1
        BY FS_Interval
  <2>3. 1 \in Int /\ n \in Int
        BY <2>1
  <2>4. IsFiniteSet(1 .. n) /\ Cardinality(1 .. n) = IF 1 > n THEN 0 ELSE n - 1 + 1
        BY <2>2, <2>3, Zenon
  <2>5. (IF 1 > n THEN 0 ELSE n - 1 + 1) = n
        BY <2>1
  <2> QED BY <2>1, <2>4, <2>5
<1>4. IsFiniteSet(own) /\ Cardinality(own) = f[x]
  <2>1. IsFiniteSet(own) /\ Cardinality(own) = Cardinality({x}) * Cardinality(1 .. f[x])
        BY <1>2, <1>3, FS_Product
  <2>2. PICK n \in Nat : n = f[x]
        BY <1>1
  <2>3. Cardinality(own) = 1 * n
        BY <1>2, <1>3, <2>1, <2>2
  <2> QED BY <2>1, <2>2, <2>3
<1>5. IsFiniteSet(rest) /\ Cardinality(rest) \in Nat
      BY UnitsAre
<1>6. own \cap rest = {}
      BY DEF Units
<1>7. Units(f, s, m) = own \cup rest
      BY <1>1 DEF Units
<1>8. Cardinality(own \cup rest) = Cardinality(own) + Cardinality(rest) - Cardinality(own \cap rest)
      BY <1>4, <1>5, FS_Union
<1>9. Cardinality(own \cap rest) = 0
      BY <1>6, FS_EmptySet
<1> QED BY <1>1, <1>4, <1>5, <1>7, <1>8, <1>9

LEMMA SomeOf == ASSUME NEW s, s # {} PROVE Some(s) \in s
BY DEF Some

LEMMA UnitsIterate ==
    ASSUME NEW S, IsFiniteSet(S), NEW m \in Nat, NEW f \in [S -> 0 .. m]
    PROVE  Iterates(f, [s \in SUBSET S |-> Cardinality(Units(f, s, m))])
<1> DEFINE g == [s \in SUBSET S |-> Cardinality(Units(f, s, m))]
<1>1. ASSUME NEW s \in SUBSET S
      PROVE  g[s] = IF s = {} THEN 0 ELSE f[Some(s)] + g[s \ {Some(s)}]
  <2>1. CASE s = {}
    <3>1. Units(f, s, m) = {}
          BY <2>1 DEF Units
    <3> QED BY <2>1, <3>1, FS_EmptySet
  <2>2. CASE s # {}
    <3>1. Some(s) \in s /\ s \ {Some(s)} \in SUBSET S
          BY <2>2, SomeOf
    <3>2. Cardinality(Units(f, s, m)) = f[Some(s)] + Cardinality(Units(f, s \ {Some(s)}, m))
          BY <3>1, OneMore
    <3> QED BY <2>2, <3>1, <3>2
  <2> QED BY <2>1, <2>2
<1>2. g = [s \in SUBSET S |-> IF s = {} THEN 0 ELSE f[Some(s)] + g[s \ {Some(s)}]]
  <2> HIDE DEF g
  <2>1. DOMAIN g = SUBSET S /\ g = [s \in SUBSET S |-> g[s]]
        BY DEF g
  <2> QED BY <1>1, <2>1
<1>3. DOMAIN f = S
      OBVIOUS
<1> QED BY <1>2, <1>3 DEF Iterates

LEMMA OneSolution ==
    ASSUME NEW S, IsFiniteSet(S), NEW f, DOMAIN f = S, NEW g, NEW h, Iterates(f, g), Iterates(f, h)
    PROVE  g[S] = h[S]
<1> DEFINE differ == {s \in FiniteSubsetsOf(S) : g[s] # h[s]}
<1>1. \A s \in SUBSET S : s \in FiniteSubsetsOf(S)
      BY FS_Subset DEF FiniteSubsetsOf
<1>2. SUFFICES ASSUME differ # {} PROVE FALSE
      BY <1>1
<1>3. PICK s \in differ : \A u \in differ : <<u, s>> \notin StrictSubsetOrdering(S)
      BY <1>2, FS_StrictSubsetOrderingWellFounded, WFMin
<1>4. s \in SUBSET S /\ g[s] # h[s]
      BY DEF FiniteSubsetsOf
<1>5. /\ g[s] = IF s = {} THEN 0 ELSE f[Some(s)] + g[s \ {Some(s)}]
      /\ h[s] = IF s = {} THEN 0 ELSE f[Some(s)] + h[s \ {Some(s)}]
      BY <1>4 DEF Iterates
<1>6. s # {} /\ g[s \ {Some(s)}] # h[s \ {Some(s)}]
      BY <1>4, <1>5
<1>7. Some(s) \in s /\ s \ {Some(s)} \in SUBSET S
      BY <1>4, <1>6, SomeOf
<1>8. s \ {Some(s)} \in differ
      BY <1>1, <1>6, <1>7
<1>9. <<s \ {Some(s)}, s>> \in StrictSubsetOrdering(S)
      BY <1>1, <1>4, <1>7 DEF StrictSubsetOrdering, FiniteSubsetsOf
<1> QED BY <1>3, <1>8, <1>9

LEMMA TotalIs ==
    ASSUME NEW S, IsFiniteSet(S), NEW m \in Nat, NEW f \in [S -> 0 .. m]
    PROVE  Saving!Total(f) = Cardinality(Units(f, S, m))
<1> DEFINE g == [s \in SUBSET S |-> Cardinality(Units(f, s, m))]
           h == CHOOSE k : Iterates(f, k)
<1>1. Saving!Total(f) = h[DOMAIN f]
      BY DEF Saving!Total, Saving!FoldFunction, Saving!FoldFunctionOnSet, Saving!MapThenFoldSet,
             Iterates, Some
<1>2. Iterates(f, g) /\ DOMAIN f = S
      BY UnitsIterate
<1>3. Iterates(f, h)
      BY <1>2
<1>4. g[S] = h[S]
      BY <1>2, <1>3, OneSolution
<1> QED BY <1>1, <1>2, <1>4

\* A change at one place changes the sum by as much.
LEMMA TotalMoves ==
    ASSUME NEW S, IsFiniteSet(S), NEW m \in Nat, NEW f \in [S -> 0 .. m], NEW h \in [S -> 0 .. m],
           NEW c \in S, \A x \in S \ {c} : f[x] = h[x]
    PROVE  /\ Saving!Total(h) + f[c] = Saving!Total(f) + h[c]
           /\ Saving!Total(f) \in Nat /\ Saving!Total(h) \in Nat
<1>1. Units(f, S \ {c}, m) = Units(h, S \ {c}, m)
      BY DEF Units
<1>2. /\ Cardinality(Units(f, S, m)) = f[c] + Cardinality(Units(f, S \ {c}, m))
      /\ Cardinality(Units(h, S, m)) = h[c] + Cardinality(Units(h, S \ {c}, m))
      BY OneMore
<1>3. Cardinality(Units(f, S \ {c}, m)) \in Nat
      BY UnitsAre
<1>4. Saving!Total(f) = Cardinality(Units(f, S, m)) /\ Saving!Total(h) = Cardinality(Units(h, S, m))
      BY TotalIs
<1> QED BY <1>1, <1>2, <1>3, <1>4

-----------------------------------------------------------------------------
(* The server that forks: signals and zombies.                             *)

\* Each SIGCHLD that is pending, being handled or lost stands for at most one zombie that
\* no waitpid has taken yet, and there has been no more than one for each child that exited.
Zombies == {c \in Client : child[c] = "zombie"}
Exited  == {c \in Client : child[c] \in {"zombie", "gone"}}
One(b)  == IF b THEN 1 ELSE 0

ForkInv ==
    /\ \A c \in Client : child[c] # "tell"
    /\ Cardinality(Zombies) <= lost + One(sigchld) + One(handling)
    /\ lost + One(sigchld) <= Cardinality(Exited)

LEMMA ExitedAre ==
    /\ IsFiniteSet(Zombies) /\ Cardinality(Zombies) \in Nat
    /\ IsFiniteSet(Exited) /\ Cardinality(Exited) \in Nat
    /\ Cardinality(Exited) <= Cardinality(Client) /\ Cardinality(Client) \in Nat
<1>1. Zombies \in SUBSET Client /\ Exited \in SUBSET Client
      BY DEF Zombies, Exited
<1> QED BY <1>1, ProgramNumbers, FS_Subset, FS_CardinalityType

LEMMA ForkStart == EchoInv /\ Fork!Init => ForkInv
<1> SUFFICES ASSUME Fork!Init PROVE ForkInv
    OBVIOUS
<1>1. Zombies = {} /\ Exited = {} /\ \A c \in Client : child[c] # "tell"
      BY DEF Fork!Init, Zombies, Exited
<1> QED BY <1>1, FS_EmptySet DEF Fork!Init, ForkInv, One

LEMMA ForkSteps == ASSUME EchoInv, ForkInv, Fork!Next PROVE ForkInv'
<1>0. /\ child \in [Client -> {"none", "read", "write", "tell", "close", "zombie", "gone"}]
      /\ sigchld \in BOOLEAN /\ handling \in BOOLEAN /\ lost \in Nat
      BY DEF EchoInv, EchoTypes
<1>1. ASSUME UNCHANGED <<sigchld, handling, lost>>,
             \/ UNCHANGED child
             \/ \E c \in Client : /\ child[c] \in {"none", "read", "write"}
                                  /\ \/ child' = [child EXCEPT ![c] = "read"]
                                     \/ child' = [child EXCEPT ![c] = "write"]
                                     \/ child' = [child EXCEPT ![c] = "close"]
      PROVE  ForkInv'
  <2>1. \A c \in Client : /\ child'[c] = "zombie" <=> child[c] = "zombie"
                          /\ child'[c] = "gone" <=> child[c] = "gone"
                          /\ child'[c] # "tell"
        BY <1>0, <1>1 DEF ForkInv
  <2>2. Zombies' = Zombies /\ Exited' = Exited
        BY <2>1 DEF Zombies, Exited
  <2> QED BY <1>1, <2>1, <2>2 DEF ForkInv
<1>2. CASE Fork!Deliver
  <2>1. /\ sigchld /\ ~handling /\ ~sigchld' /\ handling' /\ UNCHANGED <<child, lost>>
        BY <1>2 DEF Fork!Deliver, Fork!server
  <2>2. Zombies' = Zombies /\ Exited' = Exited
        BY <2>1 DEF Zombies, Exited
  <2>3. One(sigchld) = 1 /\ One(handling) = 0 /\ One(sigchld)' = 0 /\ One(handling)' = 1
        BY <2>1 DEF One
  <2>4. \A c \in Client : child'[c] # "tell"
        BY <2>1 DEF ForkInv
  <2>5. Cardinality(Zombies) <= lost + One(sigchld)' + One(handling)'
    <3>1. Cardinality(Zombies) <= lost + 1 + 0
          BY <2>3 DEF ForkInv
    <3> QED BY <1>0, <2>3, <3>1, ExitedAre
  <2>6. lost + One(sigchld)' <= Cardinality(Exited)
    <3>1. lost + 1 <= Cardinality(Exited)
          BY <2>3 DEF ForkInv
    <3> QED BY <1>0, <2>3, <3>1, ExitedAre
  <2> QED BY <2>1, <2>2, <2>4, <2>5, <2>6 DEF ForkInv
<1>3. CASE Fork!read_childproc
  <2>1. handling /\ ~handling' /\ UNCHANGED <<sigchld, lost>>
        BY <1>3 DEF Fork!read_childproc
  <2>2. One(handling) = 1 /\ One(handling)' = 0 /\ One(sigchld)' = One(sigchld) /\ One(sigchld) \in Nat
        BY <2>1 DEF One
  <2>3. CASE Zombies = {}
    <3>1. child' = child
          BY <1>3, <2>3 DEF Fork!read_childproc, Fork!Reaps, Zombies
    <3>2. Zombies' = Zombies /\ Exited' = Exited
          BY <3>1 DEF Zombies, Exited
    <3>3. Cardinality(Zombies) = 0
          BY <2>3, FS_EmptySet
    <3> QED BY <1>0, <2>1, <2>2, <3>1, <3>2, <3>3, ExitedAre DEF ForkInv
  <2>4. CASE Zombies # {}
    <3>1. PICK c \in Zombies : child' = [child EXCEPT ![c] = "gone"]
          BY <1>3, <2>4 DEF Fork!read_childproc, Fork!Reaps, Zombies
    <3>2. Zombies' = Zombies \ {c} /\ Exited' = Exited
          BY <1>0, <3>1 DEF Zombies, Exited
    <3>3. Cardinality(Zombies \ {c}) = Cardinality(Zombies) - 1
          BY <3>1, ExitedAre, FS_RemoveElement
    <3>4. \A d \in Client : child'[d] # "tell"
          BY <1>0, <3>1 DEF ForkInv
    <3>5. Cardinality(Zombies \ {c}) <= lost + One(sigchld) + 0
      <4>1. Cardinality(Zombies) <= lost + One(sigchld) + 1
            BY <2>2 DEF ForkInv
      <4> QED BY <1>0, <2>2, <3>3, <4>1, ExitedAre
    <3> QED BY <2>1, <2>2, <3>2, <3>4, <3>5 DEF ForkInv
  <2> QED BY <2>3, <2>4
<1>4. ASSUME NEW c \in Client, Fork!ChildExits(c) PROVE ForkInv'
  <2>1. /\ child[c] = "close" /\ child' = [child EXCEPT ![c] = "zombie"]
        /\ sigchld' /\ lost' = (IF sigchld THEN lost + 1 ELSE lost) /\ UNCHANGED handling
        BY <1>4 DEF Fork!ChildExits, Fork!SIGCHLD
  <2>2. /\ Zombies' = Zombies \cup {c} /\ c \notin Zombies
        /\ Exited' = Exited \cup {c} /\ c \notin Exited
        BY <1>0, <2>1 DEF Zombies, Exited
  <2>3. /\ Cardinality(Zombies') = Cardinality(Zombies) + 1
        /\ Cardinality(Exited') = Cardinality(Exited) + 1
        BY <2>2, ExitedAre, FS_AddElement
  <2>4. /\ lost' + One(sigchld)' = lost + One(sigchld) + 1 /\ lost' \in Nat
        /\ One(handling)' = One(handling) /\ {One(handling), One(sigchld), One(sigchld)'} \subseteq Nat
        BY <1>0, <2>1 DEF One
  <2>5. \A d \in Client : child'[d] # "tell"
        BY <1>0, <2>1 DEF ForkInv
  <2> QED BY <1>0, <2>3, <2>4, <2>5, ExitedAre DEF ForkInv
<1>5. ASSUME NEW c \in Client,
             \/ Fork!Connect(c) \/ Fork!write_routine(c) \/ Fork!read_routine(c)
             \/ Fork!Read(c) \/ Fork!Write(c) \/ Fork!CloseInChild(c)
      PROVE  ForkInv'
  <2>1. UNCHANGED <<sigchld, handling, lost>>
        BY <1>5 DEF Fork!Connect, Fork!write_routine, Fork!Type, Fork!Quit, Fork!read_routine,
           Fork!ReadLines, Fork!ReadEnds, Fork!Read, Fork!Write, Fork!CloseInChild, Fork!signal
  <2>2. \/ UNCHANGED child
        \/ /\ child[c] \in {"none", "read", "write"}
           /\ \/ child' = [child EXCEPT ![c] = "read"]
              \/ child' = [child EXCEPT ![c] = "write"]
              \/ child' = [child EXCEPT ![c] = "close"]
        BY <1>5 DEF Fork!Connect, Fork!write_routine, Fork!Type, Fork!Quit, Fork!read_routine,
           Fork!ReadLines, Fork!ReadEnds, Fork!Read, Fork!Write, Fork!CloseInChild, Fork!server
  <2> QED BY <1>1, <2>1, <2>2
<1>6. CASE Fork!Accept \/ Fork!Fork \/ Fork!CloseInParent
  <2>1. UNCHANGED <<sigchld, handling, lost>>
        BY <1>6 DEF Fork!Accept, Fork!Fork, Fork!CloseInParent, Fork!signal
  <2>2. CASE Fork!Accept \/ Fork!CloseInParent
        BY <1>1, <2>1, <2>2 DEF Fork!Accept, Fork!CloseInParent
  <2>3. CASE Fork!Fork
    <3>1. clnt_sock \in Client /\ child[clnt_sock] = "none" /\ child' = [child EXCEPT ![clnt_sock] = "read"]
          BY <2>3 DEF Fork!Fork, Fork!Parent, EchoInv, BacklogInv, Fresh
    <3> QED BY <1>1, <2>1, <3>1
  <2> QED BY <1>6, <2>2, <2>3
<1> QED BY <1>2, <1>3, <1>4, <1>5, <1>6 DEF Fork!Next, Fork!parent, Fork!serve

LEMMA SameCount == ASSUME NEW S PROVE Fork!Cardinality(S) = Cardinality(S)
BY DEF Fork!Cardinality, Cardinality

LEMMA ForkAccounts == ASSUME EchoInv, ForkInv PROVE Fork!ZombiesAccounted
<1>1. lost \in 0 .. Cardinality(Client)
  <2>1. lost \in Nat /\ One(sigchld) \in Nat /\ lost + One(sigchld) <= Cardinality(Exited)
        BY DEF EchoInv, EchoTypes, ForkInv, One
  <2> QED BY <2>1, ExitedAre
<1>2. child \in [Client -> {"none", "read", "write", "close", "zombie", "gone"}]
      BY DEF EchoInv, EchoTypes, ForkInv
<1>3. EchoTypes
      BY DEF EchoInv
<1>4. Fork!TypeOK
      BY <1>1, <1>2, <1>3, SameCount, Zenon DEF EchoTypes, Fork!TypeOK
<1>5. Cardinality(Zombies) <= lost + (IF sigchld THEN 1 ELSE 0) + (IF handling THEN 1 ELSE 0)
      BY Zenon DEF ForkInv, One
<1> QED BY <1>4, <1>5, SameCount DEF Fork!ZombiesAccounted, Zombies

-----------------------------------------------------------------------------
(* The saving server.                                                      *)

TellFrom(ch, st) == [c \in Client |-> IF ch[c] = "tell" THEN st[c] ELSE 0]
Both(f, g)       == [c \in Client |-> f[c] + g[c]]
TellOf   == TellFrom(child, str_len)
EchoedOf == Both(down, got)

SavedInv ==
    /\ saver \in {"read", "zombie", "gone"} /\ i \in 0 .. Reads
    /\ fds \in 0 .. PipeRoom /\ saved \in Nat
    /\ saved + fds + Saving!Total(TellOf) = Saving!Total(EchoedOf)

LEMMA Bounded ==
    ASSUME NEW st \in [Client -> 0 .. MaxLines], NEW dn \in [Client -> 0 .. MaxLines],
           NEW gt \in [Client -> 0 .. MaxLines], NEW ch
    PROVE  /\ 2 * MaxLines \in Nat
           /\ TellFrom(ch, st) \in [Client -> 0 .. 2 * MaxLines]
           /\ Both(dn, gt) \in [Client -> 0 .. 2 * MaxLines]
<1>1. MaxLines \in Nat /\ 2 * MaxLines \in Nat /\ 0 \in 0 .. 2 * MaxLines
      BY ProgramNumbers
<1>2. ASSUME NEW c \in Client
      PROVE  st[c] \in 0 .. 2 * MaxLines /\ dn[c] + gt[c] \in 0 .. 2 * MaxLines
  <2>1. st[c] \in 0 .. MaxLines /\ dn[c] \in 0 .. MaxLines /\ gt[c] \in 0 .. MaxLines
        OBVIOUS
  <2> QED BY <1>1, <2>1
<1> QED BY <1>1, <1>2 DEF TellFrom, Both

LEMMA SumsAre ==
    ASSUME EchoInv
    PROVE  /\ 2 * MaxLines \in Nat
           /\ TellOf \in [Client -> 0 .. 2 * MaxLines] /\ EchoedOf \in [Client -> 0 .. 2 * MaxLines]
BY Bounded DEF EchoInv, EchoTypes, TellOf, EchoedOf

LEMMA SavedStart == ASSUME EchoInv, Saving!SavingInit PROVE SavedInv
<1>1. TellOf = EchoedOf
      BY DEF Saving!SavingInit, Saving!Init, TellOf, EchoedOf, TellFrom, Both
<1>2. Saving!Total(TellOf) \in Nat
      BY SumsAre, ProgramNumbers, TotalIs, UnitsAre
<1> QED BY <1>1, <1>2, ProgramNumbers DEF Saving!SavingInit, SavedInv

\* The two sums after a step that changes them at one client.
LEMMA SumsMove ==
    ASSUME EchoInv, EchoInv', NEW c \in Client,
           \A d \in Client \ {c} : TellOf'[d] = TellOf[d] /\ EchoedOf'[d] = EchoedOf[d]
    PROVE  /\ Saving!Total(TellOf') + TellOf[c] = Saving!Total(TellOf) + TellOf'[c]
           /\ Saving!Total(EchoedOf') + EchoedOf[c] = Saving!Total(EchoedOf) + EchoedOf'[c]
           /\ {Saving!Total(TellOf), Saving!Total(TellOf'), Saving!Total(EchoedOf), Saving!Total(EchoedOf'),
               TellOf[c], TellOf'[c], EchoedOf[c], EchoedOf'[c]} \subseteq Nat
<1> DEFINE m == 2 * MaxLines
<1>1. /\ m \in Nat /\ TellOf \in [Client -> 0 .. m] /\ EchoedOf \in [Client -> 0 .. m]
      /\ TellOf' \in [Client -> 0 .. m] /\ EchoedOf' \in [Client -> 0 .. m]
      BY Bounded DEF EchoInv, EchoTypes, TellOf, EchoedOf
<1> HIDE DEF m
<1>2. PICK t \in [Client -> 0 .. m], tt \in [Client -> 0 .. m], e \in [Client -> 0 .. m],
           ee \in [Client -> 0 .. m] : t = TellOf /\ tt = TellOf' /\ e = EchoedOf /\ ee = EchoedOf'
      BY <1>1
<1>3. /\ Saving!Total(tt) + t[c] = Saving!Total(t) + tt[c]
      /\ Saving!Total(t) \in Nat /\ Saving!Total(tt) \in Nat
      BY <1>1, <1>2, ProgramNumbers, TotalMoves
<1>4. /\ Saving!Total(ee) + e[c] = Saving!Total(e) + ee[c]
      /\ Saving!Total(e) \in Nat /\ Saving!Total(ee) \in Nat
      BY <1>1, <1>2, ProgramNumbers, TotalMoves
<1>5. {t[c], tt[c], e[c], ee[c]} \subseteq Nat
      BY <1>2
<1> QED BY <1>2, <1>3, <1>4, <1>5

LEMMA SavedSteps == ASSUME EchoInv, EchoInv', SavedInv, Saving!SavingNext PROVE SavedInv'
<1>0. /\ child \in [Client -> {"none", "read", "write", "tell", "close", "zombie", "gone"}]
      /\ str_len \in [Client -> 0 .. MaxLines]
      /\ down \in [Client -> 0 .. MaxLines] /\ got \in [Client -> 0 .. MaxLines]
      BY DEF EchoInv, EchoTypes
<1>1. Saving!Total(TellOf) \in Nat /\ Saving!Total(EchoedOf) \in Nat
      BY SumsAre, ProgramNumbers, TotalIs, UnitsAre
<1>2. ASSUME TellOf' = TellOf, EchoedOf' = EchoedOf, UNCHANGED saving PROVE SavedInv'
      BY <1>2 DEF saving, SavedInv
<1>3. ASSUME NEW c \in Client, UNCHANGED <<down, got, str_len>>, child[c] # "tell", NEW to, to # "tell",
             child' = [child EXCEPT ![c] = to]
      PROVE  TellOf' = TellOf /\ EchoedOf' = EchoedOf
  <2>1. \A d \in Client : child'[d] = "tell" <=> child[d] = "tell"
        BY <1>0, <1>3
  <2> QED BY <1>3, <2>1 DEF TellOf, EchoedOf, TellFrom, Both
<1>4. ASSUME UNCHANGED <<child, str_len, down, got>> PROVE TellOf' = TellOf /\ EchoedOf' = EchoedOf
      BY <1>4 DEF TellOf, EchoedOf
<1>5. CASE Saving!SaverReads
  <2>1. PICK n \in 1 .. fds : fds' = fds - n /\ saved' = saved + n
        BY <1>5 DEF Saving!SaverReads, Saving!Part
  <2>2. /\ saver' = saver /\ i < Reads /\ i' = i + 1 /\ UNCHANGED <<child, str_len, down, got>>
        BY <1>5 DEF Saving!SaverReads, Saving!vars, Saving!server, Saving!wires, Saving!client
  <2>3. TellOf' = TellOf /\ EchoedOf' = EchoedOf
        BY <1>4, <2>2
  <2>4. /\ fds' \in 0 .. PipeRoom /\ saved' \in Nat /\ i' \in 0 .. Reads
        /\ saved' + fds' = saved + fds
        BY <2>1, <2>2, ProgramNumbers DEF SavedInv
  <2> QED BY <2>2, <2>3, <2>4 DEF SavedInv
<1>6. CASE Saving!SaverExits \/ Saving!ReapSaver
  <2>1. saver' \in {"zombie", "gone"} /\ UNCHANGED <<child, str_len, down, got, i, fds, saved>>
        BY <1>6 DEF Saving!SaverExits, Saving!ReapSaver, Saving!server, Saving!wires, Saving!client
  <2>2. TellOf' = TellOf /\ EchoedOf' = EchoedOf
        BY <1>4, <2>1
  <2> QED BY <2>1, <2>2 DEF SavedInv
<1>7. CASE Saving!Serve \/ (Saving!read_childproc /\ UNCHANGED saving)
  <2>1. UNCHANGED saving
        BY <1>7 DEF Saving!Serve, Saving!saving, saving
  <2>2. UNCHANGED <<down, got, str_len>>
        BY <1>7 DEF Saving!Serve, Saving!Accept, Saving!Fork, Saving!CloseInParent, Saving!Deliver,
           Saving!read_childproc, Saving!server, Saving!wires, Saving!client
  <2>3. \/ UNCHANGED child
        \/ \E c \in Client : /\ child[c] \in {"none", "zombie"}
                             /\ \/ child' = [child EXCEPT ![c] = "read"]
                                \/ child' = [child EXCEPT ![c] = "gone"]
    <3>1. CASE Saving!Fork
      <4>1. clnt_sock \in Client /\ child[clnt_sock] = "none" /\ child' = [child EXCEPT ![clnt_sock] = "read"]
            BY <3>1 DEF Saving!Fork, Saving!Parent, EchoInv, BacklogInv, Fresh
      <4> QED BY <4>1
    <3>2. CASE Saving!Accept \/ Saving!CloseInParent \/ Saving!Deliver
          BY <3>2 DEF Saving!Accept, Saving!CloseInParent, Saving!Deliver, Saving!server
    <3>3. CASE Saving!read_childproc
          BY <3>3 DEF Saving!read_childproc, Saving!Reaps
    <3> QED BY <1>7, <3>1, <3>2, <3>3 DEF Saving!Serve
  <2>4. TellOf' = TellOf /\ EchoedOf' = EchoedOf
        BY <1>3, <1>4, <2>2, <2>3
  <2> QED BY <1>2, <2>1, <2>4
<1>8. ASSUME NEW c \in Client, Saving!EchoAndTell(c) PROVE SavedInv'
  <2>1. /\ child[c] = "write" /\ down' = [down EXCEPT ![c] = @ + str_len[c]]
        /\ child' = [child EXCEPT ![c] = "tell"] /\ UNCHANGED <<str_len, got, saver, i, fds, saved>>
        BY <1>8 DEF Saving!EchoAndTell, Saving!client, Saving!saving
  <2>2. \A d \in Client \ {c} : TellOf'[d] = TellOf[d] /\ EchoedOf'[d] = EchoedOf[d]
        BY <1>0, <2>1 DEF TellOf, EchoedOf, TellFrom, Both
  <2>3. /\ TellOf[c] = 0 /\ TellOf'[c] = str_len[c] /\ str_len[c] \in Nat
        /\ EchoedOf'[c] = EchoedOf[c] + str_len[c]
        BY <1>0, <2>1 DEF TellOf, EchoedOf, TellFrom, Both
  <2>4. /\ Saving!Total(TellOf') = Saving!Total(TellOf) + str_len[c]
        /\ Saving!Total(EchoedOf') = Saving!Total(EchoedOf) + str_len[c]
        /\ Saving!Total(TellOf) \in Nat /\ Saving!Total(EchoedOf) \in Nat
    <3>1. PICK e \in Nat : e = EchoedOf[c] /\ EchoedOf'[c] = e + str_len[c]
          BY <2>2, <2>3, SumsMove
    <3>2. /\ Saving!Total(TellOf') + TellOf[c] = Saving!Total(TellOf) + TellOf'[c]
          /\ Saving!Total(EchoedOf') + EchoedOf[c] = Saving!Total(EchoedOf) + EchoedOf'[c]
          BY <2>2, SumsMove
    <3>3. /\ Saving!Total(TellOf) \in Nat /\ Saving!Total(TellOf') \in Nat
          /\ Saving!Total(EchoedOf) \in Nat /\ Saving!Total(EchoedOf') \in Nat
          BY <2>2, SumsMove
    <3>4. Saving!Total(TellOf') = Saving!Total(TellOf) + str_len[c]
          BY <2>3, <3>2, <3>3
    <3>5. Saving!Total(EchoedOf') + e = Saving!Total(EchoedOf) + (e + str_len[c])
          BY <3>1, <3>2
    <3> QED BY <2>3, <3>1, <3>3, <3>4, <3>5
  <2>5. saved \in Nat /\ fds \in Nat
        BY ProgramNumbers DEF SavedInv
  <2>6. saved + fds + Saving!Total(TellOf') = Saving!Total(EchoedOf')
        BY <2>3, <2>4, <2>5 DEF SavedInv
  <2> QED BY <2>1, <2>6 DEF SavedInv
<1>9. ASSUME NEW c \in Client, Saving!WriteToPipe(c) PROVE SavedInv'
  <2>1. /\ child[c] = "tell" /\ fds + str_len[c] <= PipeRoom /\ fds' = fds + str_len[c]
        /\ child' = [child EXCEPT ![c] = "read"] /\ UNCHANGED <<str_len, down, got, saver, i, saved>>
        BY <1>9 DEF Saving!WriteToPipe, Saving!ToPipe, Saving!wires, Saving!client
  <2>2. \A d \in Client \ {c} : TellOf'[d] = TellOf[d] /\ EchoedOf'[d] = EchoedOf[d]
        BY <1>0, <2>1 DEF TellOf, EchoedOf, TellFrom, Both
  <2>3. /\ TellOf[c] = str_len[c] /\ TellOf'[c] = 0 /\ str_len[c] \in Nat
        /\ EchoedOf' = EchoedOf
        BY <1>0, <2>1 DEF TellOf, EchoedOf, TellFrom, Both
  <2>4. /\ fds' \in 0 .. PipeRoom /\ fds' = fds + str_len[c]
        BY <2>1, <2>3, ProgramNumbers DEF SavedInv
  <2>5. /\ Saving!Total(TellOf') + str_len[c] = Saving!Total(TellOf)
        /\ Saving!Total(EchoedOf') = Saving!Total(EchoedOf)
        /\ Saving!Total(TellOf) \in Nat /\ Saving!Total(TellOf') \in Nat
        BY <2>2, <2>3, SumsMove
  <2>6. saved \in Nat /\ fds \in Nat
        BY ProgramNumbers DEF SavedInv
  <2>7. saved + fds' + Saving!Total(TellOf') = saved + fds + Saving!Total(TellOf)
        BY <2>3, <2>4, <2>5, <2>6
  <2> QED BY <2>1, <2>4, <2>5, <2>7 DEF SavedInv
<1>10. ASSUME NEW c \in Client,
              \/ Saving!Connect(c) \/ Saving!Type(c) \/ Saving!Quit(c) \/ Saving!ReadEnds(c)
              \/ Saving!CloseInChild(c) \/ Saving!ChildExits(c),
              UNCHANGED saving
       PROVE  SavedInv'
  <2>1. UNCHANGED <<str_len, down, got>>
        BY <1>10 DEF Saving!Connect, Saving!Type, Saving!Quit, Saving!ReadEnds, Saving!CloseInChild,
           Saving!ChildExits, Saving!server, Saving!wires, Saving!client
  <2>2. \/ UNCHANGED child
        \/ /\ child[c] \in {"read", "close"}
           /\ child' = [child EXCEPT ![c] = "close"] \/ child' = [child EXCEPT ![c] = "zombie"]
        BY <1>10 DEF Saving!Connect, Saving!Type, Saving!Quit, Saving!ReadEnds, Saving!CloseInChild,
           Saving!ChildExits, Saving!server
  <2> QED BY <1>2, <1>3, <1>4, <1>10, <2>1, <2>2
<1>11. ASSUME NEW c \in Client, Saving!ReadLines(c), UNCHANGED saving PROVE SavedInv'
  <2>1. PICK n \in 1 .. down[c] : /\ down' = [down EXCEPT ![c] = @ - n]
                                  /\ got' = [got EXCEPT ![c] = @ + n]
        BY <1>11 DEF Saving!ReadLines, Saving!Part
  <2>2. UNCHANGED <<child, str_len>>
        BY <1>11 DEF Saving!ReadLines, Saving!server
  <2>3. \A d \in Client : down'[d] + got'[d] = down[d] + got[d]
        BY <1>0, <2>1
  <2>4. TellOf' = TellOf /\ EchoedOf' = EchoedOf
        BY <2>2, <2>3 DEF TellOf, EchoedOf, Both
  <2> QED BY <1>2, <1>11, <2>4
<1>12. ASSUME NEW c \in Client, Saving!Read(c), UNCHANGED saving PROVE SavedInv'
  <2>1. PICK n \in 1 .. up[c] : str_len' = [str_len EXCEPT ![c] = n]
        BY <1>12 DEF Saving!Read, Saving!Part
  <2>2. child[c] = "read" /\ child' = [child EXCEPT ![c] = "write"] /\ UNCHANGED <<down, got>>
        BY <1>12 DEF Saving!Read, Saving!client
  <2>3. \A d \in Client : /\ child'[d] = "tell" <=> child[d] = "tell"
                         /\ child[d] = "tell" => str_len'[d] = str_len[d]
        BY <1>0, <2>1, <2>2
  <2>4. TellOf' = TellOf /\ EchoedOf' = EchoedOf
        BY <2>2, <2>3 DEF TellOf, EchoedOf, TellFrom
  <2> QED BY <1>2, <1>12, <2>4
<1>13. ASSUME NEW c \in Client, Saving!echo_mpclient(c) PROVE SavedInv'
  <2>1. UNCHANGED saving
        BY <1>13 DEF Saving!echo_mpclient, Saving!saving, saving
  <2>2. \/ Saving!Connect(c) \/ Saving!Type(c) \/ Saving!Quit(c) \/ Saving!ReadEnds(c)
        \/ Saving!ReadLines(c)
        BY <1>13 DEF Saving!echo_mpclient, Saving!write_routine, Saving!read_routine
  <2> QED BY <1>10, <1>11, <2>1, <2>2
<1>14. ASSUME NEW c \in Client, Saving!ServeAndTell(c) PROVE SavedInv'
  <2>1. \/ Saving!EchoAndTell(c) \/ Saving!WriteToPipe(c)
        \/ UNCHANGED saving /\ (Saving!Read(c) \/ Saving!CloseInChild(c) \/ Saving!ChildExits(c))
        BY <1>14 DEF Saving!ServeAndTell, Saving!saving, saving
  <2> QED BY <1>8, <1>9, <1>10, <1>12, <2>1
<1>15. CASE Saving!saverProcess
      BY <1>5, <1>6, <1>15 DEF Saving!saverProcess
<1>16. CASE Saving!savingParent
  <2>1. Saving!ReapAny => Saving!ReapSaver \/ (Saving!read_childproc /\ UNCHANGED saving)
        BY DEF Saving!ReapAny, Saving!saving, saving
  <2> QED BY <1>6, <1>7, <1>16, <2>1 DEF Saving!savingParent
<1> QED BY <1>13, <1>14, <1>15, <1>16 DEF Saving!SavingNext

LEMMA AllIsSaved == ASSUME SavedInv PROVE Saving!AllSaved
BY DEF SavedInv, Saving!AllSaved, Saving!SavingTypeOK, TellOf, EchoedOf, TellFrom, Both

-----------------------------------------------------------------------------
ProcessInv ==
    /\ EchoInv
    /\ which = "fork" => ForkInv
    /\ which = "saving" => SavedInv

LEMMA ProcessStart == EachInit => ProcessInv
<1> SUFFICES ASSUME EachInit PROVE ProcessInv
    OBVIOUS
<1>1. Saving!SavingInit /\ Saving!Init
      BY DEF EachInit, LoopsInit, Saving!SavingInit
<1>2. Fork!Init
      BY <1>1 DEF Saving!Init, Fork!Init
<1> QED BY <1>1, <1>2, EchoStart, ForkStart, SavedStart DEF ProcessInv

LEMMA ProcessStep == ProcessInv /\ [EachNext]_all => ProcessInv'
<1> SUFFICES ASSUME ProcessInv, [EachNext]_all PROVE ProcessInv'
    OBVIOUS
<1>1. CASE UNCHANGED <<which, processes>>
  <2>1. UNCHANGED <<main, clnt_sock, child, str_len, sigchld, handling, f_backlog, holds,
             up, f_eof, down, writer, reader, sent, got, lost, saver, i, fds, saved>>
        BY <1>1 DEF processes, forked, saving
  <2>2. EchoTypes' /\ BacklogInv' /\ \A c \in Client : LinesOf(c)' /\ EndsOf(c)'
        BY <2>1 DEF ProcessInv, EchoInv, EchoTypes, BacklogInv, Fresh, LinesOf, EndsOf
  <2>3. Zombies' = Zombies /\ Exited' = Exited /\ TellOf' = TellOf /\ EchoedOf' = EchoedOf
        BY <2>1 DEF Zombies, Exited, TellOf, EchoedOf
  <2> QED BY <1>1, <2>1, <2>2, <2>3 DEF ProcessInv, EchoInv, ForkInv, One, SavedInv
<1>2. CASE which = "fork" /\ which' = which /\ Fork!Next
      BY <1>2, EchoSteps, ForkSteps DEF ProcessInv, EchoStep
<1>3. CASE which = "saving" /\ which' = which /\ Saving!SavingNext
      BY <1>3, EchoSteps, SavedSteps DEF ProcessInv, EchoStep
<1>4. CASE LoopsNext
      BY <1>1, <1>2, <1>3, <1>4 DEF LoopsNext, OneLoop
<1>5. CASE ThreadsNext /\ UNCHANGED looping
      BY <1>1, <1>5 DEF ThreadsNext, OneProgram, looping
<1>6. CASE UNCHANGED all
      BY <1>1, <1>6 DEF all, looping
<1> QED BY <1>4, <1>5, <1>6 DEF EachNext

\* Whatever the number of clients and lines, the size of the pipe and the number of reads: a
\* client whose reading half ends has every line back (echo_mpserv.c, echo_mpclient.c),
\* zombies are accounted for by signals, and what was echoed is saved, in the pipe or on its
\* way there (the server of ch11).
THEOREM EchoedAndSaved == EachSpec => []ProcessesEchoWhole
<1>1. ProcessInv => ProcessesEchoWhole
      BY EchoWhole, ForkAccounts, AllIsSaved DEF ProcessInv, ProcessesEchoWhole
<1> QED BY <1>1, ProcessStart, ProcessStep, PTL DEF EachSpec
=============================================================================
