-------------------------- MODULE ChatRoomDelivery ---------------------------
(***************************************************************************)
(* What the clients of ChatRoom are sent while nobody leaves: everything   *)
(* the others say, although the slots are read and written without a lock, *)
(* and nothing they said themselves.                                       *)
(***************************************************************************)
EXTENDS ChatRoomProofs

\* Nothing has told a child, or the parent, to stop.
NobodyStops ==
    /\ pending = {} /\ sigpipe = <<>> /\ signals = <<>>
    /\ ~stop_server /\ ~exited
    /\ \A c \in Clients :
          /\ c \in backlog \/ cpc[c] # "none" => ~fin[c]
          /\ cpc[c] # "zombie" /\ ~stop_child[c] /\ ~termed[c]

\* An event that a child has been told of is still there when it is handled: no
\* recv and no read of a child finds nothing.
EventsHold ==
    \A c \in Clients :
       /\ cpc[c] = "filling" => "conn" \in cbatch[c]
       /\ "conn" \in cbatch[c] => readN[c] < sentN[c]
       /\ "pipe" \in cbatch[c] => down[c] # <<>>
       /\ cpc[c] \notin InLoop => cbatch[c] = {}

\* A client without a child has not been heard.
Unheard ==
    \A c \in Clients : cpc[c] = "none" => readN[c] = 0 /\ up[c] = 0 /\ down[c] = <<>>

\* Nobody has moved in the table, so an entry and a slot belong together.
OwnEntry == \A c \in Clients : cpc[c] # "none" => idx[c] = sub_process[c]

\* A slot is blank, or it holds the last words its owner's child has read.
Words(c) == IF cpc[c] = "filling" \/ readN[c] = 0 THEN Blank
            ELSE [from |-> c, upto |-> readN[c]]

SlotsHold ==
    /\ \A c \in Clients : cpc[c] # "none" => shm[idx[c]] = Words(c)
    /\ \A s \in Slots : s >= g_user_count => shm[s] = Blank

\* The numbers on the way to a child are those of others.
NumbersOfOthers ==
    \A d \in Clients : \A j \in 1 .. Len(down[d]) :
       \E c \in Clients : c # d /\ cpc[c] # "none" /\ down[d][j] = idx[c]

\* A notification of c is in its pipe, or has been passed on to d.
OnItsWay(c, d) == up[c] > 0 \/ \E j \in 1 .. Len(down[d]) : down[d][j] = idx[c]

Informed ==
    /\ \A c \in Clients : got[c][c] = 0
    /\ \A c, d \in Clients : readN[c] = 0 => got[d][c] = 0
    /\ \A c, d \in Clients :
          c # d /\ cpc[c] \notin {"none", "filling"} /\ cpc[d] # "none"
            => OnItsWay(c, d) \/ got[d][c] = readN[c]

Quiet == /\ NobodyStops /\ EventsHold /\ Unheard /\ OwnEntry
         /\ SlotsHold /\ NumbersOfOthers /\ Informed

QInv == NobodyLeft => Quiet

-----------------------------------------------------------------------------
USE Constants DEF TypeOK, tables, flags, ploop, sigs, pipes, conns, child, parent, hist, others,
        outside

LEMMA InitQuiet == Init => Quiet
<1> SUFFICES ASSUME Init PROVE Quiet
    OBVIOUS
<1> USE DEF Init
<1>1. NobodyStops /\ EventsHold /\ Unheard /\ OwnEntry
      BY DEF NobodyStops, EventsHold, Unheard, OwnEntry
<1>2. SlotsHold /\ NumbersOfOthers /\ Informed
      BY DEF SlotsHold, NumbersOfOthers, Informed
<1> QED BY <1>1, <1>2 DEF Quiet

\* What the invariant of ChatRoomProofs says of the variables that matter here.
LEMMA Typed ==
    ASSUME IInv
    PROVE  /\ g_user_count \in 0 .. USER_LIMIT
           /\ sub_process \in [Clients -> -1 .. USER_LIMIT]
           /\ cpc \in [Clients -> ChildState] /\ idx \in [Clients -> Slots]
           /\ stop_child \in [Clients -> BOOLEAN] /\ termed \in [Clients -> BOOLEAN]
           /\ cbatch \in [Clients -> SUBSET {"conn", "pipe"}]
           /\ backlog \subseteq Clients
           /\ shm \in [Slots -> Content]
           /\ up \in [Clients -> Nat] /\ down \in [Clients -> Seq(Slots)]
           /\ sentN \in [Clients -> Nat] /\ readN \in [Clients -> Nat]
           /\ fin \in [Clients -> BOOLEAN]
           /\ got \in [Clients -> [Clients -> Nat]]
           /\ \A c \in backlog : cpc[c] = "none"
           /\ used \in [Budgets -> Nat]
BY DEF IInv, TablesOK, KernelOK, ChildrenOK, HistoryOK, BacklogIsFree

\* Two children have two slots.
LEMMA OwnSlots ==
    ASSUME IInv, OwnEntry, NEW c \in Clients, NEW d \in Clients,
           c # d, cpc[c] # "none", cpc[d] # "none"
    PROVE  idx[c] # idx[d] /\ idx[c] < g_user_count
<1>1. /\ sub_process[c] \in 0 .. g_user_count - 1 /\ g_users[sub_process[c]] = c
      /\ g_users[sub_process[d]] = d
      BY DEF IInv, UserTable
<1>2. idx[c] = sub_process[c] /\ idx[d] = sub_process[d]
      BY DEF OwnEntry
<1>3. g_user_count \in Nat
      BY Typed
<1> QED BY <1>1, <1>2, <1>3

Kept == <<g_user_count, sub_process, stop_server, exited, pending, sigpipe, signals, backlog,
          fin, cpc, idx, stop_child, termed, cbatch, shm, up, down, sentN, readN, got>>

LEMMA KeptKeepsQuiet == Quiet /\ UNCHANGED Kept => Quiet'
BY DEF Quiet, Kept, NobodyStops, EventsHold, Unheard, OwnEntry, SlotsHold, Words,
       NumbersOfOthers, OnItsWay, Informed

LEMMA ParentAlone ==
    ASSUME Quiet, EpollWait \/ AcceptFails \/ ReadSignals PROVE Quiet'
<1>1. UNCHANGED Kept
      BY DEF Kept, EpollWait, AcceptFails, ReadSignals, Handling, Quiet, NobodyStops
<1> QED BY <1>1, KeptKeepsQuiet

\* A step that touches neither slots nor pipes, and after which every child is as
\* before in or out of the table, in or out of its recv.
LEMMA TalkKept ==
    ASSUME SlotsHold, NumbersOfOthers, Informed,
           UNCHANGED <<g_user_count, idx, shm, up, down, readN, got>>,
           \A d \in Clients : /\ cpc'[d] = "none" <=> cpc[d] = "none"
                              /\ cpc'[d] = "filling" <=> cpc[d] = "filling"
    PROVE  SlotsHold' /\ NumbersOfOthers' /\ Informed'
<1>1. SlotsHold'
      BY DEF SlotsHold, Words
<1>2. NumbersOfOthers'
  <2>1. SUFFICES ASSUME NEW d \in Clients, NEW j \in 1 .. Len(down[d])
                 PROVE  \E c \in Clients : c # d /\ cpc'[c] # "none" /\ down[d][j] = idx[c]
        BY DEF NumbersOfOthers
  <2> QED BY DEF NumbersOfOthers
<1>3. \A c, d \in Clients : OnItsWay(c, d)' <=> OnItsWay(c, d)
      BY DEF OnItsWay
<1>4. Informed'
      BY <1>3 DEF Informed
<1> QED BY <1>1, <1>2, <1>4

LEMMA ConnectKeepsQuiet ==
    ASSUME IInv, Quiet, NEW c \in Clients, Connect(c) PROVE Quiet'
<1>1. /\ backlog' = backlog \cup {c} /\ fin' = [fin EXCEPT ![c] = FALSE]
      /\ UNCHANGED <<g_user_count, sub_process, stop_server, exited, pending, sigpipe, signals,
                     cpc, idx, stop_child, termed, cbatch, shm, up, down, sentN, readN, got>>
      BY DEF Connect
<1>2. NobodyStops'
      BY <1>1, Typed DEF Quiet, NobodyStops
<1>3. EventsHold' /\ Unheard' /\ OwnEntry'
      BY <1>1 DEF Quiet, EventsHold, Unheard, OwnEntry
<1>4. SlotsHold' /\ NumbersOfOthers' /\ Informed'
      BY <1>1, TalkKept DEF Quiet
<1> QED BY <1>2, <1>3, <1>4 DEF Quiet

LEMMA ClientSendKeepsQuiet ==
    ASSUME IInv, Quiet, NEW c \in Clients, ClientSend(c) PROVE Quiet'
<1>1. /\ sentN' = [sentN EXCEPT ![c] = @ + 1]
      /\ UNCHANGED <<g_user_count, sub_process, stop_server, exited, pending, sigpipe, signals,
                     backlog, fin, cpc, idx, stop_child, termed, cbatch, shm, up, down, readN,
                     got>>
      BY DEF ClientSend
<1>2. NobodyStops' /\ Unheard' /\ OwnEntry'
      BY <1>1 DEF Quiet, NobodyStops, Unheard, OwnEntry
<1>3. EventsHold'
  <2>1. \A d \in Clients : readN[d] < sentN[d] => readN[d] < sentN'[d]
        BY <1>1, Typed
  <2> QED BY <1>1, <2>1 DEF Quiet, EventsHold
<1>4. SlotsHold' /\ NumbersOfOthers' /\ Informed'
      BY <1>1, TalkKept DEF Quiet
<1> QED BY <1>2, <1>3, <1>4 DEF Quiet

LEMMA RefuseKeepsQuiet ==
    ASSUME IInv, Quiet, NEW c \in Clients, TooManyUsers(c) \/ ForkFails(c) PROVE Quiet'
<1>1. /\ c \in backlog /\ backlog' = backlog \ {c}
      /\ fin' = [fin EXCEPT ![c] = TRUE] /\ sentN' = [sentN EXCEPT ![c] = 0]
      /\ UNCHANGED <<g_user_count, sub_process, stop_server, exited, pending, sigpipe, signals,
                     cpc, idx, stop_child, termed, cbatch, shm, up, down, readN, got>>
      BY DEF TooManyUsers, ForkFails, Refuse
<1>2. cpc[c] = "none"
      BY <1>1, Typed
<1>3. NobodyStops'
      BY <1>1, <1>2, Typed DEF Quiet, NobodyStops
<1>4. EventsHold'
      BY <1>1, <1>2, Typed DEF Quiet, EventsHold, InLoop
<1>5. Unheard' /\ OwnEntry'
      BY <1>1 DEF Quiet, Unheard, OwnEntry
<1>6. SlotsHold' /\ NumbersOfOthers' /\ Informed'
      BY <1>1, TalkKept DEF Quiet
<1> QED BY <1>3, <1>4, <1>5, <1>6 DEF Quiet

\* A child goes from one place to the next.
LEMMA GoingOnKeepsQuiet ==
    ASSUME IInv, Quiet, NEW c \in Clients,
           CloseInherited(c) \/ SetUp(c) \/ GoOn(c) \/ Block(c)
    PROVE  Quiet'
<1>1. PICK y \in {"starting", "loop", "entering", "waiting"} :
         /\ cpc' = [cpc EXCEPT ![c] = y]
         /\ cpc[c] \notin {"none", "zombie", "filling"}
         /\ cpc[c] \in InLoop => y \in InLoop
      BY DEF CloseInherited, SetUp, GoOn, Block, AtHead, InLoop
<1>2. UNCHANGED <<g_user_count, sub_process, stop_server, exited, pending, sigpipe, signals,
                  backlog, fin, idx, stop_child, termed, cbatch, shm, up, down, sentN, readN,
                  got>>
      BY DEF CloseInherited, SetUp, GoOn, Block
<1>3. \A d \in Clients : /\ cpc'[d] = "none" <=> cpc[d] = "none"
                         /\ cpc'[d] = "zombie" <=> cpc[d] = "zombie"
                         /\ cpc'[d] = "filling" <=> cpc[d] = "filling"
                         /\ cpc'[d] \notin InLoop => cpc[d] \notin InLoop
      BY <1>1, Typed
<1>4. NobodyStops' /\ Unheard' /\ OwnEntry' /\ EventsHold'
      BY <1>2, <1>3 DEF Quiet, NobodyStops, Unheard, OwnEntry, EventsHold
<1>5. SlotsHold' /\ NumbersOfOthers' /\ Informed'
      BY <1>2, <1>3, TalkKept DEF Quiet
<1> QED BY <1>4, <1>5 DEF Quiet

LEMMA WakeKeepsQuiet ==
    ASSUME IInv, Quiet, NEW c \in Clients, Wake(c) PROVE Quiet'
<1>1. /\ cpc[c] = "waiting" /\ cpc' = [cpc EXCEPT ![c] = "loop"]
      /\ cbatch' = [cbatch EXCEPT ![c] = cready[c] \cap Readable(c)]
      /\ UNCHANGED <<g_user_count, sub_process, stop_server, exited, pending, sigpipe, signals,
                     backlog, fin, idx, stop_child, termed, shm, up, down, sentN, readN, got>>
      BY DEF Wake
<1>2. /\ "conn" \in cbatch'[c] => readN[c] < sentN[c]
      /\ "pipe" \in cbatch'[c] => down[c] # <<>>
      BY <1>1, Typed DEF Quiet, NobodyStops, Readable, ConnReadable, PipeReadable
<1>3. \A d \in Clients : /\ cpc'[d] = "none" <=> cpc[d] = "none"
                         /\ cpc'[d] = "zombie" <=> cpc[d] = "zombie"
                         /\ cpc'[d] = "filling" <=> cpc[d] = "filling"
                         /\ cpc'[d] \notin InLoop => cpc[d] \notin InLoop /\ d # c
      BY <1>1, Typed DEF InLoop
<1>4. NobodyStops' /\ Unheard' /\ OwnEntry'
      BY <1>1, <1>3 DEF Quiet, NobodyStops, Unheard, OwnEntry
<1>5. EventsHold'
  <2>1. \A d \in Clients \ {c} : cbatch'[d] = cbatch[d]
        BY <1>1, Typed
  <2>2. cpc'[c] = "loop"
        BY <1>1, Typed
  <2> QED BY <1>1, <1>2, <1>3, <2>1, <2>2 DEF Quiet, EventsHold, InLoop
<1>6. SlotsHold' /\ NumbersOfOthers' /\ Informed'
      BY <1>1, <1>3, TalkKept DEF Quiet
<1> QED BY <1>4, <1>5, <1>6 DEF Quiet

\* A newcomer has an entry and a slot nobody else has, and knows what was said.
LEMMA ForkKeepsQuiet ==
    ASSUME IInv, IInv', Quiet, NEW c \in Clients, Fork(c) PROVE Quiet'
<1> DEFINE n == g_user_count
<1>1. /\ c \in backlog /\ backlog' = backlog \ {c} /\ n < USER_LIMIT
      /\ sub_process' = [sub_process EXCEPT ![c] = n] /\ g_user_count' = n + 1
      /\ cpc' = [cpc EXCEPT ![c] = "forked"] /\ idx' = [idx EXCEPT ![c] = n]
      /\ got' = [got EXCEPT ![c] = [d \in Clients |-> IF d = c THEN 0 ELSE readN[d]]]
      /\ UNCHANGED <<stop_server, exited, pending, sigpipe, signals, fin, stop_child, termed,
                     cbatch, shm, up, down, sentN, readN>>
      BY DEF Fork, RoomLeft, Quiet, NobodyStops
<1>2. cpc[c] = "none" /\ n \in Slots
      BY <1>1, Typed DEF Slots
<1>3. /\ cpc'[c] = "forked" /\ idx'[c] = n /\ sub_process'[c] = n
      /\ \A d \in Clients \ {c} : /\ cpc'[d] = cpc[d] /\ idx'[d] = idx[d]
                                  /\ sub_process'[d] = sub_process[d]
                                  /\ got'[d] = got[d]
      /\ \A d \in Clients : got'[c][d] = IF d = c THEN 0 ELSE readN[d]
      BY <1>1, Typed
<1>4. /\ readN[c] = 0 /\ up[c] = 0 /\ down[c] = <<>> /\ cbatch[c] = {} /\ ~fin[c]
      /\ \A d \in Clients : got[d][c] = 0
      BY <1>1, <1>2 DEF Quiet, Unheard, EventsHold, NobodyStops, Informed, InLoop
<1>5. NobodyStops'
      BY <1>1, <1>3, <1>4 DEF Quiet, NobodyStops
<1>6. EventsHold' /\ Unheard' /\ OwnEntry'
      BY <1>1, <1>3, <1>4 DEF Quiet, EventsHold, Unheard, OwnEntry
<1>7. SlotsHold'
  <2>1. shm[n] = Blank /\ \A s \in Slots : s >= n + 1 => shm[s] = Blank
        BY <1>2, Typed DEF Quiet, SlotsHold, Slots
  <2>2. ASSUME NEW d \in Clients, cpc'[d] # "none" PROVE shm[idx'[d]] = Words(d)'
    <3>1. CASE d = c
          BY <1>1, <1>3, <1>4, <2>1, <3>1 DEF Words
    <3>2. CASE d # c
          BY <1>1, <1>3, <2>2, <3>2 DEF Words, Quiet, SlotsHold
    <3> QED BY <3>1, <3>2
  <2> QED BY <1>1, <2>1, <2>2 DEF SlotsHold
<1>8. NumbersOfOthers'
  <2>1. SUFFICES ASSUME NEW d \in Clients, NEW j \in 1 .. Len(down[d])
                 PROVE  \E e \in Clients : e # d /\ cpc'[e] # "none" /\ down[d][j] = idx'[e]
        BY <1>1 DEF NumbersOfOthers
  <2>2. PICK e \in Clients : e # d /\ cpc[e] # "none" /\ down[d][j] = idx[e]
        BY DEF Quiet, NumbersOfOthers
  <2> QED BY <1>2, <1>3, <2>2
<1>9. Informed'
  <2>1. \A d \in Clients : got'[d][d] = 0
        BY <1>3 DEF Quiet, Informed
  <2>2. \A d, e \in Clients : readN[d] = 0 => got'[e][d] = 0
        BY <1>3 DEF Quiet, Informed
  <2>3. ASSUME NEW d \in Clients, NEW e \in Clients, d # e,
               cpc'[d] \notin {"none", "filling"}, cpc'[e] # "none"
        PROVE  OnItsWay(d, e)' \/ got'[e][d] = readN[d]
    <3>1. CASE d = c
          BY <1>3, <1>4, <2>3, <3>1
    <3>2. CASE e = c
          BY <1>3, <2>3, <3>2
    <3>3. CASE d # c /\ e # c
          BY <1>1, <1>3, <2>3, <3>3 DEF Quiet, Informed, OnItsWay
    <3> QED BY <3>1, <3>2, <3>3
  <2> QED BY <1>1, <2>1, <2>2, <2>3 DEF Informed
<1> QED BY <1>5, <1>6, <1>7, <1>8, <1>9 DEF Quiet

\* Appending leaves the numbers before where they are.
LEMMA Appended ==
    ASSUME NEW s \in Seq(Slots), NEW x \in Slots
    PROVE  /\ Len(Append(s, x)) = Len(s) + 1 /\ Append(s, x)[Len(s) + 1] = x
           /\ \A j \in 1 .. Len(s) : Append(s, x)[j] = s[j]
           /\ 1 .. Len(Append(s, x)) = (1 .. Len(s)) \cup {Len(s) + 1}
OBVIOUS

\* As nobody has gone, the parent passes a number on to all the others.
LEMMA RelayKeepsQuiet ==
    ASSUME IInv, Quiet, NEW c \in Clients, Relay(c) PROVE Quiet'
<1>1. UNCHANGED <<g_user_count, sub_process, stop_server, exited, pending, sigpipe, signals,
                  backlog, fin, cpc, idx, stop_child, termed, cbatch, shm, sentN, readN, got>>
      BY DEF Relay, Quiet, NobodyStops
<1>2. CASE ~(cpc[c] # "none" /\ up[c] > 0)
  <2>1. UNCHANGED <<up, down>>
        BY <1>2 DEF Relay
  <2> QED BY <1>1, <2>1, KeptKeepsQuiet DEF Kept
<1>3. CASE cpc[c] # "none" /\ up[c] > 0
  <2>1. /\ up' = [up EXCEPT ![c] = @ - 1]
        /\ down' = [d \in Clients |-> IF d \in Recipients(c) THEN Append(down[d], idx[c])
                                      ELSE down[d]]
        BY <1>3 DEF Relay
  <2>2. \A d \in Clients : d \in Recipients(c) <=> d # c /\ cpc[d] # "none"
    <3>1. \A d \in Members : d \in Clients /\ cpc[d] # "none"
          BY DEF IInv, UserTable, Members
    <3>2. \A d \in Clients : cpc[d] # "none" => d \in Members
          BY DEF IInv, UserTable, Members
    <3> QED BY <3>1, <3>2 DEF Recipients, Alive, Quiet, NobodyStops
  <2>3. ASSUME NEW d \in Clients, d # c, cpc[d] # "none"
        PROVE  /\ Len(down'[d]) = Len(down[d]) + 1 /\ down'[d][Len(down[d]) + 1] = idx[c]
               /\ \A j \in 1 .. Len(down[d]) : down'[d][j] = down[d][j]
               /\ 1 .. Len(down'[d]) = (1 .. Len(down[d])) \cup {Len(down[d]) + 1}
    <3>1. down'[d] = Append(down[d], idx[c])
          BY <2>1, <2>2, <2>3
    <3>2. down[d] \in Seq(Slots) /\ idx[c] \in Slots
          BY Typed
    <3> QED BY <3>1, <3>2, Appended
  <2>4. ASSUME NEW d \in Clients, ~(d # c /\ cpc[d] # "none") PROVE down'[d] = down[d]
        BY <2>1, <2>2, <2>4
  <2>5. \A d \in Clients : down[d] # <<>> => down'[d] # <<>>
    <3>1. ASSUME NEW d \in Clients, d # c, cpc[d] # "none" PROVE down'[d] # <<>>
      <4>1. Len(down[d]) \in Nat
            BY Typed
      <4>2. Len(down'[d]) # 0
            BY <2>3, <3>1, <4>1
      <4> QED BY <4>2
    <3> QED BY <2>4, <3>1
  <2>6. NobodyStops' /\ OwnEntry' /\ SlotsHold'
        BY <1>1 DEF Quiet, NobodyStops, OwnEntry, SlotsHold, Words
  <2>7. EventsHold'
        BY <1>1, <2>5 DEF Quiet, EventsHold
  <2>8. Unheard'
    <3>1. \A d \in Clients \ {c} : up'[d] = up[d]
          BY <2>1, Typed
    <3> QED BY <1>1, <1>3, <2>4, <3>1 DEF Quiet, Unheard
  <2>9. NumbersOfOthers'
    <3>1. SUFFICES ASSUME NEW d \in Clients, NEW j \in 1 .. Len(down'[d])
                   PROVE  \E e \in Clients : e # d /\ cpc[e] # "none" /\ down'[d][j] = idx[e]
          BY <1>1 DEF NumbersOfOthers
    <3>2. CASE d # c /\ cpc[d] # "none"
      <4>1. CASE j \in 1 .. Len(down[d])
            BY <2>3, <3>2, <4>1 DEF Quiet, NumbersOfOthers
      <4>2. CASE j = Len(down[d]) + 1
            BY <1>3, <2>3, <3>2, <4>2
      <4> QED BY <2>3, <3>2, <4>1, <4>2
    <3>3. CASE ~(d # c /\ cpc[d] # "none")
          BY <2>4, <3>3 DEF Quiet, NumbersOfOthers
    <3> QED BY <3>2, <3>3
  <2>10. Informed'
    <3>1. ASSUME NEW d \in Clients, NEW e \in Clients, d # e,
                 cpc[d] \notin {"none", "filling"}, cpc[e] # "none"
          PROVE  OnItsWay(d, e)' \/ got[e][d] = readN[d]
      <4>1. CASE d = c
        <5>1. Len(down[e]) + 1 \in 1 .. Len(down'[e]) /\ down'[e][Len(down[e]) + 1] = idx[c]
              BY <2>3, <3>1, <4>1
        <5> QED BY <1>1, <4>1, <5>1 DEF OnItsWay
      <4>2. CASE d # c
        <5>1. up'[d] = up[d]
              BY <2>1, <4>2, Typed
        <5>2. (\E j \in 1 .. Len(down[e]) : down[e][j] = idx[d])
                => \E j \in 1 .. Len(down'[e]) : down'[e][j] = idx[d]
          <6>1. CASE e # c
                BY <2>3, <3>1, <6>1
          <6>2. CASE e = c
                BY <2>4, <6>2
          <6> QED BY <6>1, <6>2
        <5> QED BY <1>1, <3>1, <5>1, <5>2 DEF OnItsWay, Quiet, Informed
      <4> QED BY <4>1, <4>2
    <3> QED BY <1>1, <3>1 DEF Quiet, Informed
  <2> QED BY <2>6, <2>7, <2>8, <2>9, <2>10 DEF Quiet
<1> QED BY <1>2, <1>3

LEMMA ClearSlotKeepsQuiet ==
    ASSUME IInv, Quiet, NEW c \in Clients, ClearSlot(c) PROVE Quiet'
<1>1. /\ cpc[c] = "loop" /\ "conn" \in cbatch[c]
      /\ shm' = [shm EXCEPT ![idx[c]] = Blank] /\ cpc' = [cpc EXCEPT ![c] = "filling"]
      /\ UNCHANGED <<g_user_count, sub_process, stop_server, exited, pending, sigpipe, signals,
                     backlog, fin, idx, stop_child, termed, cbatch, up, down, sentN, readN, got>>
      BY DEF ClearSlot
<1>2. /\ cpc'[c] = "filling" /\ \A d \in Clients \ {c} : cpc'[d] = cpc[d]
      /\ shm'[idx[c]] = Blank /\ \A s \in Slots \ {idx[c]} : shm'[s] = shm[s]
      /\ idx[c] \in Slots
      BY <1>1, Typed
<1>3. NobodyStops' /\ EventsHold' /\ Unheard' /\ OwnEntry'
      BY <1>1, <1>2 DEF Quiet, NobodyStops, EventsHold, Unheard, OwnEntry, InLoop
<1>4. SlotsHold'
  <2>1. ASSUME NEW d \in Clients, cpc'[d] # "none" PROVE shm'[idx[d]] = Words(d)'
    <3>1. CASE d = c
          BY <1>2, <3>1 DEF Words
    <3>2. CASE d # c
      <4>1. idx[d] # idx[c] /\ idx[d] \in Slots /\ cpc[d] # "none"
            BY <1>1, <1>2, <2>1, <3>2, OwnSlots, Typed DEF Quiet
      <4> QED BY <1>1, <1>2, <3>2, <4>1 DEF Words, Quiet, SlotsHold
    <3> QED BY <3>1, <3>2
  <2>2. \A s \in Slots : s >= g_user_count => shm'[s] = Blank
        BY <1>2 DEF Quiet, SlotsHold
  <2> QED BY <1>1, <2>1, <2>2 DEF SlotsHold
<1>5. NumbersOfOthers'
  <2>1. \A d \in Clients : cpc[d] # "none" => cpc'[d] # "none"
        BY <1>2
  <2> QED BY <1>1, <2>1 DEF Quiet, NumbersOfOthers
<1>6. Informed'
      BY <1>1, <1>2 DEF Quiet, Informed, OnItsWay
<1> QED BY <1>3, <1>4, <1>5, <1>6 DEF Quiet

LEMMA FillSlotKeepsQuiet ==
    ASSUME IInv, Quiet, NEW c \in Clients, FillSlot(c) PROVE Quiet'
<1>1. cpc[c] = "filling" /\ readN[c] < sentN[c]
      BY DEF FillSlot, Quiet, EventsHold
<1>2. /\ cpc' = [cpc EXCEPT ![c] = "loop"]
      /\ cbatch' = [cbatch EXCEPT ![c] = @ \ {"conn"}]
      /\ up' = [up EXCEPT ![c] = @ + 1]
      /\ UNCHANGED <<g_user_count, sub_process, stop_server, exited, pending, sigpipe, signals,
                     backlog, fin, idx, stop_child, termed, down, sentN, got>>
      BY <1>1 DEF FillSlot
<1>3. PICK k \in Receivable(c) : /\ readN' = [readN EXCEPT ![c] = k]
                                 /\ shm' = [shm EXCEPT ![idx[c]] = [from |-> c, upto |-> k]]
      BY <1>1 DEF FillSlot
<1>4. k \in Nat /\ k > 0
      BY Typed DEF Receivable
<1>5. /\ cpc'[c] = "loop" /\ \A d \in Clients \ {c} : cpc'[d] = cpc[d]
      /\ readN'[c] = k /\ \A d \in Clients \ {c} : readN'[d] = readN[d]
      /\ up'[c] > 0 /\ \A d \in Clients \ {c} : up'[d] = up[d]
      /\ shm'[idx[c]] = [from |-> c, upto |-> k] /\ \A s \in Slots \ {idx[c]} : shm'[s] = shm[s]
      /\ cbatch'[c] = cbatch[c] \ {"conn"} /\ \A d \in Clients \ {c} : cbatch'[d] = cbatch[d]
      /\ idx[c] \in Slots
      BY <1>2, <1>3, Typed
<1>6. NobodyStops' /\ Unheard' /\ OwnEntry'
      BY <1>1, <1>2, <1>5 DEF Quiet, NobodyStops, Unheard, OwnEntry
<1>7. EventsHold'
      BY <1>2, <1>5 DEF Quiet, EventsHold, InLoop
<1>8. SlotsHold'
  <2>1. ASSUME NEW d \in Clients, cpc'[d] # "none" PROVE shm'[idx[d]] = Words(d)'
    <3>1. CASE d = c
          BY <1>4, <1>5, <3>1 DEF Words
    <3>2. CASE d # c
      <4>1. idx[d] # idx[c] /\ idx[d] \in Slots /\ cpc[d] # "none"
            BY <1>1, <1>5, <2>1, <3>2, OwnSlots, Typed DEF Quiet
      <4> QED BY <1>5, <3>2, <4>1 DEF Words, Quiet, SlotsHold
    <3> QED BY <3>1, <3>2
  <2>2. idx[c] < g_user_count
    <3>1. sub_process[c] \in 0 .. g_user_count - 1 /\ idx[c] = sub_process[c]
          BY <1>1 DEF IInv, UserTable, Quiet, OwnEntry
    <3> QED BY <3>1, Typed
  <2>3. \A s \in Slots : s >= g_user_count => s # idx[c]
        BY <2>2, Typed DEF Slots
  <2>4. \A s \in Slots : s >= g_user_count => shm'[s] = Blank
        BY <1>5, <2>3 DEF Quiet, SlotsHold
  <2> QED BY <1>2, <2>1, <2>4 DEF SlotsHold
<1>9. NumbersOfOthers'
  <2>1. \A d \in Clients : cpc[d] # "none" => cpc'[d] # "none"
        BY <1>5
  <2> QED BY <1>2, <2>1 DEF Quiet, NumbersOfOthers
<1>10. Informed'
  <2>1. \A d \in Clients : readN'[d] = 0 => readN[d] = 0
        BY <1>4, <1>5
  <2>2. ASSUME NEW d \in Clients, NEW e \in Clients, d # e,
               cpc'[d] \notin {"none", "filling"}, cpc'[e] # "none"
        PROVE  OnItsWay(d, e)' \/ got[e][d] = readN'[d]
    <3>1. CASE d = c
          BY <1>5, <3>1 DEF OnItsWay
    <3>2. CASE d # c
      <4>1. cpc[d] \notin {"none", "filling"} /\ cpc[e] # "none"
            BY <1>1, <1>5, <2>2, <3>2
      <4> QED BY <1>2, <1>5, <2>2, <3>2, <4>1 DEF Quiet, Informed, OnItsWay
    <3> QED BY <3>1, <3>2
  <2> QED BY <1>2, <2>1, <2>2 DEF Quiet, Informed
<1> QED BY <1>6, <1>7, <1>8, <1>9, <1>10 DEF Quiet

\* Taking the first number leaves the others.
LEMMA Taken ==
    ASSUME NEW s \in Seq(Slots), s # <<>>
    PROVE  /\ Len(s) \in Nat \ {0} /\ Head(s) = s[1] /\ Head(s) \in Slots
           /\ Tail(s) \in Seq(Slots) /\ Len(Tail(s)) = Len(s) - 1
           /\ \A j \in 1 .. Len(Tail(s)) : Tail(s)[j] = s[j + 1]
OBVIOUS

\* A child passes on what the slot holds when it looks: blank, or the last words
\* of somebody else.
LEMMA SendToClientKeepsQuiet ==
    ASSUME IInv, Quiet, NEW d \in Clients, SendToClient(d) PROVE Quiet'
<1>1. cpc[d] = "loop" /\ "pipe" \in cbatch[d] /\ down[d] # <<>>
      BY DEF SendToClient, Quiet, EventsHold
<1> DEFINE slot == shm[Head(down[d])]
<1>2. /\ cbatch' = [cbatch EXCEPT ![d] = @ \ {"pipe"}]
      /\ down' = [down EXCEPT ![d] = Tail(@)]
      /\ got' = IF slot = Blank THEN got ELSE [got EXCEPT ![d][slot.from] = slot.upto]
      /\ UNCHANGED <<g_user_count, sub_process, stop_server, exited, pending, sigpipe, signals,
                     backlog, fin, cpc, idx, stop_child, termed, shm, up, sentN, readN>>
      BY <1>1 DEF SendToClient
<1>3. /\ Len(down[d]) \in Nat \ {0} /\ Head(down[d]) = down[d][1]
      /\ Len(down'[d]) = Len(down[d]) - 1
      /\ \A j \in 1 .. Len(down'[d]) : down'[d][j] = down[d][j + 1]
      /\ \A e \in Clients \ {d} : down'[e] = down[e]
      BY <1>1, <1>2, Typed, Taken
<1>4. /\ cbatch'[d] = cbatch[d] \ {"pipe"} /\ \A e \in Clients \ {d} : cbatch'[e] = cbatch[e]
      BY <1>2, Typed
<1>5. PICK c \in Clients : c # d /\ cpc[c] # "none" /\ Head(down[d]) = idx[c]
      BY <1>3 DEF Quiet, NumbersOfOthers
<1>6. slot = Words(c)
      BY <1>5 DEF Quiet, SlotsHold
\* What the client of d has been sent.
<1>7. /\ \A e, f \in Clients : (e # d \/ f # c) => got'[e][f] = got[e][f]
      /\ IF cpc[c] = "filling" \/ readN[c] = 0 THEN got'[d][c] = got[d][c]
         ELSE got'[d][c] = readN[c]
  <2>1. CASE cpc[c] = "filling" \/ readN[c] = 0
    <3>1. got' = got
          BY <1>2, <1>6, <2>1 DEF Words
    <3> QED BY <2>1, <3>1
  <2>2. CASE ~(cpc[c] = "filling" \/ readN[c] = 0)
    <3>1. slot = [from |-> c, upto |-> readN[c]]
          BY <1>6, <2>2 DEF Words
    <3>2. slot # Blank /\ slot.from = c /\ slot.upto = readN[c]
          BY <3>1 DEF Blank
    <3>3. got' = [got EXCEPT ![d][c] = readN[c]]
          BY <1>2, <3>2
    <3> QED BY <2>2, <3>3, Typed
  <2> QED BY <2>1, <2>2
<1>8. NobodyStops' /\ OwnEntry' /\ SlotsHold'
      BY <1>2 DEF Quiet, NobodyStops, OwnEntry, SlotsHold, Words
<1>9. EventsHold' /\ Unheard'
  <2>1. cpc[d] # "none" /\ cpc[d] \in InLoop
        BY <1>1 DEF InLoop
  <2> QED BY <1>2, <1>3, <1>4, <2>1 DEF Quiet, EventsHold, Unheard
<1>10. NumbersOfOthers'
  <2>1. SUFFICES ASSUME NEW e \in Clients, NEW j \in 1 .. Len(down'[e])
                 PROVE  \E f \in Clients : f # e /\ cpc[f] # "none" /\ down'[e][j] = idx[f]
        BY <1>2 DEF NumbersOfOthers
  <2>2. CASE e = d
    <3>1. j + 1 \in 1 .. Len(down[d]) /\ down'[d][j] = down[d][j + 1]
          BY <1>3, <2>2
    <3> QED BY <2>2, <3>1 DEF Quiet, NumbersOfOthers
  <2>3. CASE e # d
        BY <1>3, <2>3 DEF Quiet, NumbersOfOthers
  <2> QED BY <2>2, <2>3
<1>11. Informed'
  <2>1. \A e \in Clients : got'[e][e] = 0
        BY <1>5, <1>7 DEF Quiet, Informed
  <2>2. \A e, f \in Clients : readN[f] = 0 => got'[e][f] = 0
        BY <1>7 DEF Quiet, Informed
  <2>3. ASSUME NEW f \in Clients, NEW e \in Clients, f # e,
               cpc[f] \notin {"none", "filling"}, cpc[e] # "none"
        PROVE  OnItsWay(f, e)' \/ got'[e][f] = readN[f]
    <3>1. CASE e = d /\ f = c
      <4>1. CASE readN[c] = 0
            BY <2>2, <3>1, <4>1
      <4>2. CASE readN[c] # 0
            BY <1>7, <2>3, <3>1, <4>2
      <4> QED BY <4>1, <4>2
    <3>2. CASE e = d /\ f # c
      <4>1. idx[f] # Head(down[d])
            BY <1>5, <2>3, <3>2, OwnSlots DEF Quiet
      <4>2. got'[d][f] = got[d][f]
            BY <1>7, <3>2
      <4>3. ASSUME NEW j \in 1 .. Len(down[d]), down[d][j] = idx[f]
            PROVE  \E i \in 1 .. Len(down'[d]) : down'[d][i] = idx[f]
        <5>1. j # 1
              BY <1>3, <4>1, <4>3
        <5>2. j - 1 \in 1 .. Len(down'[d]) /\ down'[d][j - 1] = down[d][j]
              BY <1>3, <5>1
        <5> QED BY <4>3, <5>2
      <4> QED BY <1>2, <2>3, <3>2, <4>2, <4>3 DEF Quiet, Informed, OnItsWay
    <3>3. CASE e # d
      <4>1. got'[e][f] = got[e][f] /\ down'[e] = down[e]
            BY <1>3, <1>7, <3>3
      <4>2. OnItsWay(f, e) \/ got[e][f] = readN[f]
            BY <2>3 DEF Quiet, Informed
      <4>3. OnItsWay(f, e)' <=> OnItsWay(f, e)
            BY <1>2, <4>1 DEF OnItsWay
      <4> QED BY <1>2, <4>1, <4>2, <4>3
    <3> QED BY <3>1, <3>2, <3>3
  <2> QED BY <1>2, <2>1, <2>2, <2>3 DEF Informed
<1> QED BY <1>8, <1>9, <1>10, <1>11 DEF Quiet

-----------------------------------------------------------------------------
\* While nobody has left, none of the steps is possible that end something.
LEMMA StepsWithoutEnd ==
    ASSUME Quiet, Next, NobodyLeft', used \in [Budgets -> Nat]
    PROVE  \/ EpollWait \/ AcceptFails \/ ReadSignals
           \/ \E c \in Clients :
                 \/ Connect(c) \/ ClientSend(c) \/ TooManyUsers(c) \/ ForkFails(c)
                 \/ Fork(c) \/ Relay(c) \/ Wake(c)
                 \/ CloseInherited(c) \/ SetUp(c) \/ GoOn(c) \/ Block(c)
                 \/ ClearSlot(c) \/ FillSlot(c) \/ SendToClient(c)
<1>1. ~Interrupt /\ \A c \in Clients : ~ClientLeave(c)
      BY DEF Interrupt, ClientLeave, NobodyLeft, Budgets
<1>2. ~Deliver
      BY DEF Deliver, sig_handler, Quiet, NobodyStops
<1>3. ~Exit /\ ~HandleSignal
      BY DEF Exit, HandleSignal, ReapDone, KillAll, Reap, NextSignal, Quiet, NobodyStops
<1>4. \A c \in Clients : ~DeliverTerm(c) /\ ~ChildExit(c)
      BY DEF DeliverTerm, ChildExit, Quiet, NobodyStops
<1> QED BY <1>1, <1>2, <1>3, <1>4 DEF Next, Environment, Parent, HandleEvent, run_child

LEMMA LeavingIsCounted ==
    ASSUME IInv, [Next]_vars, NobodyLeft' PROVE NobodyLeft
<1>1. used \in [Budgets -> Nat]
      BY Typed
<1>2. CASE UNCHANGED used
      BY <1>2 DEF NobodyLeft
<1>3. ASSUME NEW k \in Budgets, used' = [used EXCEPT ![k] = @ + 1] PROVE NobodyLeft
      BY <1>1, <1>3 DEF NobodyLeft, Budgets
<1>4. UNCHANGED used \/ \E k \in Budgets : used' = [used EXCEPT ![k] = @ + 1]
  <2>1. CASE Environment
        BY <2>1 DEF Environment, Interrupt, Connect, ClientSend, ClientLeave, Budgets
  <2>2. CASE Parent
        BY <2>2 DEF Parent, EpollWait, Exit, HandleSignal, ReapDone, KillAll, Reap, HandleEvent,
           AcceptFails, ReadSignals, TooManyUsers, ForkFails, Refuse, Fork, Relay
  <2>3. CASE Deliver
        BY <2>3 DEF Deliver, sig_handler
  <2>4. ASSUME NEW c \in Clients, run_child(c) PROVE UNCHANGED used
        BY <2>4 DEF run_child, CloseInherited, SetUp, ChildExit, GoOn, Block, Wake, ClearSlot,
           FillSlot, SendToClient
  <2>5. ASSUME NEW c \in Clients, DeliverTerm(c)
        PROVE  UNCHANGED used \/ \E k \in Budgets : used' = [used EXCEPT ![k] = @ + 1]
        BY <2>5 DEF DeliverTerm, Budgets
  <2>6. CASE UNCHANGED vars
        BY <2>6 DEF vars
  <2> QED BY <2>1, <2>2, <2>3, <2>4, <2>5, <2>6 DEF Next
<1> QED BY <1>2, <1>3, <1>4

LEMMA QInvIsInductive == IInv /\ IInv' /\ QInv /\ [Next]_vars => QInv'
<1> SUFFICES ASSUME IInv, IInv', QInv, [Next]_vars, NobodyLeft' PROVE Quiet'
    BY DEF QInv
<1>1. Quiet /\ used \in [Budgets -> Nat]
      BY LeavingIsCounted, Typed DEF QInv
<1>2. CASE UNCHANGED vars
  <2>1. UNCHANGED Kept
        BY <1>2 DEF vars, Kept
  <2> QED BY <1>1, <2>1, KeptKeepsQuiet
<1>3. CASE Next
      BY <1>1, <1>3, StepsWithoutEnd, ParentAlone, ConnectKeepsQuiet, ClientSendKeepsQuiet,
         RefuseKeepsQuiet, ForkKeepsQuiet, RelayKeepsQuiet, WakeKeepsQuiet, GoingOnKeepsQuiet,
         ClearSlotKeepsQuiet, FillSlotKeepsQuiet, SendToClientKeepsQuiet
<1> QED BY <1>2, <1>3

LEMMA QuietWhileAllStay == Spec => []QInv
<1>1. Init => QInv
      BY InitQuiet DEF QInv
<1> QED BY <1>1, QInvIsInductive, InvariantHolds, PTL DEF Spec

\* Until somebody leaves nobody is sent its own words, however many clients there
\* are and however their children are scheduled.
THEOREM NobodyHearsItself == Spec => []NoEcho
<1>1. QInv => NoEcho
      BY DEF QInv, Quiet, Informed, NoEcho
<1> QED BY <1>1, QuietWhileAllStay, PTL

\* And nobody misses the last words of another for good: what has not been sent
\* has a notification on its way.
THEOREM NobodyLeftBehind == Spec => []CaughtUp
<1>1. QInv => CaughtUp
      BY DEF QInv, Quiet, Informed, OnItsWay, CaughtUp, Alive
<1> QED BY <1>1, QuietWhileAllStay, PTL
=============================================================================
