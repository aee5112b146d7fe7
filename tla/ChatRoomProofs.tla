--------------------------- MODULE ChatRoomProofs ---------------------------
(***************************************************************************)
(* Proofs about ChatRoom, for every set of clients and every bound: its    *)
(* table, what is left when the server stops, and that it implements       *)
(* Membership.                                                             *)
(***************************************************************************)
EXTENDS ChatRoom, FiniteSetTheorems, TLAPS

\* A connection in the backlog has no child, so Fork never admits a client
\* that is in the table already.
BacklogIsFree == \A c \in backlog : cpc[c] = "none"

IInv == TypeOK /\ UserTable /\ BacklogIsFree

LEMMA Constants ==
    /\ USER_LIMIT \in Nat /\ USER_LIMIT > 0
    /\ "listen" \notin Clients /\ "sig" \notin Clients
    /\ NoUser \notin Clients
BY ChatRoomAssumption DEF ChatRoomAssumption

USE Constants DEF TypeOK, tables, flags, ploop, sigs, pipes, conns, child, parent, hist, others,
        outside

\* A slot that is not blank holds messages of a client, and recv fills it so.
LEMMA SlotFields ==
    /\ \A s \in Content : s # Blank => s.from \in Clients /\ s.upto \in Nat
    /\ \A c \in Clients, k \in Nat : [from |-> c, upto |-> k] \in Content
BY DEF Content

\* A byte is written to the signal pipe.
LEMMA ByteWritten == \A s \in Seq(Sigs), b \in Sigs : Append(s, b) \in Seq(Sigs)
OBVIOUS

\* A number is written to the pipes of a set of children.
LEMMA NumberWritten ==
    ASSUME NEW p \in [Clients -> Seq(Slots)], NEW x \in Slots, NEW T
    PROVE  [d \in Clients |-> IF d \in T THEN Append(p[d], x) ELSE p[d]]
             \in [Clients -> Seq(Slots)]
OBVIOUS

\* What happens before main's loop: nobody is there.
LEMMA InitIInv == Init => IInv
<1> SUFFICES ASSUME Init PROVE IInv
    OBVIOUS
<1> USE DEF Init
<1>1. TablesOK
  <2>1. g_users \in [0 .. USER_LIMIT -> Clients \cup {NoUser}]
        OBVIOUS
  <2>2. g_user_count \in 0 .. USER_LIMIT /\ sub_process \in [Clients -> -1 .. USER_LIMIT]
        OBVIOUS
  <2> QED BY <2>1, <2>2 DEF TablesOK
<1>2. LoopOK
      BY DEF LoopOK
<1>3. KernelOK
      BY DEF KernelOK, Content, Blank, Slots
<1>4. ChildrenOK
      BY DEF ChildrenOK, ChildState, Slots
<1>5. HistoryOK
      BY DEF HistoryOK
<1>6. UserTable /\ BacklogIsFree
      BY DEF UserTable, BacklogIsFree
<1> QED BY <1>1, <1>2, <1>3, <1>4, <1>5, <1>6 DEF IInv

LEMMA ConnectKeepsIInv ==
    ASSUME IInv, NEW c \in Clients, Connect(c) PROVE IInv'
<1> USE DEF IInv, Connect
<1>1. LoopOK'
      BY DEF LoopOK
<1>2. KernelOK'
      BY DEF KernelOK
<1>3. HistoryOK'
      BY DEF HistoryOK, Budgets
<1>4. TablesOK' /\ ChildrenOK'
      BY DEF TablesOK, ChildrenOK
<1>5. UserTable'
      BY DEF UserTable, TablesOK, ChildrenOK
<1>6. BacklogIsFree'
      BY DEF BacklogIsFree, KernelOK, ChildrenOK
<1> QED BY <1>1, <1>2, <1>3, <1>4, <1>5, <1>6

LEMMA ClientSendKeepsIInv ==
    ASSUME IInv, NEW c \in Clients, ClientSend(c) PROVE IInv'
<1> USE DEF IInv, ClientSend
<1>1. KernelOK'
      BY DEF KernelOK
<1>2. ChildrenOK'
      BY DEF ChildrenOK, Edge
<1>3. TablesOK' /\ LoopOK' /\ HistoryOK'
      BY DEF TablesOK, LoopOK, HistoryOK
<1>4. UserTable'
      BY DEF UserTable, TablesOK, ChildrenOK
<1>5. BacklogIsFree'
      BY DEF BacklogIsFree, KernelOK, ChildrenOK
<1> QED BY <1>1, <1>2, <1>3, <1>4, <1>5

LEMMA ClientLeaveKeepsIInv ==
    ASSUME IInv, NEW c \in Clients, ClientLeave(c) PROVE IInv'
<1> USE DEF IInv, ClientLeave
<1>1. KernelOK'
      BY DEF KernelOK
<1>2. ChildrenOK'
      BY DEF ChildrenOK, Edge
<1>3. HistoryOK'
      BY DEF HistoryOK, Budgets
<1>4. TablesOK' /\ LoopOK'
      BY DEF TablesOK, LoopOK
<1>5. UserTable'
      BY DEF UserTable, TablesOK, ChildrenOK
<1>6. BacklogIsFree'
      BY DEF BacklogIsFree, KernelOK, ChildrenOK
<1> QED BY <1>1, <1>2, <1>3, <1>4, <1>5, <1>6

LEMMA InterruptKeepsIInv ==
    ASSUME IInv, Interrupt PROVE IInv'
<1> USE DEF IInv, Interrupt
<1>1. KernelOK'
      BY DEF KernelOK, Sigs
<1>2. HistoryOK'
      BY DEF HistoryOK, Budgets
<1>3. TablesOK' /\ LoopOK' /\ ChildrenOK'
      BY DEF TablesOK, LoopOK, ChildrenOK
<1>4. UserTable'
      BY DEF UserTable, TablesOK, ChildrenOK
<1>5. BacklogIsFree'
      BY DEF BacklogIsFree, KernelOK, ChildrenOK
<1> QED BY <1>1, <1>2, <1>3, <1>4, <1>5

LEMMA sig_handlerKeepsIInv ==
    ASSUME IInv, NEW sig \in Sigs, sig_handler(sig) PROVE IInv'
<1> USE DEF IInv, sig_handler
<1>1. LoopOK'
      BY DEF LoopOK
<1>2. KernelOK'
      BY DEF KernelOK, Sigs
<1>3. TablesOK' /\ ChildrenOK' /\ HistoryOK'
      BY DEF TablesOK, ChildrenOK, HistoryOK
<1>4. UserTable'
      BY DEF UserTable, TablesOK, ChildrenOK
<1>5. BacklogIsFree'
      BY DEF BacklogIsFree, KernelOK, ChildrenOK
<1> QED BY <1>1, <1>2, <1>3, <1>4, <1>5

LEMMA EpollWaitKeepsIInv ==
    ASSUME IInv, EpollWait PROVE IInv'
<1> USE DEF IInv, EpollWait
<1>1. LoopOK'
      BY DEF LoopOK, ReadableByParent
<1>2. TablesOK' /\ KernelOK' /\ ChildrenOK' /\ HistoryOK'
      BY DEF TablesOK, KernelOK, ChildrenOK, HistoryOK
<1>3. UserTable'
      BY DEF UserTable, TablesOK, ChildrenOK
<1>4. BacklogIsFree'
      BY DEF BacklogIsFree, KernelOK, ChildrenOK
<1> QED BY <1>1, <1>2, <1>3, <1>4

LEMMA ExitKeepsIInv ==
    ASSUME IInv, Exit PROVE IInv'
<1> USE DEF IInv, Exit
<1>1. TablesOK'
      BY DEF TablesOK
<1>2. KernelOK'
      BY DEF KernelOK
<1>3. ChildrenOK'
      BY DEF ChildrenOK, Edge
<1>4. LoopOK' /\ HistoryOK'
      BY DEF LoopOK, HistoryOK
<1>5. UserTable'
      BY DEF UserTable, TablesOK, ChildrenOK
<1>6. BacklogIsFree'
      BY DEF BacklogIsFree, KernelOK, ChildrenOK
<1> QED BY <1>1, <1>2, <1>3, <1>4, <1>5, <1>6

LEMMA AcceptFailsKeepsIInv ==
    ASSUME IInv, AcceptFails PROVE IInv'
<1> USE DEF IInv, AcceptFails, Handling
<1>1. LoopOK'
      BY DEF LoopOK
<1>2. TablesOK' /\ KernelOK' /\ ChildrenOK' /\ HistoryOK'
      BY DEF TablesOK, KernelOK, ChildrenOK, HistoryOK
<1>3. UserTable'
      BY DEF UserTable, TablesOK, ChildrenOK
<1>4. BacklogIsFree'
      BY DEF BacklogIsFree, KernelOK, ChildrenOK
<1> QED BY <1>1, <1>2, <1>3, <1>4

LEMMA TooManyUsersKeepsIInv ==
    ASSUME IInv, NEW c \in Clients, TooManyUsers(c) PROVE IInv'
<1> USE DEF IInv, TooManyUsers, Handling, Refuse, RoomLeft
<1>1. LoopOK'
      BY DEF LoopOK
<1>2. KernelOK'
      BY DEF KernelOK
<1>3. TablesOK' /\ ChildrenOK' /\ HistoryOK'
      BY DEF TablesOK, ChildrenOK, HistoryOK
<1>4. UserTable'
      BY DEF UserTable, TablesOK, ChildrenOK
<1>5. BacklogIsFree'
      BY DEF BacklogIsFree, KernelOK, ChildrenOK
<1> QED BY <1>1, <1>2, <1>3, <1>4, <1>5

LEMMA ForkFailsKeepsIInv ==
    ASSUME IInv, NEW c \in Clients, ForkFails(c) PROVE IInv'
<1> USE DEF IInv, ForkFails, Handling, Refuse, RoomLeft
<1>1. LoopOK'
      BY DEF LoopOK
<1>2. KernelOK'
      BY DEF KernelOK
<1>3. TablesOK' /\ ChildrenOK' /\ HistoryOK'
      BY DEF TablesOK, ChildrenOK, HistoryOK
<1>4. UserTable'
      BY DEF UserTable, TablesOK, ChildrenOK
<1>5. BacklogIsFree'
      BY DEF BacklogIsFree, KernelOK, ChildrenOK
<1> QED BY <1>1, <1>2, <1>3, <1>4, <1>5

LEMMA ForkKeepsIInv ==
    ASSUME IInv, NEW c \in Clients, Fork(c) PROVE IInv'
<1> USE DEF IInv, Fork, Handling, RoomLeft
<1>1. TablesOK'
      BY DEF TablesOK
<1>2. LoopOK'
      BY DEF LoopOK
<1>3. KernelOK'
      BY DEF KernelOK
<1>4. ChildrenOK'
      BY DEF ChildrenOK, ChildState, Slots, TablesOK
<1>5. HistoryOK'
      BY DEF HistoryOK, KernelOK
<1>6. UserTable'
  <2> DEFINE n == g_user_count
  <2>1. n \in Nat /\ g_user_count' = n + 1 /\ n \in 0 .. USER_LIMIT /\ n # n + 1
        BY DEF TablesOK
  <2>2. cpc[c] = "none" /\ cpc' = [cpc EXCEPT ![c] = "forked"]
        BY DEF BacklogIsFree
  <2>3. g_users' = [g_users EXCEPT ![n] = c] /\ g_users'[n] = c
        BY <2>1 DEF TablesOK
  <2>4. sub_process' = [sub_process EXCEPT ![c] = n] /\ sub_process'[c] = n
        BY DEF TablesOK
  <2>5. ASSUME NEW i \in 0 .. n
        PROVE  g_users'[i] \in Clients /\ cpc'[g_users'[i]] # "none" /\ sub_process'[g_users'[i]] = i
    <3>1. CASE i = n
          BY <2>2, <2>3, <2>4, <3>1 DEF ChildrenOK
    <3>2. CASE i # n
      <4>1. i \in 0 .. n - 1 /\ g_users'[i] = g_users[i]
            BY <2>1, <2>3, <3>2 DEF TablesOK
      <4>2. g_users[i] \in Clients /\ g_users[i] # c
            BY <2>2, <4>1 DEF UserTable
      <4> QED BY <2>2, <2>4, <4>1, <4>2 DEF UserTable, TablesOK, ChildrenOK
    <3> QED BY <3>1, <3>2
  <2>6. ASSUME NEW d \in Clients, cpc'[d] # "none"
        PROVE  sub_process'[d] \in 0 .. n /\ g_users'[sub_process'[d]] = d
    <3>1. CASE d = c
          BY <2>1, <2>3, <2>4, <3>1
    <3>2. CASE d # c
      <4>1. cpc[d] # "none" /\ sub_process'[d] = sub_process[d]
            BY <2>2, <2>4, <2>6, <3>2 DEF TablesOK, ChildrenOK
      <4>2. sub_process[d] \in 0 .. n - 1 /\ g_users[sub_process[d]] = d
            BY <4>1 DEF UserTable
      <4> QED BY <2>1, <2>3, <4>1, <4>2 DEF TablesOK
    <3> QED BY <3>1, <3>2
  <2> QED BY <2>1, <2>5, <2>6 DEF UserTable
<1>7. BacklogIsFree'
      BY DEF BacklogIsFree, KernelOK, ChildrenOK
<1> QED BY <1>1, <1>2, <1>3, <1>4, <1>5, <1>6, <1>7

LEMMA ReadSignalsKeepsIInv ==
    ASSUME IInv, ReadSignals PROVE IInv'
<1> USE DEF IInv, ReadSignals, Handling
<1>1. LoopOK'
      BY DEF LoopOK, KernelOK
<1>2. KernelOK'
      BY DEF KernelOK
<1>3. TablesOK' /\ ChildrenOK' /\ HistoryOK'
      BY DEF TablesOK, ChildrenOK, HistoryOK
<1>4. UserTable'
      BY DEF UserTable, TablesOK, ChildrenOK
<1>5. BacklogIsFree'
      BY DEF BacklogIsFree, KernelOK, ChildrenOK
<1> QED BY <1>1, <1>2, <1>3, <1>4, <1>5

LEMMA ReapKeepsIInv ==
    ASSUME IInv, NEW c \in Clients, Reap(c) PROVE IInv'
<1> USE DEF IInv, Reap, LastUser, Remapped
<1>0. /\ sub_process[c] \in 0 .. g_user_count - 1 /\ g_users[sub_process[c]] = c
      /\ g_user_count - 1 \in 0 .. g_user_count - 1
      /\ g_users[g_user_count - 1] \in Clients
      /\ sub_process[g_users[g_user_count - 1]] = g_user_count - 1
      BY DEF UserTable, TablesOK
<1> DEFINE del  == sub_process[c]
           last == g_user_count - 1
           u    == g_users[last]
<1>1. /\ g_user_count' = last
      /\ g_users' = [g_users EXCEPT ![del] = u]
      /\ sub_process' = [sub_process EXCEPT ![c] = -1, ![u] = del]
      /\ cpc' = [cpc EXCEPT ![c] = "none"]
      BY <1>0 DEF TablesOK
<1>2. TablesOK'
  <2>1. g_user_count' \in 0 .. USER_LIMIT
        BY <1>0, <1>1 DEF TablesOK
  <2>2. g_users' \in [0 .. USER_LIMIT -> Clients \cup {NoUser}]
        BY <1>0, <1>1 DEF TablesOK
  <2>3. sub_process' \in [Clients -> -1 .. USER_LIMIT]
        BY <1>0, <1>1 DEF TablesOK
  <2> QED BY <2>1, <2>2, <2>3 DEF TablesOK
<1>3. LoopOK' /\ HistoryOK'
      BY DEF LoopOK, HistoryOK
<1>4. KernelOK'
      BY DEF KernelOK
<1>5. ChildrenOK'
      BY DEF ChildrenOK, ChildState, Slots
<1>6. ASSUME NEW i \in 0 .. last - 1
      PROVE  g_users'[i] \in Clients /\ cpc'[g_users'[i]] # "none" /\ sub_process'[g_users'[i]] = i
  <2>1. CASE i = del
    <3>1. g_users'[i] = u /\ u # c
          BY <1>0, <1>1, <2>1 DEF TablesOK
    <3>2. cpc[u] # "none"
          BY <1>0 DEF UserTable
    <3> QED BY <1>0, <1>1, <2>1, <3>1, <3>2 DEF TablesOK, ChildrenOK
  <2>2. CASE i # del
    <3>1. g_users'[i] = g_users[i] /\ i \in 0 .. g_user_count - 1 /\ i # last
          BY <1>0, <1>1, <2>2 DEF TablesOK
    <3>2. /\ g_users[i] \in Clients /\ cpc[g_users[i]] # "none"
          /\ sub_process[g_users[i]] = i
          BY <3>1 DEF UserTable
    <3>3. g_users[i] # c /\ g_users[i] # u
          BY <1>0, <2>2, <3>1, <3>2
    <3> QED BY <1>0, <1>1, <3>1, <3>2, <3>3 DEF TablesOK, ChildrenOK
  <2> QED BY <2>1, <2>2
<1>7. ASSUME NEW d \in Clients, cpc'[d] # "none"
      PROVE  sub_process'[d] \in 0 .. last - 1 /\ g_users'[sub_process'[d]] = d
  <2>1. d # c /\ cpc[d] # "none"
        BY <1>1, <1>7 DEF ChildrenOK
  <2>2. sub_process[d] \in 0 .. g_user_count - 1 /\ g_users[sub_process[d]] = d
        BY <2>1 DEF UserTable
  <2>3. CASE d = u
    <3>1. sub_process'[d] = del /\ del # last
          BY <1>0, <1>1, <2>1, <2>3 DEF TablesOK
    <3> QED BY <1>0, <1>1, <2>3, <3>1 DEF TablesOK
  <2>4. CASE d # u
    <3>1. sub_process'[d] = sub_process[d]
          BY <1>1, <2>1, <2>4 DEF TablesOK
    <3>2. sub_process[d] # last /\ sub_process[d] # del
          BY <1>0, <2>1, <2>2, <2>4
    <3> QED BY <1>0, <1>1, <2>2, <3>1, <3>2 DEF TablesOK
  <2> QED BY <2>3, <2>4
<1>8. UserTable'
      BY <1>1, <1>6, <1>7 DEF UserTable
<1>9. BacklogIsFree'
      BY DEF BacklogIsFree, KernelOK, ChildrenOK
<1> QED BY <1>2, <1>3, <1>4, <1>5, <1>8, <1>9

LEMMA ReapDoneKeepsIInv ==
    ASSUME IInv, ReapDone PROVE IInv'
<1> USE DEF IInv, ReapDone, NextSignal
<1>1. TablesOK'
      BY DEF TablesOK
<1>2. LoopOK'
      BY DEF LoopOK
<1>3. KernelOK' /\ ChildrenOK' /\ HistoryOK'
      BY DEF KernelOK, ChildrenOK, HistoryOK
<1>4. UserTable'
      BY DEF UserTable, TablesOK, ChildrenOK
<1>5. BacklogIsFree'
      BY DEF BacklogIsFree, KernelOK, ChildrenOK
<1> QED BY <1>1, <1>2, <1>3, <1>4, <1>5

LEMMA KillAllKeepsIInv ==
    ASSUME IInv, KillAll PROVE IInv'
<1> USE DEF IInv, KillAll, NextSignal
<1>1. TablesOK'
      BY DEF TablesOK
<1>2. LoopOK'
      BY DEF LoopOK
<1>3. ChildrenOK'
      BY DEF ChildrenOK
<1>4. KernelOK' /\ HistoryOK'
      BY DEF KernelOK, HistoryOK
<1>5. UserTable'
      BY DEF UserTable, TablesOK, ChildrenOK
<1>6. BacklogIsFree'
      BY DEF BacklogIsFree, KernelOK, ChildrenOK
<1> QED BY <1>1, <1>2, <1>3, <1>4, <1>5, <1>6

LEMMA RelayKeepsIInv ==
    ASSUME IInv, NEW c \in Clients, Relay(c) PROVE IInv'
<1> USE DEF IInv, Relay, Handling
<1>1. LoopOK'
      BY DEF LoopOK
<1>2. KernelOK'
  <2>1. CASE cpc[c] # "none" /\ up[c] > 0
    <3>1. idx[c] \in Slots
          BY DEF ChildrenOK
    <3>2. down \in [Clients -> Seq(Slots)]
          BY DEF KernelOK
    <3>3. down' = [d \in Clients |-> IF d \in Recipients(c) THEN Append(down[d], idx[c])
                                    ELSE down[d]]
          BY <2>1
    <3>4. down' \in [Clients -> Seq(Slots)]
          BY <3>1, <3>2, <3>3, NumberWritten
    <3>5. up' = [up EXCEPT ![c] = @ - 1] /\ up' \in [Clients -> Nat]
          BY <2>1 DEF KernelOK
    <3>6. /\ sigpipe' \in Seq(Sigs) /\ pending' \subseteq Sigs /\ backlog' \subseteq Clients
          /\ shm' \in [Slots -> Content] /\ fin' \in [Clients -> BOOLEAN]
          /\ sentN' \in [Clients -> Nat] /\ readN' \in [Clients -> Nat]
          BY DEF KernelOK
    <3> QED BY <3>4, <3>5, <3>6 DEF KernelOK
  <2>2. CASE ~(cpc[c] # "none" /\ up[c] > 0)
        BY <2>2 DEF KernelOK
  <2> QED BY <2>1, <2>2
<1>3. ChildrenOK'
  <2>1. \A d \in Clients : /\ Edge(d, "pipe") \in SUBSET {"conn", "pipe"}
                           /\ cready[d] \in SUBSET {"conn", "pipe"}
        BY DEF ChildrenOK, Edge
  <2>2. cready' \in [Clients -> SUBSET {"conn", "pipe"}]
        BY <2>1 DEF ChildrenOK
  <2> QED BY <2>2 DEF ChildrenOK
<1>4. TablesOK' /\ HistoryOK'
      BY DEF TablesOK, HistoryOK
<1>5. UserTable'
      BY DEF UserTable, TablesOK, ChildrenOK
<1>6. BacklogIsFree'
      BY DEF BacklogIsFree, KernelOK, ChildrenOK
<1> QED BY <1>1, <1>2, <1>3, <1>4, <1>5, <1>6

LEMMA CloseInheritedKeepsIInv ==
    ASSUME IInv, NEW c \in Clients, CloseInherited(c) PROVE IInv'
<1> USE DEF IInv, CloseInherited
<1>1. ChildrenOK'
      BY DEF ChildrenOK, ChildState
<1>2. TablesOK' /\ LoopOK' /\ KernelOK' /\ HistoryOK'
      BY DEF TablesOK, LoopOK, KernelOK, HistoryOK
<1>3. UserTable'
      BY DEF UserTable, TablesOK, ChildrenOK
<1>4. BacklogIsFree'
      BY DEF BacklogIsFree, KernelOK, ChildrenOK
<1> QED BY <1>1, <1>2, <1>3, <1>4

LEMMA SetUpKeepsIInv ==
    ASSUME IInv, NEW c \in Clients, SetUp(c) PROVE IInv'
<1> USE DEF IInv, SetUp
<1>1. ChildrenOK'
      BY DEF ChildrenOK, ChildState, InLoop, Readable
<1>2. TablesOK' /\ LoopOK' /\ KernelOK' /\ HistoryOK'
      BY DEF TablesOK, LoopOK, KernelOK, HistoryOK
<1>3. UserTable'
      BY DEF UserTable, TablesOK, ChildrenOK
<1>4. BacklogIsFree'
      BY DEF BacklogIsFree, KernelOK, ChildrenOK
<1> QED BY <1>1, <1>2, <1>3, <1>4

LEMMA DeliverTermKeepsIInv ==
    ASSUME IInv, NEW c \in Clients, DeliverTerm(c) PROVE IInv'
<1> USE DEF IInv, DeliverTerm
<1>1. LoopOK'
      BY DEF LoopOK
<1>2. KernelOK'
  <2>1. CASE cpc[c] = "forked" /\ ~exited
    <3>1. sigpipe' \in Seq(Sigs)
          BY <2>1, ByteWritten DEF KernelOK, Sigs
    <3> QED BY <2>1, <3>1 DEF KernelOK
  <2>2. CASE ~(cpc[c] = "forked" /\ ~exited)
        BY <2>2 DEF KernelOK
  <2> QED BY <2>1, <2>2
<1>3. ChildrenOK'
      BY DEF ChildrenOK, ChildState, InLoop
<1>4. HistoryOK'
      BY DEF HistoryOK, Budgets
<1>5. TablesOK'
      BY DEF TablesOK
<1>6. UserTable'
      BY DEF UserTable, TablesOK, ChildrenOK
<1>7. BacklogIsFree'
      BY DEF BacklogIsFree, KernelOK, ChildrenOK
<1> QED BY <1>1, <1>2, <1>3, <1>4, <1>5, <1>6, <1>7

LEMMA ChildExitKeepsIInv ==
    ASSUME IInv, NEW c \in Clients, ChildExit(c) PROVE IInv'
<1> USE DEF IInv, ChildExit, AtHead
<1>1. LoopOK'
      BY DEF LoopOK
<1>2. KernelOK'
  <2>1. CASE exited
        BY <2>1 DEF KernelOK
  <2>2. CASE ~exited
    <3>1. pending' \subseteq Sigs
          BY <2>2 DEF KernelOK, Sigs
    <3>2. /\ down' \in [Clients -> Seq(Slots)] /\ fin' \in [Clients -> BOOLEAN]
          /\ sentN' \in [Clients -> Nat] /\ readN' \in [Clients -> Nat]
          BY DEF KernelOK
    <3> QED BY <3>1, <3>2 DEF KernelOK
  <2> QED BY <2>1, <2>2
<1>3. ChildrenOK'
      BY DEF ChildrenOK, ChildState
<1>4. HistoryOK'
      BY DEF HistoryOK
<1>5. TablesOK'
      BY DEF TablesOK
<1>6. UserTable'
      BY DEF UserTable, TablesOK, ChildrenOK
<1>7. BacklogIsFree'
      BY DEF BacklogIsFree, KernelOK, ChildrenOK
<1> QED BY <1>1, <1>2, <1>3, <1>4, <1>5, <1>6, <1>7

LEMMA GoOnKeepsIInv ==
    ASSUME IInv, NEW c \in Clients, GoOn(c) PROVE IInv'
<1> USE DEF IInv, GoOn, AtHead
<1>1. ChildrenOK'
      BY DEF ChildrenOK, ChildState, InLoop
<1>2. TablesOK' /\ LoopOK' /\ KernelOK' /\ HistoryOK'
      BY DEF TablesOK, LoopOK, KernelOK, HistoryOK
<1>3. UserTable'
      BY DEF UserTable, TablesOK, ChildrenOK
<1>4. BacklogIsFree'
      BY DEF BacklogIsFree, KernelOK, ChildrenOK
<1> QED BY <1>1, <1>2, <1>3, <1>4

LEMMA BlockKeepsIInv ==
    ASSUME IInv, NEW c \in Clients, Block(c) PROVE IInv'
<1> USE DEF IInv, Block
<1>1. ChildrenOK'
      BY DEF ChildrenOK, ChildState, InLoop
<1>2. TablesOK' /\ LoopOK' /\ KernelOK' /\ HistoryOK'
      BY DEF TablesOK, LoopOK, KernelOK, HistoryOK
<1>3. UserTable'
      BY DEF UserTable, TablesOK, ChildrenOK
<1>4. BacklogIsFree'
      BY DEF BacklogIsFree, KernelOK, ChildrenOK
<1> QED BY <1>1, <1>2, <1>3, <1>4

LEMMA WakeKeepsIInv ==
    ASSUME IInv, NEW c \in Clients, Wake(c) PROVE IInv'
<1> USE DEF IInv, Wake
<1>1. ChildrenOK'
      BY DEF ChildrenOK, ChildState, InLoop
<1>2. TablesOK' /\ LoopOK' /\ KernelOK' /\ HistoryOK'
      BY DEF TablesOK, LoopOK, KernelOK, HistoryOK
<1>3. UserTable'
      BY DEF UserTable, TablesOK, ChildrenOK
<1>4. BacklogIsFree'
      BY DEF BacklogIsFree, KernelOK, ChildrenOK
<1> QED BY <1>1, <1>2, <1>3, <1>4

LEMMA ClearSlotKeepsIInv ==
    ASSUME IInv, NEW c \in Clients, ClearSlot(c) PROVE IInv'
<1> USE DEF IInv, ClearSlot
<1>1. KernelOK'
      BY DEF KernelOK, Content
<1>2. ChildrenOK'
      BY DEF ChildrenOK, ChildState, InLoop
<1>3. TablesOK' /\ LoopOK' /\ HistoryOK'
      BY DEF TablesOK, LoopOK, HistoryOK
<1>4. UserTable'
      BY DEF UserTable, TablesOK, ChildrenOK
<1>5. BacklogIsFree'
      BY DEF BacklogIsFree, KernelOK, ChildrenOK
<1> QED BY <1>1, <1>2, <1>3, <1>4, <1>5

LEMMA FillSlotKeepsIInv ==
    ASSUME IInv, NEW c \in Clients, FillSlot(c) PROVE IInv'
<1>0. \A k \in Nat : [from |-> c, upto |-> k] \in Content
      BY SlotFields
<1> USE DEF IInv, FillSlot, Receivable
<1>1. LoopOK'
      BY DEF LoopOK
<1>2. KernelOK'
  <2>1. CASE readN[c] < sentN[c]
    <3>1. PICK k \in readN[c] + 1 .. sentN[c] :
                /\ readN' = [readN EXCEPT ![c] = k]
                /\ shm' = [shm EXCEPT ![idx[c]] = [from |-> c, upto |-> k]]
          BY <2>1
    <3>2. k \in Nat
          BY DEF KernelOK
    <3>3. [from |-> c, upto |-> k] \in Content
          BY <3>2, <1>0
    <3>4. readN' \in [Clients -> Nat]
          BY <3>1, <3>2 DEF KernelOK
    <3>6. up' = [up EXCEPT ![c] = @ + 1]
          BY <2>1
    <3>7. up' \in [Clients -> Nat]
          BY <3>6 DEF KernelOK
    <3>5. shm' \in [Slots -> Content]
          BY <3>1, <3>3 DEF KernelOK
    <3> QED BY <3>4, <3>5, <3>7 DEF KernelOK
  <2>2. CASE ~(readN[c] < sentN[c])
        BY <2>2 DEF KernelOK
  <2> QED BY <2>1, <2>2
<1>3. ChildrenOK'
      BY DEF ChildrenOK, ChildState, InLoop
<1>4. TablesOK' /\ HistoryOK'
      BY DEF TablesOK, HistoryOK
<1>5. UserTable'
      BY DEF UserTable, TablesOK, ChildrenOK
<1>6. BacklogIsFree'
      BY DEF BacklogIsFree, KernelOK, ChildrenOK
<1> QED BY <1>1, <1>2, <1>3, <1>4, <1>5, <1>6

LEMMA SendToClientKeepsIInv ==
    ASSUME IInv, NEW c \in Clients, SendToClient(c) PROVE IInv'
<1>00. \A s \in Content : s # Blank => s.from \in Clients /\ s.upto \in Nat
      BY SlotFields
<1> USE DEF IInv, SendToClient
<1>0. down[c] # <<>> => /\ Head(down[c]) \in Slots
                          /\ Tail(down[c]) \in Seq(Slots)
                          /\ shm[Head(down[c])] \in Content
      BY DEF KernelOK
<1>1. KernelOK'
  <2>1. CASE down[c] = <<>>
        BY <2>1 DEF KernelOK
  <2>2. CASE down[c] # <<>>
        BY <1>0, <2>2 DEF KernelOK
  <2> QED BY <2>1, <2>2
<1>2. ChildrenOK'
  <2>1. CASE down[c] = <<>>
        BY <2>1 DEF ChildrenOK
  <2>2. CASE down[c] # <<>> /\ fin[c]
        BY <2>2 DEF ChildrenOK
  <2>3. CASE down[c] # <<>> /\ ~fin[c]
        BY <2>3 DEF ChildrenOK
  <2> QED BY <2>1, <2>2, <2>3
<1>3. HistoryOK'
  <2>1. CASE down[c] = <<>> \/ shm[Head(down[c])] = Blank
        BY <2>1 DEF HistoryOK
  <2>2. CASE down[c] # <<>> /\ shm[Head(down[c])] # Blank
    <3>1. shm[Head(down[c])].from \in Clients /\ shm[Head(down[c])].upto \in Nat
          BY <1>0, <1>00, <2>2
    <3>2. got' = [got EXCEPT ![c][shm[Head(down[c])].from] = shm[Head(down[c])].upto]
          BY <2>2
    <3>3. \A d \in Clients, n \in Nat : [got EXCEPT ![c][d] = n] \in [Clients -> [Clients -> Nat]]
          BY DEF HistoryOK
    <3>4. got' \in [Clients -> [Clients -> Nat]]
          BY <3>1, <3>2, <3>3
    <3> QED BY <3>4 DEF HistoryOK
  <2> QED BY <2>1, <2>2
<1>4. TablesOK' /\ LoopOK'
      BY DEF TablesOK, LoopOK
<1>5. UserTable'
      BY DEF UserTable, TablesOK, ChildrenOK
<1>6. BacklogIsFree'
      BY DEF BacklogIsFree, KernelOK, ChildrenOK
<1> QED BY <1>1, <1>2, <1>3, <1>4, <1>5, <1>6

LEMMA IInvIsInductive == IInv /\ [Next]_vars => IInv'
<1> SUFFICES ASSUME IInv, [Next]_vars PROVE IInv'
    OBVIOUS
<1>1. CASE Environment
      BY <1>1, ConnectKeepsIInv, ClientSendKeepsIInv, ClientLeaveKeepsIInv,
         InterruptKeepsIInv DEF Environment
<1>2. CASE Parent
  <2>1. CASE EpollWait \/ Exit
        BY <2>1, EpollWaitKeepsIInv, ExitKeepsIInv
  <2>2. CASE HandleSignal
        BY <2>2, ReapKeepsIInv, ReapDoneKeepsIInv, KillAllKeepsIInv DEF HandleSignal
  <2>3. CASE HandleEvent
        BY <2>3, AcceptFailsKeepsIInv, ReadSignalsKeepsIInv, TooManyUsersKeepsIInv,
           ForkFailsKeepsIInv, ForkKeepsIInv, RelayKeepsIInv DEF HandleEvent
  <2> QED BY <1>2, <2>1, <2>2, <2>3 DEF Parent
<1>3. CASE Deliver
      BY <1>3, sig_handlerKeepsIInv DEF Deliver
<1>4. ASSUME NEW c \in Clients, run_child(c) PROVE IInv'
      BY <1>4, CloseInheritedKeepsIInv, SetUpKeepsIInv, ChildExitKeepsIInv,
         GoOnKeepsIInv, BlockKeepsIInv, WakeKeepsIInv, ClearSlotKeepsIInv,
         FillSlotKeepsIInv, SendToClientKeepsIInv DEF run_child
<1>5. ASSUME NEW c \in Clients, DeliverTerm(c) PROVE IInv'
      BY <1>5, DeliverTermKeepsIInv
<1>6. CASE UNCHANGED vars
      BY <1>6 DEF vars, IInv, TablesOK, LoopOK, KernelOK, ChildrenOK, HistoryOK,
                  UserTable, BacklogIsFree
<1> QED BY <1>1, <1>2, <1>3, <1>4, <1>5, <1>6 DEF Next

THEOREM InvariantHolds == Spec => []IInv
BY InitIInv, IInvIsInductive, PTL DEF Spec

\* No behaviour leaves the types: in particular g_user_count stays within the
\* room and every index a child works with is one of a slot of share_mem.
THEOREM TypeCorrect == Spec => []TypeOK
BY InvariantHolds, PTL DEF IInv

\* The table and the pid map stay inverse to each other through every order of
\* connections, exits and signals.
THEOREM TableCorrect == Spec => []UserTable
BY InvariantHolds, PTL DEF IInv

-----------------------------------------------------------------------------
(* The end of the server: at most one child is left behind.               *)

\* Once stop_server is set, main handles the rest of the current round and no
\* other.  Nobody is in the room then, and the round holds at most one event of
\* the listening socket.
LastRound ==
    /\ stop_server =>
         \/ \A c \in Clients : cpc[c] = "none"
         \/ /\ "listen" \notin pbatch
            /\ \E o \in Clients : \A c \in Clients \ {o} : cpc[c] = "none"
    /\ exited => stop_server /\ pbatch = {} /\ signals = <<>>

\* The steps that move a child, its death and its burial apart.
Moves(c) == \/ CloseInherited(c) \/ SetUp(c) \/ GoOn(c) \/ Block(c) \/ Wake(c)
            \/ ClearSlot(c) \/ FillSlot(c) \/ SendToClient(c) \/ DeliverTerm(c)

\* The steps that touch no child.
Others == \/ Environment \/ Deliver
          \/ EpollWait \/ Exit \/ ReapDone \/ KillAll \/ AcceptFails \/ ReadSignals
          \/ \E c \in Clients : TooManyUsers(c) \/ ForkFails(c) \/ Relay(c)

LEMMA StepKinds ==
    ASSUME [Next]_vars
    PROVE  \/ \E c \in Clients : Fork(c) \/ Reap(c) \/ ChildExit(c) \/ Moves(c)
           \/ Others \/ UNCHANGED vars
BY DEF Next, Parent, HandleSignal, HandleEvent, run_child, Moves, Others

\* The states none and zombie are entered and left by Fork, ChildExit and Reap.
LEMMA MovesKeepFate ==
    ASSUME IInv, NEW c \in Clients, Moves(c)
    PROVE  /\ \A d \in Clients : cpc'[d] = "none" <=> cpc[d] = "none"
           /\ \A d \in Clients : cpc'[d] = "zombie" <=> cpc[d] = "zombie"
           /\ UNCHANGED <<tables, flags, pbatch, signals>>
<1>1. cpc \in [Clients -> ChildState]
      BY DEF IInv, ChildrenOK
<1>2. CASE CloseInherited(c)
      BY <1>1, <1>2 DEF CloseInherited
<1>3. CASE SetUp(c)
      BY <1>1, <1>3 DEF SetUp
<1>4. CASE GoOn(c) \/ Block(c)
      BY <1>1, <1>4 DEF GoOn, Block, AtHead
<1>5. CASE Wake(c)
      BY <1>1, <1>5 DEF Wake
<1>6. CASE ClearSlot(c)
      BY <1>1, <1>6 DEF ClearSlot
<1>7. CASE FillSlot(c)
      BY <1>1, <1>7 DEF FillSlot
<1>8. CASE SendToClient(c)
      BY <1>8 DEF SendToClient
<1>9. CASE DeliverTerm(c)
      BY <1>1, <1>9 DEF DeliverTerm
<1> QED BY <1>2, <1>3, <1>4, <1>5, <1>6, <1>7, <1>8, <1>9 DEF Moves

LEMMA OthersKeepChildren == ASSUME Others PROVE UNCHANGED <<tables, cpc>>
<1>1. CASE Environment
      BY <1>1 DEF Environment, Connect, ClientSend, ClientLeave, Interrupt
<1>2. CASE Deliver
      BY <1>2 DEF Deliver, sig_handler
<1>3. CASE EpollWait \/ Exit \/ ReapDone \/ KillAll \/ AcceptFails \/ ReadSignals
      BY <1>3 DEF EpollWait, Exit, ReapDone, KillAll, AcceptFails, ReadSignals
<1>4. ASSUME NEW c \in Clients, TooManyUsers(c) \/ ForkFails(c) \/ Relay(c)
      PROVE  UNCHANGED <<tables, cpc>>
      BY <1>4 DEF TooManyUsers, ForkFails, Refuse, Relay
<1> QED BY <1>1, <1>2, <1>3, <1>4 DEF Others

\* How main reaches its end.
LEMMA OthersAndTheEnd ==
    ASSUME IInv, LastRound, Others PROVE LastRound'
<1>1. UNCHANGED cpc
      BY OthersKeepChildren
<1>2. CASE Environment \/ Deliver
  <2>1. UNCHANGED <<stop_server, exited, pbatch, signals>>
        BY <1>2 DEF Environment, Connect, ClientSend, ClientLeave, Interrupt,
           Deliver, sig_handler
  <2> QED BY <1>1, <2>1 DEF LastRound
<1>3. CASE EpollWait
  <2>1. ~stop_server /\ ~exited /\ UNCHANGED <<stop_server, exited>>
        BY <1>3 DEF EpollWait
  <2> QED BY <2>1 DEF LastRound
<1>4. CASE Exit
  <2>1. stop_server /\ pbatch = {} /\ signals = <<>> /\ UNCHANGED <<stop_server, pbatch, signals>>
        BY <1>4 DEF Exit
  <2> QED BY <1>1, <2>1 DEF LastRound
<1>5. CASE ReapDone \/ KillAll
  <2>1. signals # <<>> /\ UNCHANGED <<exited, pbatch>>
        BY <1>5 DEF ReapDone, KillAll, NextSignal
  <2>2. stop_server' => stop_server \/ g_user_count = 0
        BY <1>5 DEF ReapDone, KillAll, LastUserGone
  <2>3. g_user_count = 0 => \A c \in Clients : cpc[c] = "none"
        BY DEF IInv, UserTable
  <2> QED BY <1>1, <2>1, <2>2, <2>3 DEF LastRound
<1>6. CASE AcceptFails \/ ReadSignals \/ \E c \in Clients : TooManyUsers(c) \/ ForkFails(c) \/ Relay(c)
  <2>1. /\ pbatch # {} /\ pbatch' \subseteq pbatch
        /\ UNCHANGED <<stop_server, exited>>
        BY <1>6 DEF AcceptFails, ReadSignals, TooManyUsers, ForkFails, Refuse, Relay, Handling
  <2> QED BY <1>1, <2>1 DEF LastRound
<1> QED BY <1>2, <1>3, <1>4, <1>5, <1>6 DEF Others

LEMMA LastRoundIsInductive ==
    ASSUME IInv, LastRound, [Next]_vars PROVE LastRound'
<1>0. cpc \in [Clients -> ChildState]
      BY DEF IInv, ChildrenOK
<1>1. ASSUME NEW c \in Clients, Fork(c) PROVE LastRound'
  <2>1. /\ "listen" \in pbatch /\ pbatch' = pbatch \ {"listen"}
        /\ UNCHANGED <<stop_server, exited>>
        /\ cpc' = [cpc EXCEPT ![c] = "forked"]
        BY <1>1 DEF Fork, Handling
  <2>2. ~exited
        BY <2>1 DEF LastRound
  <2>3. stop_server => \A d \in Clients \ {c} : cpc'[d] = "none"
        BY <1>0, <2>1 DEF LastRound
  <2> QED BY <2>1, <2>2, <2>3 DEF LastRound
<1>2. ASSUME NEW c \in Clients, Reap(c) PROVE LastRound'
  <2>1. UNCHANGED <<flags, pbatch, signals>> /\ cpc' = [cpc EXCEPT ![c] = "none"]
        BY <1>2 DEF Reap
  <2> QED BY <1>0, <2>1 DEF LastRound
<1>3. ASSUME NEW c \in Clients, ChildExit(c) PROVE LastRound'
  <2>1. /\ UNCHANGED <<flags, pbatch, signals>> /\ cpc' = [cpc EXCEPT ![c] = "zombie"]
        /\ cpc[c] # "none"
        BY <1>3 DEF ChildExit, AtHead
  <2> QED BY <1>0, <2>1 DEF LastRound
<1>4. ASSUME NEW c \in Clients, Moves(c) PROVE LastRound'
      BY <1>4, MovesKeepFate DEF LastRound
<1>5. CASE UNCHANGED vars
      BY <1>5 DEF vars, LastRound
<1> QED BY <1>1, <1>2, <1>3, <1>4, <1>5, StepKinds, OthersAndTheEnd

LEMMA AtMostOneAlive ==
    ASSUME IInv, LastRound, stop_server,
           NEW S, \A c \in S : c \in Clients /\ Alive(c)
    PROVE  Cardinality(S) <= 1
<1>1. CASE \A c \in Clients : cpc[c] = "none"
  <2>1. S = {}
        BY <1>1 DEF Alive
  <2> QED BY <2>1, FS_EmptySet
<1>2. CASE \E o \in Clients : \A c \in Clients \ {o} : cpc[c] = "none"
  <2>1. PICK o \in Clients : \A c \in Clients \ {o} : cpc[c] = "none"
        BY <1>2
  <2>2. S \in SUBSET {o}
        BY <2>1 DEF Alive
  <2>3. IsFiniteSet({o}) /\ Cardinality({o}) = 1
        BY FS_Singleton
  <2>4. Cardinality(S) <= Cardinality({o})
        BY <2>2, <2>3, FS_Subset
  <2> QED BY <2>3, <2>4
<1> QED BY <1>1, <1>2 DEF LastRound

LEMMA AllInvariants == Spec => [](IInv /\ LastRound)
<1>1. Init => LastRound
      BY DEF Init, LastRound
<1> QED BY <1>1, InitIInv, IInvIsInductive, LastRoundIsInductive, PTL DEF Spec

\* A stopped server leaves at most one child behind, whatever the number of
\* clients, and that child was accepted in the last round.
THEOREM AtMostOneOrphan == Spec => []OneOrphan
<1>1. IInv /\ LastRound => OneOrphan
      BY AtMostOneAlive DEF OneOrphan, LastRound
<1> QED BY <1>1, AllInvariants, PTL

-----------------------------------------------------------------------------
(* The refinement.                                                         *)

\* The dense table, as a set, is the set of children not yet reaped.
LEMMA MembersAreChildren ==
    ASSUME IInv PROVE Members = {c \in Clients : cpc[c] # "none"}
BY DEF IInv, UserTable, Members

LEMMA RoomForAnother ==
    ASSUME IInv, g_user_count < USER_LIMIT PROVE Cardinality(Members) < USER_LIMIT
<1> DEFINE f == [i \in 1 .. g_user_count |-> g_users[i - 1]]
<1>1. g_user_count \in Nat /\ USER_LIMIT \in Nat
      BY Constants DEF IInv, TablesOK
<1>2. f \in Surjection(1 .. g_user_count, Members)
  <2>1. \A i \in 1 .. g_user_count : f[i] \in Members
        BY <1>1 DEF Members
  <2>2. \A m \in Members : \E i \in 1 .. g_user_count : f[i] = m
    <3>1. SUFFICES ASSUME NEW j \in 0 .. g_user_count - 1
                   PROVE  \E i \in 1 .. g_user_count : f[i] = g_users[j]
          BY DEF Members
    <3>2. j + 1 \in 1 .. g_user_count /\ f[j + 1] = g_users[j]
          BY <1>1
    <3> QED BY <3>2
  <2> QED BY <2>1, <2>2 DEF Surjection
<1>3. Cardinality(Members) <= g_user_count /\ IsFiniteSet(Members)
      BY <1>1, <1>2, FS_SurjCardinalityBound, FS_Surjection, FS_Interval DEF ExistsSurjection
<1>4. Cardinality(Members) \in Nat
      BY <1>3, FS_CardinalityType
<1> QED BY <1>1, <1>3, <1>4

\* Membership takes its Cardinality from its own copy of FiniteSets.
LEMMA SameCardinality == ASSUME NEW S PROVE Table!Cardinality(S) = Cardinality(S)
BY DEF Cardinality, Table!Cardinality

LEMMA StepRefines ==
    ASSUME IInv, LastRound, IInv', [Next]_vars
    PROVE  [Table!Next]_(Table!vars)
<1> DEFINE dead == {c \in Clients : cpc[c] = "zombie"}
<1>0. cpc \in [Clients -> ChildState]
      BY DEF IInv, ChildrenOK
<1>1. /\ Members = {c \in Clients : cpc[c] # "none"}
      /\ Members' = {c \in Clients : cpc'[c] # "none"}
  <2>1. Members = {c \in Clients : cpc[c] # "none"}
        BY MembersAreChildren
  <2>2. Members' = {c \in Clients : cpc'[c] # "none"}
        BY DEF IInv, UserTable, Members
  <2> QED BY <2>1, <2>2
<1>2. ASSUME NEW c \in Clients, Fork(c) PROVE Table!Admit(c)
  <2>1. /\ pbatch # {} /\ g_user_count < USER_LIMIT /\ UNCHANGED exited
        /\ c \in backlog /\ cpc' = [cpc EXCEPT ![c] = "forked"]
        BY <1>2 DEF Fork, Handling, RoomLeft
  <2>2. ~exited /\ cpc[c] = "none"
        BY <2>1 DEF LastRound, IInv, BacklogIsFree
  <2>3. c \notin Members
        BY <1>1, <2>2
  <2>4. Members' = Members \cup {c}
        BY <1>0, <1>1, <2>1
  <2>5. dead' = dead
    <3>1. \A d \in Clients : cpc'[d] = "zombie" <=> cpc[d] = "zombie"
          BY <1>0, <2>1, <2>2
    <3> QED BY <3>1
  <2> QED BY <2>1, <2>2, <2>3, <2>4, <2>5, RoomForAnother, SameCardinality DEF Table!Admit
<1>3. ASSUME NEW c \in Clients, Reap(c) PROVE Table!Forget(c)
  <2>1. /\ signals # <<>> /\ UNCHANGED exited
        /\ cpc[c] = "zombie" /\ cpc' = [cpc EXCEPT ![c] = "none"]
        BY <1>3 DEF Reap, NextSignal
  <2>2. ~exited
        BY <2>1 DEF LastRound
  <2>3. Members' = Members \ {c} /\ dead' = dead \ {c}
        BY <1>0, <1>1, <2>1
  <2> QED BY <2>1, <2>2, <2>3 DEF Table!Forget
<1>4. ASSUME NEW c \in Clients, ChildExit(c) PROVE Table!Die(c)
  <2>1. /\ UNCHANGED exited /\ cpc[c] = "loop" /\ cpc' = [cpc EXCEPT ![c] = "zombie"]
        BY <1>4 DEF ChildExit, AtHead
  <2>2. Members' = Members /\ dead' = dead \cup {c} /\ c \in Members \ dead
        BY <1>0, <1>1, <2>1
  <2> QED BY <2>1, <2>2 DEF Table!Die
<1>5. ASSUME NEW c \in Clients, Moves(c) PROVE UNCHANGED Table!vars
  <2>1. Members' = Members /\ dead' = dead /\ exited' = exited
        BY <1>1, <1>5, MovesKeepFate
  <2> QED BY <2>1 DEF Table!vars
<1>6. ASSUME Exit PROVE Table!Close
  <2>1. /\ ~exited /\ exited' = TRUE /\ stop_server /\ UNCHANGED <<tables, cpc>>
        BY <1>6 DEF Exit
  <2>2. Members' = Members /\ dead' = dead
        BY <1>1, <2>1
  <2>3. \A c \in Members \ dead : c \in Clients /\ Alive(c)
        BY <1>1 DEF Alive
  <2> QED BY <2>1, <2>2, <2>3, AtMostOneAlive, SameCardinality DEF Table!Close
<1>7. ASSUME Others, ~Exit PROVE UNCHANGED Table!vars
  <2>1. UNCHANGED <<tables, cpc>>
        BY <1>7, OthersKeepChildren
  <2>2. UNCHANGED exited
        BY <1>7 DEF Others, Environment, Connect, ClientSend, ClientLeave, Interrupt,
           Deliver, sig_handler, EpollWait, ReapDone, KillAll, AcceptFails,
           ReadSignals, TooManyUsers, ForkFails, Refuse, Relay
  <2> QED BY <1>1, <2>1, <2>2 DEF Table!vars
<1>8. CASE UNCHANGED vars
      BY <1>1, <1>8 DEF vars, Table!vars
<1> QED BY <1>2, <1>3, <1>4, <1>5, <1>6, <1>7, <1>8, StepKinds DEF Table!Next

LEMMA InitRefines == Init => Table!Init
BY DEF Init, Table!Init, Members

\* The swap-removed array with its pid map implements a set of children, each
\* admitted while there is room and forgotten once, after its death.
THEOREM Refinement == Spec => ImplementsMembership
BY InitRefines, StepRefines, AllInvariants, PTL DEF Spec, ImplementsMembership, Table!Spec

=============================================================================
