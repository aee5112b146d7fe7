----------------------------- MODULE ServerProofs -----------------------------
(***************************************************************************)
(* Theorems about the servers put together in MCServers, of any size: the  *)
(* reactor's table, the one-shot connections that are seen to, and         *)
(* the users of the poll chat room.                                        *)
(***************************************************************************)
EXTENDS MCServers, SequenceTheorems, WellFoundedInduction, TLAPS

Sized == /\ MAX_EVENTS \in Nat \ {0}
         /\ MAX_BUF_LEN \in Nat /\ IDLE \in Nat
         /\ None \notin Fd3

Report == [slot : Loop!Slots, events : {"IN", "OUT"}]

Types ==
    /\ g_events \in [Loop!Slots -> Loop!Event] /\ checkpos \in 0 .. MAX_EVENTS
    /\ epoll \in [Fd3 -> SUBSET Report]
    /\ r_open \subseteq Fd3 /\ stranded \subseteq r_open
    /\ silent \in [Fd3 -> 0 .. IDLE]

\* An entry in use, and what the kernel has been told about it.
InUse(s) ==
    LET e == g_events[s] IN
    /\ e.fd \in r_open
    /\ e.events = IF e.call_back = "SendData" THEN {"OUT"} ELSE {"IN"}
    /\ epoll[e.fd] = {[slot |-> s, events |-> m] : m \in e.events}
    /\ e.idle = silent[e.fd]

\* Nobody is both served and turned away, nothing is reported outside a round,
\* and a closed descriptor has no history.
TableInv ==
    /\ Types
    /\ \A s \in Loop!Slots : g_events[s].status = 1 => InUse(s)
    /\ \A fd \in Fd3 : \A r \in epoll[fd] : g_events[r.slot].status = 1 /\ g_events[r.slot].fd = fd
    /\ \A r \in r_batch \ {Loop!Listen} : \E fd \in r_open : r \in epoll[fd]
    /\ \A fd \in r_open : fd \in stranded <=> epoll[fd] = {}
    /\ \A fd \in Fd3 \ r_open : epoll[fd] = {} /\ silent[fd] = 0
    /\ r_phase # "events" => r_batch = {}

LEMMA Sizes == ASSUME Sized
               PROVE  /\ Loop!Slots \subseteq Nat /\ 0 \in Loop!Slots /\ MAX_EVENTS \notin Loop!Slots
                      /\ 0 \in 0 .. IDLE /\ 0 \in 0 .. MAX_BUF_LEN
                      /\ \A a \in 0 .. IDLE : Loop!Older(a) \in 0 .. IDLE
                      /\ \A c \in 0 .. MAX_EVENTS : c # MAX_EVENTS => c \in Loop!Slots
BY DEF Sized, Loop!Slots, Loop!Older

LEMMA NotListen == ASSUME Sized, NEW s \in Loop!Slots, NEW mask
                   PROVE  [slot |-> s, events |-> mask] # Loop!Listen
<1>1. MAX_EVENTS \notin Loop!Slots
      BY Sizes
<1> QED BY <1>1 DEF Loop!Listen

LEMMA UnusedIsEvent == ASSUME Sized PROVE Loop!Unused \in Loop!Event
BY Sizes DEF Loop!Unused, Loop!Event

LEMMA TableInit == ASSUME Sized, Loop!Init PROVE TableInv
<1>1. Types
      BY Sizes, UnusedIsEvent DEF Sized, Loop!Init, Types
<1> QED BY <1>1 DEF Loop!Init, TableInv, Loop!Unused

-----------------------------------------------------------------------------
(* What the two ways to change an entry do.                                *)

\* The entry's own connection, and no other, is what the kernel reports for it.
LEMMA OneEach ==
    ASSUME Sized, TableInv, NEW s \in Loop!Slots, g_events[s].status = 1
    PROVE  /\ g_events[s] \in Loop!Event /\ g_events[s].fd \in r_open /\ g_events[s].fd \in Fd3
           /\ g_events[s].fd \notin stranded
           /\ \A u \in Loop!Slots : g_events[u].status = 1 /\ g_events[u].fd = g_events[s].fd => u = s
           /\ \A fd \in Fd3 : \A r \in epoll[fd] : r.slot = s => fd = g_events[s].fd
<1> DEFINE e == g_events[s]
<1>1. InUse(s) /\ e \in Loop!Event /\ e.fd \in Fd3
      BY DEF TableInv, Types, InUse
<1>2. PICK m \in {"IN", "OUT"} : epoll[e.fd] = {[slot |-> s, events |-> m]}
      BY <1>1 DEF InUse
<1>3. ASSUME NEW u \in Loop!Slots, g_events[u].status = 1, g_events[u].fd = e.fd PROVE u = s
  <2>1. InUse(u)
        BY <1>3 DEF TableInv
  <2>2. PICK k \in {"IN", "OUT"} : epoll[e.fd] = {[slot |-> u, events |-> k]}
        BY <1>3, <2>1 DEF InUse
  <2>3. [slot |-> u, events |-> k] = [slot |-> s, events |-> m]
        BY <1>2, <2>2
  <2> QED BY <2>3
<1>4. \A fd \in Fd3 : \A r \in epoll[fd] : r.slot = s => fd = e.fd
      BY DEF TableInv
<1>5. e.fd \notin stranded
      BY <1>1, <1>2 DEF TableInv, InUse
<1> QED BY <1>1, <1>3, <1>4, <1>5 DEF InUse

\* A report that waits and the entry it is for.
LEMMA Reported ==
    ASSUME Sized, TableInv, NEW s \in Loop!Slots, NEW mask, [slot |-> s, events |-> mask] \in r_batch
    PROVE  /\ g_events[s].status = 1
           /\ \A r \in r_batch : r.slot = s => r = [slot |-> s, events |-> mask]
<1>1. ASSUME NEW r \in r_batch, r.slot = s
      PROVE  /\ g_events[s].status = 1 /\ r \in Report
             /\ epoll[g_events[s].fd] = {[slot |-> s, events |-> r.events]}
  <2>1. r # Loop!Listen
        BY <1>1, Sizes DEF Loop!Listen
  <2>2. PICK fd \in r_open : r \in epoll[fd]
        BY <1>1, <2>1 DEF TableInv
  <2>3. fd \in Fd3 /\ r \in Report
        BY <2>2 DEF TableInv, Types
  <2>4. g_events[s].status = 1 /\ g_events[s].fd = fd
        BY <1>1, <2>2, <2>3 DEF TableInv
  <2>5. InUse(s)
        BY <2>4 DEF TableInv
  <2>6. PICK m \in {"IN", "OUT"} : epoll[fd] = {[slot |-> s, events |-> m]}
        BY <2>4, <2>5 DEF InUse
  <2>7. r = [slot |-> s, events |-> m]
        BY <2>2, <2>6
  <2> QED BY <2>3, <2>4, <2>6, <2>7
<1> DEFINE b == [slot |-> s, events |-> mask]
<1>2. b.slot = s /\ b.events = mask
      OBVIOUS
<1>3. g_events[s].status = 1 /\ epoll[g_events[s].fd] = {[slot |-> s, events |-> mask]}
      BY <1>1, <1>2
<1>4. ASSUME NEW r \in r_batch, r.slot = s PROVE r = b
  <2>1. r \in Report /\ epoll[g_events[s].fd] = {[slot |-> s, events |-> r.events]}
        BY <1>1, <1>4
  <2>2. [slot |-> s, events |-> r.events] = b
        BY <1>3, <2>1
  <2>3. r = [slot |-> r.slot, events |-> r.events]
        BY <2>1 DEF Report
  <2> QED BY <1>4, <2>2, <2>3
<1> QED BY <1>3, <1>4

LEMMA CloseKeeps ==
    ASSUME Sized, TableInv, NEW s \in Loop!Slots, g_events[s].status = 1,
           Loop!Release(s), Loop!Close(g_events[s].fd),
           r_batch' \subseteq r_batch, \A r \in r_batch' : r.slot # s,
           r_phase' # "events" => r_batch' = {}, checkpos' \in 0 .. MAX_EVENTS
    PROVE  TableInv'
<1> DEFINE f == g_events[s].fd
<1>1. /\ g_events' = [g_events EXCEPT ![s] = Loop!Unused] /\ epoll' = [epoll EXCEPT ![f] = {}]
      /\ r_open' = r_open \ {f} /\ silent' = [silent EXCEPT ![f] = 0] /\ stranded' = stranded
      BY DEF Loop!Release, Loop!Close
<1>2. /\ f \in r_open /\ f \in Fd3 /\ f \notin stranded
      /\ \A u \in Loop!Slots : g_events[u].status = 1 /\ g_events[u].fd = f => u = s
      /\ \A fd \in Fd3 : \A r \in epoll[fd] : r.slot = s => fd = f
      BY OneEach
<1> HIDE DEF f
<1>3. Types
      BY DEF TableInv
<1>4. Types'
  <2>1. g_events' \in [Loop!Slots -> Loop!Event]
        BY <1>1, <1>3, UnusedIsEvent DEF Types
  <2>2. silent' \in [Fd3 -> 0 .. IDLE]
        BY <1>1, <1>3, Sizes DEF Types
  <2> QED BY <1>1, <1>2, <1>3, <2>1, <2>2 DEF Types
<1>5. ASSUME NEW u \in Loop!Slots, g_events'[u].status = 1 PROVE InUse(u)'
  <2>1. u # s /\ g_events'[u] = g_events[u]
        BY <1>1, <1>3, <1>5 DEF Types, Loop!Unused
  <2>2. InUse(u) /\ g_events[u].fd # f
        BY <1>2, <1>5, <2>1 DEF TableInv
  <2>3. g_events[u].fd \in Fd3
        BY <1>3, <2>2 DEF InUse, Types
  <2> QED BY <1>1, <1>3, <2>1, <2>2, <2>3 DEF InUse, Types
<1>6. ASSUME NEW fd \in Fd3, NEW r \in epoll'[fd]
      PROVE  g_events'[r.slot].status = 1 /\ g_events'[r.slot].fd = fd
  <2>1. fd # f /\ r \in epoll[fd] /\ r.slot \in Loop!Slots
        BY <1>1, <1>2, <1>3, <1>6 DEF Types, Report
  <2>2. r.slot # s
        BY <1>2, <2>1
  <2> QED BY <1>1, <1>3, <2>1, <2>2 DEF TableInv, Types
<1>7. ASSUME NEW r \in r_batch' \ {Loop!Listen} PROVE \E fd \in r_open' : r \in epoll'[fd]
  <2>1. PICK fd \in r_open : r \in epoll[fd]
        BY <1>7 DEF TableInv
  <2>2. fd \in Fd3 /\ r.slot \in Loop!Slots /\ g_events[r.slot].fd = fd /\ g_events[r.slot].status = 1
        BY <1>3, <2>1 DEF TableInv, Types, Report
  <2>3. fd # f
        BY <1>2, <2>2
  <2> QED BY <1>1, <1>3, <2>1, <2>2, <2>3 DEF Types
<1>8. \A fd \in r_open' : fd \in stranded' <=> epoll'[fd] = {}
      BY <1>1, <1>3 DEF TableInv, Types
<1>9. \A fd \in Fd3 \ r_open' : epoll'[fd] = {} /\ silent'[fd] = 0
      BY <1>1, <1>3 DEF TableInv, Types
<1> QED BY <1>4, <1>5, <1>6, <1>7, <1>8, <1>9 DEF TableInv

LEMMA SwitchKeeps ==
    ASSUME Sized, TableInv, NEW s \in Loop!Slots, NEW e \in Loop!Event, NEW fd \in Fd3, NEW cb, NEW mask,
           \/ cb = "RecvData" /\ mask = "IN"
           \/ cb = "SendData" /\ mask = "OUT",
           Loop!Switch(s, e, fd, cb, mask),
           \/ g_events[s].status = 1 /\ g_events[s].fd = fd
           \/ g_events[s].status # 1 /\ fd \notin r_open,
           r_open' = r_open \cup {fd}, stranded' = stranded, silent' = [silent EXCEPT ![fd] = 0],
           r_phase' = r_phase, checkpos' = checkpos,
           r_batch' \subseteq r_batch, \A r \in r_batch' : r.slot # s, r_phase = "events"
    PROVE  TableInv'
<1> DEFINE new == [slot |-> s, events |-> mask]
           n == Loop!AddEvent(Loop!SetEvent(e, fd, cb), mask)
<1>1. g_events' = [g_events EXCEPT ![s] = n] /\ epoll' = [epoll EXCEPT ![fd] = {new}]
      BY DEF Loop!Switch
<1>2. /\ n \in Loop!Event /\ n.fd = fd /\ n.status = 1 /\ n.call_back = cb
      /\ n.events = {mask} /\ n.idle = 0
      BY Sizes DEF Loop!Event, Loop!AddEvent, Loop!SetEvent
<1>3. new \in Report /\ new.slot = s
      BY DEF Report
<1> HIDE DEF new, n
<1>4. Types
      BY DEF TableInv
<1>5. fd \notin stranded
      BY <1>4, OneEach DEF Types
<1>6. \A u \in Loop!Slots : g_events[u].status = 1 /\ u # s => g_events[u].fd # fd
  <2>1. CASE g_events[s].status = 1 /\ g_events[s].fd = fd
        BY <2>1, OneEach
  <2>2. CASE fd \notin r_open
        BY <2>2 DEF TableInv, InUse
  <2> QED BY <2>1, <2>2
<1>7. \A f \in Fd3 : \A r \in epoll[f] : r.slot = s => f = fd
      BY OneEach DEF TableInv
<1>8. Types'
  <2>1. silent' \in [Fd3 -> 0 .. IDLE]
        BY <1>4, Sizes DEF Types
  <2>2. epoll' \in [Fd3 -> SUBSET Report]
        BY <1>1, <1>3, <1>4 DEF Types
  <2> QED BY <1>1, <1>2, <1>4, <2>1, <2>2 DEF Types
<1>9. ASSUME NEW u \in Loop!Slots, g_events'[u].status = 1 PROVE InUse(u)'
  <2>1. CASE u = s
    <3>1. g_events'[u] = n /\ epoll'[fd] = {new} /\ silent'[fd] = 0
          BY <1>1, <1>4, <2>1 DEF Types
    <3>2. {new} = {[slot |-> u, events |-> m] : m \in {mask}}
          BY <2>1 DEF new
    <3> QED BY <1>2, <3>1, <3>2 DEF InUse
  <2>2. CASE u # s
    <3>1. g_events'[u] = g_events[u] /\ InUse(u) /\ g_events[u].fd # fd
          BY <1>1, <1>4, <1>6, <1>9, <2>2 DEF TableInv, Types
    <3>2. g_events[u].fd \in Fd3
          BY <1>4, <3>1 DEF InUse, Types
    <3> QED BY <1>1, <1>4, <3>1, <3>2 DEF InUse, Types
  <2> QED BY <2>1, <2>2
<1>10. ASSUME NEW f \in Fd3, NEW r \in epoll'[f]
       PROVE  g_events'[r.slot].status = 1 /\ g_events'[r.slot].fd = f
  <2>1. CASE f = fd
        BY <1>1, <1>2, <1>3, <1>4, <1>10, <2>1 DEF Types
  <2>2. CASE f # fd
    <3>1. r \in epoll[f] /\ r.slot \in Loop!Slots /\ r.slot # s
          BY <1>1, <1>4, <1>7, <1>10, <2>2 DEF Types, Report
    <3> QED BY <1>1, <1>4, <3>1 DEF TableInv, Types
  <2> QED BY <2>1, <2>2
<1>11. ASSUME NEW r \in r_batch' \ {Loop!Listen} PROVE \E f \in r_open' : r \in epoll'[f]
  <2>1. PICK f \in r_open : r \in epoll[f]
        BY <1>11 DEF TableInv
  <2>2. f \in Fd3 /\ r.slot \in Loop!Slots /\ g_events[r.slot].fd = f /\ g_events[r.slot].status = 1
        BY <1>4, <2>1 DEF TableInv, Types, Report
  <2>3. f # fd
        BY <1>6, <1>11, <2>2
  <2> QED BY <1>1, <1>4, <2>1, <2>2, <2>3 DEF Types
<1>12. \A f \in r_open' : f \in stranded' <=> epoll'[f] = {}
       BY <1>1, <1>4, <1>5 DEF TableInv, Types
<1>13. \A f \in Fd3 \ r_open' : epoll'[f] = {} /\ silent'[f] = 0
       BY <1>1, <1>4 DEF TableInv, Types
<1> QED BY <1>8, <1>9, <1>10, <1>11, <1>12, <1>13 DEF TableInv

-----------------------------------------------------------------------------
(* The actions.                                                            *)

\* Time passes for a connection in use and for its entry alike.
LEMMA ClockKeeps == ASSUME Sized, TableInv, Loop!Clock PROVE TableInv'
<1>1. /\ UNCHANGED <<checkpos, epoll, r_phase, r_batch, r_open, stranded>>
      /\ silent' = [fd \in Fd3 |-> IF fd \in Loop!Known THEN Loop!Older(silent[fd]) ELSE 0]
      /\ g_events' = [s \in Loop!Slots |-> IF g_events[s].status = 1
                                      THEN [g_events[s] EXCEPT !.idle = Loop!Older(@)] ELSE g_events[s]]
      BY DEF Loop!Clock, Loop!sockets
<1>2. Types
      BY DEF TableInv
<1>3. ASSUME NEW s \in Loop!Slots
      PROVE  /\ g_events'[s] \in Loop!Event /\ g_events'[s].status = g_events[s].status
             /\ g_events'[s].fd = g_events[s].fd /\ g_events'[s].events = g_events[s].events
             /\ g_events'[s].call_back = g_events[s].call_back
             /\ g_events[s].status = 1 => g_events'[s].idle = Loop!Older(g_events[s].idle)
  <2>1. g_events[s] \in Loop!Event
        BY <1>2 DEF Types
  <2>2. Loop!Older(g_events[s].idle) \in 0 .. IDLE
        BY <2>1, Sizes DEF Loop!Event
  <2>3. g_events'[s] = IF g_events[s].status = 1
                         THEN [g_events[s] EXCEPT !.idle = Loop!Older(@)] ELSE g_events[s]
        BY <1>1
  <2> HIDE DEF Loop!Older
  <2> QED BY <2>1, <2>2, <2>3 DEF Loop!Event
<1>4. silent' \in [Fd3 -> 0 .. IDLE]
  <2>1. \A fd \in Fd3 : Loop!Older(silent[fd]) \in 0 .. IDLE
        BY <1>2, Sizes DEF Types
  <2> QED BY <1>1, <2>1, Sizes
<1>5. Types'
  <2>1. DOMAIN g_events' = Loop!Slots /\ g_events' = [s \in Loop!Slots |-> g_events'[s]]
        BY <1>1
  <2>2. g_events' \in [Loop!Slots -> Loop!Event]
        BY <1>3, <2>1
  <2> QED BY <1>1, <1>2, <1>4, <2>2 DEF Types
<1>6. ASSUME NEW s \in Loop!Slots, g_events'[s].status = 1 PROVE InUse(s)'
  <2>1. g_events[s].status = 1 /\ InUse(s) /\ g_events[s].fd \in Fd3 \cap Loop!Known
        BY <1>3, <1>6, OneEach DEF TableInv, Loop!Known
  <2>2. silent'[g_events[s].fd] = Loop!Older(silent[g_events[s].fd])
        BY <1>1, <2>1
  <2>3. g_events'[s].idle = silent'[g_events'[s].fd]
        BY <1>3, <2>1, <2>2 DEF InUse
  <2> QED BY <1>1, <1>3, <2>1, <2>3 DEF InUse
<1>7. \A fd \in Fd3 : \A r \in epoll'[fd] :
          g_events'[r.slot].status = 1 /\ g_events'[r.slot].fd = fd
  <2>1. \A fd \in Fd3 : \A r \in epoll[fd] : r.slot \in Loop!Slots
        BY <1>2 DEF Types, Report
  <2> QED BY <1>1, <1>3, <2>1 DEF TableInv
<1>8. \A fd \in Fd3 \ r_open' : epoll'[fd] = {} /\ silent'[fd] = 0
      BY <1>1 DEF TableInv, Loop!Known
<1> QED BY <1>1, <1>5, <1>6, <1>7, <1>8 DEF TableInv

\* What a client does, and the steps of the loop that touch no connection.
LEMMA QuietKeeps ==
    ASSUME Sized, TableInv, UNCHANGED <<g_events, epoll, r_open, stranded, silent>>,
           checkpos' \in 0 .. MAX_EVENTS,
           \A r \in r_batch' \ {Loop!Listen} : \E fd \in r_open : r \in epoll[fd],
           r_phase' # "events" => r_batch' = {}
    PROVE  TableInv'
<1>1. Types'
      BY DEF TableInv, Types
<1>2. \A s \in Loop!Slots : InUse(s)' <=> InUse(s)
      BY DEF InUse
<1> QED BY <1>1, <1>2 DEF TableInv

LEMMA ClientsKeep ==
    ASSUME Sized, TableInv, Loop!Connect \/ \E fd \in Fd3 : Loop!PeerSend(fd) \/ Loop!PeerClose(fd)
    PROVE  TableInv'
<1>1. UNCHANGED <<g_events, epoll, r_open, stranded, silent, checkpos, r_phase, r_batch>>
      BY DEF Loop!Connect, Loop!PeerSend, Loop!PeerClose, Loop!history
<1> QED BY <1>1, QuietKeeps DEF TableInv, Types

LEMMA SweepKeeps == ASSUME Sized, TableInv, Loop!Sweep PROVE TableInv'
<1>1. /\ r_batch = {} /\ r_batch' = {} /\ Loop!Tested \in Loop!Slots
      /\ checkpos' \in 0 .. MAX_EVENTS
  <2>1. Loop!Tested \in Loop!Slots
        BY Sizes DEF TableInv, Types, Loop!Tested
  <2> QED BY <2>1 DEF Loop!Sweep, TableInv, Loop!Slots, Sized
<1>2. CASE Loop!TooOld(g_events[Loop!Tested]) /\ Loop!Release(Loop!Tested) /\ Loop!Close(g_events[Loop!Tested].fd)
      BY <1>1, <1>2, CloseKeeps DEF Loop!TooOld
<1>3. CASE UNCHANGED <<g_events, epoll, r_open, Loop!sockets, Loop!history>>
      BY <1>1, <1>3, QuietKeeps DEF TableInv, Types, Loop!sockets, Loop!history
<1> QED BY <1>2, <1>3 DEF Loop!Sweep

LEMMA WaitKeeps == ASSUME Sized, TableInv, Loop!EpollWait PROVE TableInv'
<1>1. \A r \in Loop!Ready \ {Loop!Listen} : \E fd \in r_open : r \in epoll[fd]
  <2>1. \A r \in Loop!Ready \ {Loop!Listen} : \E fd \in Fd3 : r \in epoll[fd]
        BY DEF Loop!Ready
  <2>2. \A fd \in Fd3 : epoll[fd] # {} => fd \in r_open
        BY DEF TableInv
  <2> QED BY <2>1, <2>2
<1> QED BY <1>1, QuietKeeps DEF Loop!EpollWait, Loop!sockets, Loop!history, TableInv, Types

LEMMA RoundKeeps == ASSUME Sized, TableInv, Loop!RoundEnds \/ Loop!AcceptFails PROVE TableInv'
<1>1. r_batch' \subseteq r_batch /\ (r_phase' # "events" => r_batch' = {})
      BY DEF Loop!RoundEnds, Loop!AcceptFails, Loop!Handling
<1> QED BY <1>1, QuietKeeps DEF Loop!RoundEnds, Loop!AcceptFails, Loop!Handling, Loop!sockets, Loop!history, TableInv, Types

LEMMA Smallest == ASSUME NEW S \in SUBSET Nat, S # {} PROVE \E x \in S : \A y \in S : x <= y
<1>1. \E x \in S : \A y \in S : <<y, x>> \notin OpToRel(<, Nat)
      BY NatLessThanWellFounded, WFMin
<1>2. \E x \in S : \A y \in S : ~(y < x)
      BY <1>1 DEF OpToRel
<1> QED BY <1>2

\* The first free entry exists, and it is free.
LEMMA FirstFree == ASSUME Sized, Loop!Free # {} PROVE Loop!First \in Loop!Free
<1>1. Loop!Free \in SUBSET Nat
      BY Sizes DEF Loop!Free
<1>2. \E s \in Loop!Free : \A u \in Loop!Free : s <= u
      BY <1>1, Smallest
<1> QED BY <1>2, Zenon DEF Loop!First

LEMMA AcceptKeeps == ASSUME Sized, TableInv, NEW fd \in Fd3, Loop!Accept(fd) PROVE TableInv'
<1>1. /\ fd \notin r_open /\ r_open' = r_open \cup {fd} /\ UNCHANGED <<silent, r_phase, checkpos>>
      /\ r_phase = "events" /\ r_batch' = r_batch \ {Loop!Listen}
      BY DEF Loop!Accept, Loop!Handling
<1>2. Types /\ silent[fd] = 0 /\ epoll[fd] = {}
      BY <1>1 DEF TableInv
<1>3. CASE Loop!Free = {}
  <2>1. stranded' = stranded \cup {fd} /\ UNCHANGED <<g_events, epoll>>
        BY <1>3 DEF Loop!Accept
  <2>2. Types'
        BY <1>1, <1>2, <2>1 DEF Types
  <2>3. \A s \in Loop!Slots : InUse(s) => InUse(s)'
        BY <1>1, <2>1 DEF InUse
  <2>4. \A r \in r_batch' \ {Loop!Listen} : \E f \in r_open' : r \in epoll'[f]
        BY <1>1, <2>1 DEF TableInv
  <2>5. \A f \in r_open' : f \in stranded' <=> epoll'[f] = {}
        BY <1>1, <1>2, <2>1 DEF TableInv
  <2> QED BY <1>1, <2>1, <2>2, <2>3, <2>4, <2>5 DEF TableInv
<1>4. CASE Loop!Free # {}
  <2>1. /\ Loop!First \in Loop!Slots /\ g_events[Loop!First].status # 1
        /\ g_events[Loop!First] \in Loop!Event /\ stranded' = stranded
        /\ Loop!Switch(Loop!First, g_events[Loop!First], fd, "RecvData", "IN")
        BY <1>2, <1>4, FirstFree DEF Loop!Free, Loop!Accept, Types
  <2>2. silent' = [silent EXCEPT ![fd] = 0]
        BY <1>1, <1>2 DEF Types
  <2>3. \A r \in r_batch' : r.slot # Loop!First
    <3> SUFFICES ASSUME NEW r \in r_batch', r.slot = Loop!First PROVE FALSE
        OBVIOUS
    <3>1. PICK f \in r_open : r \in epoll[f]
          BY <1>1 DEF TableInv
    <3> QED BY <1>2, <2>1, <3>1 DEF TableInv, Types
  <2> QED BY <1>1, <2>1, <2>2, <2>3, SwitchKeeps
<1> QED BY <1>3, <1>4

\* An event that reaches its callback is that of the connection the entry holds.
LEMMA Dispatched ==
    ASSUME Sized, TableInv, NEW s \in Loop!Slots, NEW mask, NEW cb, Loop!Dispatch(s, mask, cb)
    PROVE  /\ g_events[s].status = 1 /\ g_events[s] \in Loop!Event
           /\ g_events[s].fd \in Fd3 /\ g_events[s].fd \in r_open
           /\ UNCHANGED <<r_phase, checkpos>> /\ r_phase = "events"
           /\ r_batch' \subseteq r_batch /\ \A r \in r_batch' : r.slot # s
           /\ checkpos \in 0 .. MAX_EVENTS
<1>1. /\ [slot |-> s, events |-> mask] \in r_batch /\ r_phase = "events"
      /\ r_batch' = r_batch \ {[slot |-> s, events |-> mask]} /\ UNCHANGED <<r_phase, checkpos>>
      BY DEF Loop!Dispatch, Loop!Handling
<1>2. /\ g_events[s].status = 1
      /\ \A r \in r_batch : r.slot = s => r = [slot |-> s, events |-> mask]
      BY <1>1, Reported
<1> QED BY <1>1, <1>2, OneEach DEF TableInv, Types

LEMMA CallbacksKeep ==
    ASSUME Sized, TableInv, NEW s \in Loop!Slots,
           Loop!RecvData(s) \/ Loop!RecvEnd(s) \/ Loop!SendData(s) \/ Loop!SendFails(s)
    PROVE  TableInv'
<1> DEFINE e == g_events[s]
<1>1. CASE Loop!RecvData(s)
  <2>1. Loop!Dispatch(s, "IN", "RecvData") /\ silent' = [silent EXCEPT ![e.fd] = 0]
        /\ UNCHANGED <<r_open, stranded>>
        BY <1>1 DEF Loop!RecvData
  <2>2. PICK len \in 1 .. MAX_BUF_LEN : \E l \in Loop!LenAfter(len) :
            Loop!Switch(s, [Loop!DelEvent(e) EXCEPT !.len = l], e.fd, "SendData", "OUT")
        BY <1>1 DEF Loop!RecvData
  <2>3. PICK l \in Loop!LenAfter(len) :
            Loop!Switch(s, [Loop!DelEvent(e) EXCEPT !.len = l], e.fd, "SendData", "OUT")
        BY <2>2
  <2>4. l \in 0 .. MAX_BUF_LEN
        BY <2>3, Sizes DEF Loop!LenAfter, Sized
  <2>5. e \in Loop!Event /\ e.fd \in Fd3 /\ r_open' = r_open \cup {e.fd}
        BY <2>1, Dispatched
  <2>6. [Loop!DelEvent(e) EXCEPT !.len = l] \in Loop!Event
        BY <2>4, <2>5 DEF Loop!DelEvent, Loop!Event
  <2> QED BY <2>1, <2>3, <2>5, <2>6, Dispatched, SwitchKeeps
<1>2. CASE Loop!SendData(s)
  <2>1. /\ Loop!Dispatch(s, "OUT", "SendData") /\ silent' = [silent EXCEPT ![e.fd] = 0]
        /\ UNCHANGED <<r_open, stranded>>
        /\ Loop!Switch(s, Loop!Sent(e), e.fd, "RecvData", "IN")
        BY <1>2 DEF Loop!SendData, Loop!sockets
  <2>2. e \in Loop!Event /\ e.fd \in Fd3 /\ r_open' = r_open \cup {e.fd}
        BY <2>1, Dispatched
  <2>3. Loop!Sent(e) \in Loop!Event
        BY <2>2, Sizes DEF Loop!Sent, Loop!DelEvent, Loop!Event
  <2> QED BY <2>1, <2>2, <2>3, Dispatched, SwitchKeeps
<1>3. CASE Loop!RecvEnd(s)
  <2>1. Loop!Dispatch(s, "IN", "RecvData") /\ Loop!Release(s) /\ Loop!Close(e.fd)
        BY <1>3 DEF Loop!RecvEnd
  <2> QED BY <2>1, Dispatched, CloseKeeps
<1>4. CASE Loop!SendFails(s)
  <2>1. Loop!Dispatch(s, "OUT", "SendData") /\ Loop!Release(s) /\ Loop!Close(e.fd)
        BY <1>4 DEF Loop!SendFails
  <2> QED BY <2>1, Dispatched, CloseKeeps
<1> QED BY <1>1, <1>2, <1>3, <1>4

\* The process ended by SIGPIPE holds nothing.
LEMMA KilledKeeps == ASSUME Sized, TableInv, Loop!Killed PROVE TableInv'
<1>1. /\ r_phase' = "killed" /\ r_batch' = {} /\ r_open' = {} /\ stranded' = {} /\ checkpos' = checkpos
      /\ g_events' = [s \in Loop!Slots |-> Loop!Unused]
      /\ epoll' = [fd \in Fd3 |-> {}] /\ silent' = [fd \in Fd3 |-> 0]
      BY DEF Loop!Killed
<1>2. Types'
      BY <1>1, Sizes, UnusedIsEvent DEF TableInv, Types
<1>3. \A s \in Loop!Slots : g_events'[s].status # 1
      BY <1>1 DEF Loop!Unused
<1> QED BY <1>1, <1>2, <1>3 DEF TableInv

LEMMA TableStep == ASSUME Sized, TableInv, [Loop!Next]_(Loop!vars) PROVE TableInv'
<1>1. CASE UNCHANGED Loop!vars
      BY <1>1, QuietKeeps DEF Loop!vars, Loop!sockets, Loop!history, TableInv, Types
<1>2. CASE Loop!Environment
      BY <1>2, ClockKeeps, ClientsKeep DEF Loop!Environment
<1>3. CASE Loop!main
      BY <1>3, SweepKeeps, WaitKeeps, RoundKeeps, AcceptKeeps, CallbacksKeep, KilledKeeps
         DEF Loop!main, Loop!SendKills
<1> QED BY <1>1, <1>2, <1>3 DEF Loop!Next

LEMMA InvConsistent == ASSUME Sized, TableInv PROVE Loop!TableConsistent
<1>1. \A fd \in Fd3 : \A r \in epoll[fd] : g_events[r.slot].status = 1 /\ g_events[r.slot].fd = fd
      BY DEF TableInv
<1>2. r_open = stranded \cup {fd \in Fd3 : epoll[fd] # {}}
      BY DEF TableInv, Types
<1> QED BY <1>1, <1>2 DEF TableInv, Types, Loop!TableConsistent, InUse

LEMMA LoopOfEach ==
    /\ EachInit => Loop!Init
    /\ [EachNext]_all => [Loop!Next]_(Loop!vars)
BY DEF EachInit, EachNext, all, reactor, Loop!vars, Loop!sockets, Loop!history

LEMMA LoopSized == Sized
BY ServersAssumption DEF ServersAssumption, Sized

LEMMA TableAlways == EachSpec => []TableInv
<1>1. EachInit => TableInv
      BY LoopOfEach, LoopSized, TableInit
<1>2. TableInv /\ [EachNext]_all => TableInv'
      BY LoopOfEach, LoopSized, TableStep
<1> QED BY <1>1, <1>2, PTL DEF EachSpec

-----------------------------------------------------------------------------
(* Hanging up.                                                             *)

Reason(fd) ==
    \/ r_peer[fd] # "up" \/ silent[fd] >= IDLE
    \/ \E s \in Loop!Slots : g_events[s].fd = fd /\ g_events[s].events = {"OUT"}
                                         /\ g_events[s].len = 0
    \/ r_phase' = "killed" /\ \E s \in Loop!Slots : /\ g_events[s].events = {"OUT"}
                                                 /\ r_peer[g_events[s].fd] = "pipe"

LEMMA ClosedWithReason ==
    ASSUME Sized, TableInv, [Loop!Next]_(Loop!vars), NEW fd \in r_open \ r_open' PROVE Reason(fd)
<1>1. CASE Loop!Sweep
  <2>1. Loop!TooOld(g_events[Loop!Tested]) /\ Loop!Close(g_events[Loop!Tested].fd) /\ Loop!Tested \in Loop!Slots
        BY <1>1, Sizes DEF Loop!Sweep, TableInv, Types, Loop!Tested
  <2>2. fd = g_events[Loop!Tested].fd /\ g_events[Loop!Tested].idle = silent[fd]
        BY <2>1 DEF Loop!Close, Loop!TooOld, TableInv, InUse
  <2> QED BY <2>1, <2>2 DEF Loop!TooOld, Reason
<1>2. ASSUME NEW s \in Loop!Slots, Loop!RecvEnd(s) PROVE Reason(fd)
      BY <1>2 DEF Loop!RecvEnd, Loop!Close, Reason
<1>3. ASSUME NEW s \in Loop!Slots, Loop!SendFails(s) PROVE Reason(fd)
  <2>1. /\ fd = g_events[s].fd /\ "OUT" \in g_events[s].events
        /\ g_events[s].len = 0 \/ r_peer[fd] # "up"
        BY <1>3 DEF Loop!SendFails, Loop!Close, Loop!Dispatch, Loop!Awaited
  <2>2. g_events[s].status = 1
        BY <1>3, Dispatched DEF Loop!SendFails
  <2>3. g_events[s].events = {"OUT"}
        BY <2>1, <2>2 DEF TableInv, InUse
  <2> QED BY <2>1, <2>3 DEF Reason
<1>4. ASSUME NEW s \in Loop!Slots, Loop!RecvData(s) \/ Loop!SendData(s) PROVE FALSE
      BY <1>4 DEF Loop!RecvData, Loop!SendData
<1>5. ASSUME NEW f \in Fd3, Loop!Accept(f) PROVE FALSE
      BY <1>5 DEF Loop!Accept
<1>6. CASE \/ Loop!Environment \/ Loop!EpollWait \/ Loop!RoundEnds \/ Loop!AcceptFails \/ UNCHANGED Loop!vars
      BY <1>6 DEF Loop!Environment, Loop!Connect, Loop!Clock, Loop!PeerSend, Loop!PeerClose, Loop!EpollWait, Loop!RoundEnds,
                  Loop!AcceptFails, Loop!vars
<1>7. ASSUME NEW s \in Loop!Slots, Loop!SendKills(s) PROVE Reason(fd)
  <2>1. /\ [slot |-> s, events |-> "OUT"] \in r_batch /\ "OUT" \in g_events[s].events
        /\ r_peer[g_events[s].fd] = "pipe" /\ r_phase' = "killed"
        BY <1>7 DEF Loop!SendKills, Loop!Awaited, Loop!Killed
  <2>2. g_events[s].status = 1
        BY <2>1, Reported
  <2>3. g_events[s].events = {"OUT"}
        BY <2>1, <2>2 DEF TableInv, InUse
  <2> QED BY <2>1, <2>3 DEF Reason
<1> QED BY <1>1, <1>2, <1>3, <1>4, <1>5, <1>6, <1>7 DEF Loop!Next, Loop!main

\* No client is hung up on that has neither hung up, nor been unserved for
\* IDLE, nor filled the buffer, unless a send to one that has reset its connection
\* after its end kills the server: an entry given up and taken again does not
\* bring its old age along.
THEOREM ReactorPatient == EachSpec => HangsUpForAReason
<1>1. TableInv /\ [EachNext]_all => [\A fd \in r_open \ r_open' : Reason(fd)]_(Loop!vars)
      BY LoopOfEach, LoopSized, ClosedWithReason
<1> QED BY <1>1, TableAlways, PTL DEF EachSpec, HangsUpForAReason, Loop!HangsUpForAReason, Reason

-----------------------------------------------------------------------------
(* epolloneshot.cc.                                                        *)

\* Who sees to a connection.
Seen(fd) == \/ fd \in armed \/ fd \in o_batch
            \/ fds_for_new_worker = fd /\ Oneshot!Unread
            \/ \E w \in Thread : sockfd[w] = fd

\* Epoll has noticed what there is to read of the connections it has, and every one
\* that is not epoll's, nor lost, is main's or a thread's.
OneshotInv ==
    /\ Oneshot!TypeOK
    /\ \A w \in Thread : sockfd[w] # None <=> o_at[w] \in {"recv", "reset"}
    /\ Oneshot!Unread => fds_for_new_worker \in Fd1
    /\ o_phase = "wait" => o_batch = {}
    /\ \A fd \in armed : Oneshot!Readable(fd) => fd \in o_ready
    /\ \A fd \in o_open \ lost : Seen(fd)
    /\ \A fd \in Fd1 \ o_open : ~ o_fin[fd]

LEMMA OneshotConstants == InboxOf1 \in Nat /\ None \notin Fd1 /\ "listen" \notin Fd1
BY ServersAssumption DEF ServersAssumption

LEMMA OneshotInit == Oneshot!Init => OneshotInv
BY OneshotConstants DEF Oneshot!Init, OneshotInv, Oneshot!TypeOK, Oneshot!Unread

LEMMA OneshotPeers ==
    ASSUME OneshotInv,
           Oneshot!Connect \/ \E fd \in Fd1 : Oneshot!PeerSend(fd) \/ Oneshot!PeerClose(fd)
    PROVE  OneshotInv'
<1>1. /\ UNCHANGED <<o_phase, o_batch, fds_for_new_worker, o_at, sockfd, o_open, armed, lost>>
      /\ o_ready \subseteq o_ready'
      BY DEF Oneshot!Connect, Oneshot!PeerSend, Oneshot!PeerClose, Oneshot!threads
<1>2. Oneshot!TypeOK'
  <2>1. o_backlog' \in Nat
        BY DEF OneshotInv, Oneshot!TypeOK, Oneshot!Connect, Oneshot!PeerSend, Oneshot!PeerClose
  <2>2. o_inbox' \in [Fd1 -> 0 .. InboxOf1]
        BY OneshotConstants DEF OneshotInv, Oneshot!TypeOK, Oneshot!Connect, Oneshot!PeerSend,
               Oneshot!PeerClose
  <2>3. o_fin' \in [Fd1 -> BOOLEAN] /\ o_ready' \subseteq Fd1 \cup {"listen"}
        BY DEF OneshotInv, Oneshot!TypeOK, Oneshot!Connect, Oneshot!PeerSend, Oneshot!PeerClose
  <2> QED BY <1>1, <2>1, <2>2, <2>3 DEF OneshotInv, Oneshot!TypeOK
<1>3. \A fd \in armed : Oneshot!Readable(fd)' => fd \in o_ready'
  <2>1. CASE Oneshot!Connect
        BY <2>1 DEF OneshotInv, Oneshot!Readable, Oneshot!Connect
  <2>2. ASSUME NEW f \in Fd1, Oneshot!PeerSend(f) \/ Oneshot!PeerClose(f), NEW fd \in armed,
               Oneshot!Readable(fd)'
        PROVE  fd \in o_ready'
    <3>1. o_ready' = o_ready \cup ({f} \cap armed) /\ fd \in Fd1
          BY <2>2 DEF Oneshot!PeerSend, Oneshot!PeerClose, OneshotInv, Oneshot!TypeOK
    <3>2. CASE fd # f
      <4>1. Oneshot!Readable(fd)
            BY <2>2, <3>1, <3>2 DEF Oneshot!Readable, Oneshot!PeerSend, Oneshot!PeerClose,
                                    OneshotInv, Oneshot!TypeOK
      <4> QED BY <3>1, <4>1 DEF OneshotInv
    <3> QED BY <3>1, <3>2
  <2> QED BY <2>1, <2>2
<1>4. \A fd \in Fd1 \ o_open : ~ o_fin'[fd]
      BY DEF OneshotInv, Oneshot!TypeOK, Oneshot!Connect, Oneshot!PeerSend, Oneshot!PeerClose
<1>5. (Oneshot!Unread' <=> Oneshot!Unread) /\ \A fd : Seen(fd) => Seen(fd)'
      BY <1>1 DEF Seen, Oneshot!Unread
<1> QED BY <1>1, <1>2, <1>3, <1>4, <1>5 DEF OneshotInv

\* What is reported is no longer armed, but in the batch.
LEMMA OneshotWaits == ASSUME OneshotInv, Oneshot!EpollWait \/ Oneshot!RoundEnds PROVE OneshotInv'
<1>1. CASE Oneshot!RoundEnds
      BY <1>1 DEF Oneshot!RoundEnds, OneshotInv, Oneshot!TypeOK, Oneshot!threads, Oneshot!sockets,
                  Seen, Oneshot!Unread, Oneshot!Readable
<1>2. CASE Oneshot!EpollWait
  <2> DEFINE reported == {fd \in o_ready \cap armed : Oneshot!Readable(fd)}
                           \cup {e \in o_ready : e = "listen" /\ o_backlog > 0}
  <2>1. /\ o_batch = {} /\ o_phase' = "events" /\ o_batch' = reported /\ o_ready' = {} /\ armed' = armed \ reported
        /\ UNCHANGED <<fds_for_new_worker, o_at, sockfd, o_open, o_backlog, o_inbox, o_fin, lost>>
        BY <1>2 DEF OneshotInv, Oneshot!EpollWait, Oneshot!threads, Oneshot!sockets
  <2>2. /\ reported \subseteq armed \cup {"listen"} /\ armed \subseteq o_open /\ o_open \subseteq Fd1
        BY DEF OneshotInv, Oneshot!TypeOK
  <2>3. Oneshot!TypeOK'
        BY <2>1, <2>2 DEF OneshotInv, Oneshot!TypeOK
  <2>4. \A fd \in armed' : ~ Oneshot!Readable(fd)'
        BY <2>1 DEF OneshotInv, Oneshot!Readable
  <2>5. Oneshot!Unread' <=> Oneshot!Unread
        BY <2>1 DEF Oneshot!Unread
  <2>6. \A fd \in o_open' \ lost' : Seen(fd)'
    <3> SUFFICES ASSUME NEW fd \in o_open, fd \notin lost PROVE Seen(fd)'
        BY <2>1
    <3>1. Seen(fd) /\ fd \notin o_batch
          BY <2>1 DEF OneshotInv
    <3> QED BY <2>1, <2>5, <3>1 DEF Seen
  <2> QED BY <2>1, <2>3, <2>4, <2>5, <2>6 DEF OneshotInv
<1> QED BY <1>1, <1>2

LEMMA OneshotAccepts == ASSUME OneshotInv, NEW fd \in Fd1, Oneshot!Accept(fd) PROVE OneshotInv'
<1>1. /\ o_phase = "events" /\ o_batch' = o_batch \ {"listen"} /\ fd \notin o_open
      /\ o_open' = o_open \cup {fd} /\ armed' = armed \cup {fd}
      /\ UNCHANGED <<o_phase, fds_for_new_worker, o_at, sockfd, o_fin, lost>>
      BY DEF Oneshot!Accept, Oneshot!Handling, Oneshot!threads
<1>2. PICK n \in 0 .. InboxOf1 : /\ o_inbox' = [o_inbox EXCEPT ![fd] = n]
                                 /\ o_ready' = IF n > 0 THEN o_ready \cup {fd} ELSE o_ready
      BY DEF Oneshot!Accept
<1>3. Oneshot!TypeOK'
      BY <1>1, <1>2 DEF OneshotInv, Oneshot!TypeOK, Oneshot!Accept
<1>4. ASSUME NEW f \in armed', Oneshot!Readable(f)' PROVE f \in o_ready'
  <2>1. CASE f = fd
        BY <1>1, <1>2, <1>4, <2>1 DEF OneshotInv, Oneshot!TypeOK, Oneshot!Readable
  <2>2. CASE f # fd
    <3>1. f \in armed /\ Oneshot!Readable(f)
          BY <1>1, <1>2, <1>4, <2>2 DEF OneshotInv, Oneshot!TypeOK, Oneshot!Readable
    <3> QED BY <1>2, <3>1 DEF OneshotInv
  <2> QED BY <2>1, <2>2
<1>5. Oneshot!Unread' <=> Oneshot!Unread
      BY <1>1 DEF Oneshot!Unread
<1>6. ASSUME NEW f \in o_open' \ lost' PROVE Seen(f)'
  <2>1. CASE f = fd
        BY <1>1, <2>1 DEF Seen
  <2>2. CASE f # fd
    <3>1. Seen(f) /\ f # "listen"
          BY <1>1, <1>6, <2>2, OneshotConstants DEF OneshotInv, Oneshot!TypeOK
    <3> QED BY <1>1, <1>5, <3>1 DEF Seen
  <2> QED BY <2>1, <2>2
<1> QED BY <1>1, <1>3, <1>4, <1>5, <1>6 DEF OneshotInv

\* The argument of a thread that has yet to read it is overwritten: what it was is
\* epoll's, or somebody else's, or lost.
LEMMA OneshotStarts ==
    ASSUME OneshotInv, NEW fd \in Fd1, NEW w \in Thread, Oneshot!StartWorker(fd, w)
    PROVE  OneshotInv'
<1>1. /\ o_phase = "events" /\ fd \in o_batch /\ o_batch' = o_batch \ {fd}
      /\ o_at[w] = "none" /\ fds_for_new_worker' = fd /\ o_at' = [o_at EXCEPT ![w] = "created"]
      /\ lost' = lost \cup IF Oneshot!Unread THEN {fds_for_new_worker} \ (armed \cup {fd}) ELSE {}
      /\ UNCHANGED <<o_phase, sockfd, o_open, armed, o_ready, o_backlog, o_inbox, o_fin>>
      BY DEF Oneshot!StartWorker, Oneshot!Handling, Oneshot!sockets
<1>2. Oneshot!TypeOK'
  <2>1. lost' \subseteq Fd1
        BY <1>1 DEF OneshotInv, Oneshot!TypeOK
  <2> QED BY <1>1, <2>1 DEF OneshotInv, Oneshot!TypeOK
<1>3. \A v \in Thread : o_at'[v] = IF v = w THEN "created" ELSE o_at[v]
      BY <1>1 DEF OneshotInv, Oneshot!TypeOK
<1>4. Oneshot!Unread'
      BY <1>3 DEF Oneshot!Unread
<1>5. \A v \in Thread : sockfd'[v] # None <=> o_at'[v] \in {"recv", "reset"}
      BY <1>1, <1>3 DEF OneshotInv
<1>6. ASSUME NEW f \in o_open' \ lost' PROVE Seen(f)'
  <2>1. Seen(f)
        BY <1>1, <1>6 DEF OneshotInv
  <2>2. CASE f = fd
        BY <1>1, <1>4, <2>2 DEF Seen
  <2>3. CASE f # fd
    <3>1. fds_for_new_worker = f /\ Oneshot!Unread => f \in armed
          BY <1>1, <1>6, <2>3
    <3> QED BY <1>1, <2>1, <2>3, <3>1 DEF Seen
  <2> QED BY <2>2, <2>3
<1>7. \A f \in armed' : Oneshot!Readable(f)' => f \in o_ready'
      BY <1>1 DEF OneshotInv, Oneshot!Readable
<1> QED BY <1>1, <1>2, <1>4, <1>5, <1>6, <1>7 DEF OneshotInv

\* A thread that reads its argument sees to what it finds there.
LEMMA OneshotReads == ASSUME OneshotInv, NEW w \in Thread, Oneshot!ReadArg(w) PROVE OneshotInv'
<1>1. /\ o_at[w] = "created" /\ o_at' = [o_at EXCEPT ![w] = "recv"]
      /\ sockfd' = [sockfd EXCEPT ![w] = fds_for_new_worker]
      /\ UNCHANGED <<o_phase, o_batch, fds_for_new_worker, o_open, armed, o_ready, o_backlog,
                     o_inbox, o_fin, lost>>
      BY DEF Oneshot!ReadArg, Oneshot!sockets
<1>2. fds_for_new_worker \in Fd1 /\ fds_for_new_worker # None /\ Oneshot!Unread
      BY <1>1, OneshotConstants DEF OneshotInv, Oneshot!Unread
<1>3. Oneshot!TypeOK'
      BY <1>1, <1>2 DEF OneshotInv, Oneshot!TypeOK
<1>4. \A v \in Thread : /\ o_at'[v] = IF v = w THEN "recv" ELSE o_at[v]
                        /\ sockfd'[v] = IF v = w THEN fds_for_new_worker ELSE sockfd[v]
      BY <1>1 DEF OneshotInv, Oneshot!TypeOK
<1>5. \A v \in Thread : sockfd'[v] # None <=> o_at'[v] \in {"recv", "reset"}
      BY <1>2, <1>4 DEF OneshotInv
<1>6. ASSUME NEW f \in o_open' \ lost' PROVE Seen(f)'
  <2>1. Seen(f)
        BY <1>1, <1>6 DEF OneshotInv
  <2>2. CASE f \in armed \/ f \in o_batch
        BY <1>1, <2>2 DEF Seen
  <2>3. CASE fds_for_new_worker = f
    <3>1. sockfd'[w] = f
          BY <1>4, <2>3
    <3> QED BY <3>1 DEF Seen
  <2>4. ASSUME NEW v \in Thread, sockfd[v] = f PROVE Seen(f)'
    <3>1. sockfd[w] = None /\ f # None
          BY <1>1, <1>6, OneshotConstants DEF OneshotInv, Oneshot!TypeOK
    <3>2. sockfd'[v] = f
          BY <1>4, <2>4, <3>1
    <3> QED BY <3>2 DEF Seen
  <2> QED BY <2>1, <2>2, <2>3, <2>4 DEF Seen
<1>7. \A f \in armed' : Oneshot!Readable(f)' => f \in o_ready'
      BY <1>1 DEF OneshotInv, Oneshot!Readable
<1> QED BY <1>1, <1>2, <1>3, <1>5, <1>6, <1>7 DEF OneshotInv

LEMMA OneshotRecvs ==
    ASSUME OneshotInv, NEW w \in Thread, Oneshot!Recv(w) \/ Oneshot!RecvAgain(w) PROVE OneshotInv'
<1>1. /\ UNCHANGED <<o_phase, o_batch, fds_for_new_worker, sockfd, o_open, armed, o_ready,
                     o_backlog, o_fin, lost>>
      /\ o_at[w] = "recv"
      BY DEF Oneshot!Recv, Oneshot!RecvAgain, Oneshot!threads, Oneshot!sockets
<1>2. \/ o_at' = o_at
      \/ o_at' = [o_at EXCEPT ![w] = "reset"] /\ o_inbox' = o_inbox
      BY DEF Oneshot!Recv, Oneshot!RecvAgain, Oneshot!threads, Oneshot!sockets
<1>3. o_inbox' \in [Fd1 -> 0 .. InboxOf1] /\ \A f \in Fd1 : o_inbox'[f] > 0 => o_inbox[f] > 0
  <2>1. CASE Oneshot!Recv(w)
        BY <2>1, OneshotConstants DEF OneshotInv, Oneshot!TypeOK, Oneshot!Recv
  <2>2. CASE Oneshot!RecvAgain(w)
        BY <2>2 DEF OneshotInv, Oneshot!TypeOK, Oneshot!RecvAgain, Oneshot!sockets
  <2> QED BY <2>1, <2>2
<1>4. Oneshot!TypeOK'
      BY <1>1, <1>2, <1>3 DEF OneshotInv, Oneshot!TypeOK
<1>5. ASSUME NEW v \in Thread
      PROVE  /\ o_at'[v] = "created" <=> o_at[v] = "created"
             /\ o_at'[v] \in {"recv", "reset"} <=> o_at[v] \in {"recv", "reset"}
  <2>1. CASE o_at' = o_at
        BY <2>1
  <2>2. CASE o_at' = [o_at EXCEPT ![w] = "reset"]
    <3>1. o_at'[v] = IF v = w THEN "reset" ELSE o_at[v]
          BY <2>2 DEF OneshotInv, Oneshot!TypeOK
    <3> QED BY <1>1, <3>1
  <2> QED BY <1>2, <2>1, <2>2
<1>6. Oneshot!Unread' <=> Oneshot!Unread
      BY <1>5 DEF Oneshot!Unread
<1>7. \A v \in Thread : sockfd'[v] # None <=> o_at'[v] \in {"recv", "reset"}
      BY <1>1, <1>5 DEF OneshotInv
<1>8. \A f \in armed : Oneshot!Readable(f)' => Oneshot!Readable(f)
      BY <1>1, <1>3 DEF OneshotInv, Oneshot!TypeOK, Oneshot!Readable
<1>9. \A f : Seen(f) => Seen(f)'
      BY <1>1, <1>6 DEF Seen
<1> QED BY <1>1, <1>4, <1>6, <1>7, <1>8, <1>9 DEF OneshotInv

\* The thread is done: the connection is closed, or goes back to epoll.
LEMMA OneshotEnds ==
    ASSUME OneshotInv, NEW w \in Thread, Oneshot!RecvEnd(w) \/ Oneshot!reset_oneshot(w)
    PROVE  OneshotInv'
<1>1. PICK fd \in Fd1 : fd = sockfd[w]
  <2>1. o_at[w] \in {"recv", "reset"}
        BY DEF Oneshot!RecvEnd, Oneshot!reset_oneshot
  <2> QED BY <2>1 DEF OneshotInv, Oneshot!TypeOK
<1>2. /\ o_at[w] \in {"recv", "reset"}
      /\ o_at' = [o_at EXCEPT ![w] = "none"] /\ sockfd' = [sockfd EXCEPT ![w] = None]
      /\ lost' = lost \ {fd}
      /\ UNCHANGED <<o_phase, o_batch, fds_for_new_worker, o_backlog, o_inbox>>
      BY <1>1 DEF Oneshot!RecvEnd, Oneshot!reset_oneshot, Oneshot!Ends, Oneshot!sockets
<1>3. \A v \in Thread : /\ o_at'[v] = IF v = w THEN "none" ELSE o_at[v]
                        /\ sockfd'[v] = IF v = w THEN None ELSE sockfd[v]
      BY <1>2 DEF OneshotInv, Oneshot!TypeOK
<1>4. \A v \in Thread : sockfd'[v] # None <=> o_at'[v] \in {"recv", "reset"}
      BY <1>3 DEF OneshotInv
<1>5. Oneshot!Unread' <=> Oneshot!Unread
      BY <1>2, <1>3 DEF Oneshot!Unread
<1>6. ASSUME NEW f, f # fd, Seen(f), f \in armed => f \in armed' PROVE Seen(f)'
  <2>1. \A v \in Thread : sockfd[v] = f => sockfd'[v] = f
        BY <1>1, <1>3, <1>6
  <2> QED BY <1>2, <1>5, <1>6, <2>1 DEF Seen
<1>7. CASE Oneshot!RecvEnd(w)
  <2>1. /\ o_open' = o_open \ {fd} /\ armed' = armed \ {fd} /\ o_ready' = o_ready \ {fd}
        /\ o_fin' = [o_fin EXCEPT ![fd] = FALSE]
        BY <1>1, <1>7 DEF Oneshot!RecvEnd
  <2>2. Oneshot!TypeOK'
        BY <1>2, <2>1 DEF OneshotInv, Oneshot!TypeOK
  <2>3. \A f \in Fd1 : f # fd => o_fin'[f] = o_fin[f]
        BY <2>1 DEF OneshotInv, Oneshot!TypeOK
  <2>4. \A f \in Fd1 \ o_open' : ~ o_fin'[f]
        BY <2>1, <2>3 DEF OneshotInv, Oneshot!TypeOK
  <2>5. \A f \in armed' : Oneshot!Readable(f)' => f \in o_ready'
        BY <1>2, <2>1, <2>3 DEF OneshotInv, Oneshot!TypeOK, Oneshot!Readable
  <2>6. \A f \in o_open' \ lost' : Seen(f)'
        BY <1>2, <1>6, <2>1 DEF OneshotInv
  <2> QED BY <1>2, <1>4, <1>5, <2>2, <2>4, <2>5, <2>6 DEF OneshotInv
<1>8. CASE Oneshot!reset_oneshot(w)
  <2>1. /\ armed' = armed \cup ({fd} \cap o_open) /\ o_open' = o_open /\ o_fin' = o_fin
        /\ o_ready' = o_ready \cup (Oneshot!Arms(fd) \cap o_open)
        BY <1>1, <1>8 DEF Oneshot!reset_oneshot, Oneshot!sockets
  <2>2. Oneshot!TypeOK'
        BY <1>2, <2>1 DEF OneshotInv, Oneshot!TypeOK, Oneshot!Arms
  <2>3. \A f \in armed' : Oneshot!Readable(f)' => f \in o_ready'
        BY <1>2, <2>1 DEF OneshotInv, Oneshot!TypeOK, Oneshot!Arms, Oneshot!Readable
  <2>4. ASSUME NEW f \in o_open' \ lost' PROVE Seen(f)'
    <3>1. CASE f = fd
          BY <2>1, <2>4, <3>1 DEF Seen
    <3>2. CASE f # fd
          BY <1>2, <1>6, <2>1, <2>4, <3>2 DEF OneshotInv
    <3> QED BY <3>1, <3>2
  <2> QED BY <1>2, <1>4, <1>5, <2>1, <2>2, <2>3, <2>4 DEF OneshotInv
<1> QED BY <1>7, <1>8

LEMMA OneshotStep == OneshotInv /\ [Oneshot!Next]_(Oneshot!vars) => OneshotInv'
<1> SUFFICES ASSUME OneshotInv, [Oneshot!Next]_(Oneshot!vars) PROVE OneshotInv'
    OBVIOUS
<1>1. CASE UNCHANGED Oneshot!vars
      BY <1>1 DEF Oneshot!vars, Oneshot!threads, Oneshot!sockets, OneshotInv, Oneshot!TypeOK,
                  Seen, Oneshot!Unread, Oneshot!Readable
<1>2. ASSUME NEW w \in Thread, Oneshot!worker(w) PROVE OneshotInv'
      BY <1>2, OneshotReads, OneshotRecvs, OneshotEnds DEF Oneshot!worker
<1>3. CASE Oneshot!main
      BY <1>3, OneshotWaits, OneshotAccepts, OneshotStarts DEF Oneshot!main
<1> QED BY <1>1, <1>2, <1>3, OneshotPeers DEF Oneshot!Next

LEMMA OneshotOfEach ==
    /\ EachInit => Oneshot!Init
    /\ [EachNext]_all => [Oneshot!Next]_(Oneshot!vars)
BY DEF EachInit, EachNext, all, oneshot, Oneshot!vars, Oneshot!threads, Oneshot!sockets

\* Reactor.cpp: table, interest list and descriptors agree in every state, so that a
\* report never reaches the callback of another connection, and no descriptor is lost
\* that the full table did not turn away.
THEOREM TablesAgree == EachSpec => []TablesConsistent
<1>1. TableInv => TablesConsistent
      BY LoopSized, InvConsistent DEF TablesConsistent
<1> QED BY <1>1, TableAlways, PTL

\* epolloneshot.cc, with any number of connections and threads: one with something to
\* read is in the ready list, reported, handed over or read, however start, read and
\* reset interleave, unless main has overwritten the argument of its thread.
THEOREM AlwaysAttended == EachSpec => []Attended
<1>1. EachInit => OneshotInv
      BY OneshotOfEach, OneshotInit
<1>2. OneshotInv /\ [EachNext]_all => OneshotInv'
      BY OneshotOfEach, OneshotStep
<1>3. OneshotInv => Attended
      BY DEF OneshotInv, Attended, Oneshot!Attended, Seen
<1> QED BY <1>1, <1>2, <1>3, PTL DEF EachSpec

-----------------------------------------------------------------------------
(* chatroom_server.cc of ch09.                                             *)

In(x, s) == \E k \in 1 .. Len(s) : s[k] = x
NoRepeats(s) == \A k, m \in 1 .. Len(s) : s[k] = s[m] => k = m

\* fds is the open sockets, each once, main looks at one of them, and a socket
\* that may be written to points to nothing or to a text still to be sent to it.
RoomInv ==
    /\ Room!TypeOK
    /\ i <= Len(fds) + 1
    /\ NoRepeats(fds)
    /\ \A fd \in PollFds : conn[fd] # None <=> In(fd, fds)
    /\ \A fd \in PollFds : In(fd, fds) /\ "out" \in events[fd] => Room!PointsRight(fd)

LEMMA RoomConstants ==
    /\ USER_LIMIT \in Nat \ {0} /\ MaxInbox \in Nat
    /\ None \notin Client /\ None \notin PollFds /\ 3 \notin PollFds
    /\ Wild \notin PollFds \cup {None}
BY ServersAssumption DEF ServersAssumption

LEMMA Appended ==
    ASSUME NEW S, NEW s \in Seq(S), NEW x \in S, NoRepeats(s), ~ In(x, s)
    PROVE  /\ Append(s, x) \in Seq(S) /\ Len(Append(s, x)) = Len(s) + 1
           /\ NoRepeats(Append(s, x))
           /\ \A y : In(y, Append(s, x)) <=> In(y, s) \/ y = x
<1> DEFINE t == Append(s, x)
<1>1. /\ t \in Seq(S) /\ Len(t) = Len(s) + 1 /\ Len(s) \in Nat
      /\ \A k \in 1 .. Len(s) : t[k] = s[k]
      /\ t[Len(s) + 1] = x
      BY AppendProperties
<1>2. \A k \in 1 .. Len(t) : k \in 1 .. Len(s) \/ k = Len(s) + 1
      BY <1>1
<1>3. 1 .. Len(s) \subseteq 1 .. Len(t) /\ Len(s) + 1 \in 1 .. Len(t)
      BY <1>1
<1> HIDE DEF t
<1>4. NoRepeats(t)
      BY <1>1, <1>2, Zenon DEF NoRepeats, In
<1>5. \A y : In(y, t) <=> In(y, s) \/ y = x
      BY <1>1, <1>2, <1>3, Zenon DEF In
<1> QED BY <1>1, <1>4, <1>5 DEF t

LEMMA Beginning ==
    ASSUME NEW S, NEW s, NEW q \in Nat, \A m \in 1 .. q : s[m] \in S
    PROVE  /\ SubSeq(s, 1, q) \in Seq(S) /\ Len(SubSeq(s, 1, q)) = q
           /\ \A m \in 1 .. q : SubSeq(s, 1, q)[m] = s[m]
<1>1. 1 \in Int /\ q \in Int
      OBVIOUS
<1>2. /\ SubSeq(s, 1, q) \in Seq(S)
      /\ Len(SubSeq(s, 1, q)) = IF 1 <= q THEN (q - 1) + 1 ELSE 0
      /\ \A m \in 1 .. (q - 1) + 1 : SubSeq(s, 1, q)[m] = s[1 + (m - 1)]
      BY <1>1, SubSeqProperties
<1>3. (q - 1) + 1 = q /\ (1 <= q \/ q = 0)
      OBVIOUS
<1>4. Len(SubSeq(s, 1, q)) = q
      BY <1>2, <1>3
<1>5. \A m \in 1 .. q : 1 + (m - 1) = m
      OBVIOUS
<1> QED BY <1>2, <1>3, <1>4, <1>5

\* The last takes the place of the one that leaves.
LastInPlaceOf(s, k) == Room!Front([s EXCEPT ![k] = s[Len(s)]])

LEMMA Removed ==
    ASSUME NEW S, NEW s \in Seq(S), NEW k \in 1 .. Len(s), NoRepeats(s), NEW t,
           t = LastInPlaceOf(s, k)
    PROVE  /\ t \in Seq(S) /\ Len(t) = Len(s) - 1
           /\ NoRepeats(t)
           /\ \A y : In(y, t) <=> In(y, s) /\ y # s[k]
<1> PICK n \in Nat : n = Len(s)
    BY LenProperties
<1>1. n # 0 /\ s[n] \in S /\ n \in 1 .. n /\ k \in 1 .. n /\ n = Len(s)
      BY LenProperties
<1> PICK u : u = [s EXCEPT ![k] = s[n]]
    OBVIOUS
<1>2. u \in Seq(S) /\ Len(u) = n /\ \A m \in 1 .. n : u[m] = IF m = k THEN s[n] ELSE s[m]
      BY <1>1, ExceptSeq
<1>3. t = SubSeq(u, 1, n - 1)
      BY <1>2 DEF LastInPlaceOf, Room!Front
<1>4. /\ t \in Seq(S) /\ Len(t) = n - 1
      /\ \A m \in 1 .. n - 1 : t[m] = IF m = k THEN s[n] ELSE s[m]
  <2>1. /\ t \in Seq(S) /\ Len(t) = n - 1
        /\ \A m \in 1 .. n - 1 : t[m] = u[m]
    <3>1. PICK q \in Nat : q = n - 1
          BY <1>1
    <3>2. \A m \in 1 .. q : u[m] \in S
          BY <1>1, <1>2, <3>1, ElementOfSeq
    <3>3. t = SubSeq(u, 1, q)
          BY <1>3, <3>1
    <3>4. t \in Seq(S) /\ Len(t) = q /\ \A m \in 1 .. q : t[m] = u[m]
          BY <3>1, <3>2, <3>3, Beginning
    <3> QED BY <3>1, <3>4
  <2>2. 1 .. n - 1 \subseteq 1 .. n
        BY <1>1
  <2> QED BY <1>2, <2>1, <2>2
<1>5. \A m \in 1 .. n : m \in 1 .. n - 1 \/ m = n
      BY <1>1
<1>6. 1 .. n - 1 \subseteq 1 .. n /\ n \notin 1 .. n - 1
      BY <1>1
<1>7. /\ \A a, b \in 1 .. n : s[a] = s[b] => a = b
      /\ \A y : In(y, s) <=> \E a \in 1 .. n : s[a] = y
      /\ \A y : In(y, t) <=> \E a \in 1 .. n - 1 : t[a] = y
      /\ NoRepeats(t) <=> \A a, b \in 1 .. n - 1 : t[a] = t[b] => a = b
      BY <1>1, <1>4, Zenon DEF NoRepeats, In
<1> DEFINE From(a) == IF a = k THEN n ELSE a
<1>a. \A a \in 1 .. n - 1 : t[a] = s[From(a)] /\ From(a) \in 1 .. n /\ From(a) # k
      BY <1>1, <1>4, <1>6
<1>b. \A a, b \in 1 .. n - 1 : From(a) = From(b) => a = b
      BY <1>6
<1> HIDE DEF From
<1>8. \A a, b \in 1 .. n - 1 : t[a] = t[b] => a = b
  <2> SUFFICES ASSUME NEW a \in 1 .. n - 1, NEW b \in 1 .. n - 1, t[a] = t[b] PROVE a = b
      OBVIOUS
  <2>1. /\ From(a) \in 1 .. n /\ From(b) \in 1 .. n /\ s[From(a)] = s[From(b)]
        BY <1>a
  <2>2. From(a) = From(b)
        BY <1>7, <2>1, Zenon
  <2> QED BY <1>b, <2>2
<1>9. ASSUME NEW y, \E a \in 1 .. n - 1 : t[a] = y
      PROVE  (\E a \in 1 .. n : s[a] = y) /\ y # s[k]
  <2>1. PICK a \in 1 .. n - 1 : t[a] = y
        BY <1>9
  <2>2. y = s[From(a)] /\ From(a) \in 1 .. n /\ From(a) # k /\ k \in 1 .. n
        BY <1>1, <1>a, <2>1
  <2> QED BY <1>7, <2>2
<1>10. ASSUME NEW a \in 1 .. n, s[a] # s[k]
       PROVE  \E b \in 1 .. n - 1 : t[b] = s[a]
  <2>1. CASE a = n
    <3>1. k # n /\ k \in 1 .. n - 1
          BY <1>1, <1>5, <1>10, <2>1
    <3>2. t[k] = s[n]
          BY <1>4, <3>1
    <3> QED BY <2>1, <3>1, <3>2
  <2>2. CASE a # n
        BY <1>4, <1>5, <1>10, <2>2
  <2> QED BY <2>1, <2>2
<1> QED BY <1>1, <1>4, <1>7, <1>8, <1>9, <1>10

LEMMA RoomInit == Room!Init => RoomInv
<1> SUFFICES ASSUME Room!Init PROVE RoomInv
    OBVIOUS
<1>1. fds = <<>> /\ Len(fds) = 0 /\ i = -1 /\ fds \in Seq(PollFds)
      BY DEF Room!Init
<1>2. \A x : ~ In(x, fds)
      BY <1>1 DEF In
<1>3. Room!TypeOK
      BY <1>1, RoomConstants DEF Room!Init, Room!TypeOK, Room!user_cnt
<1>4. NoRepeats(fds)
      BY <1>1 DEF NoRepeats
<1>5. i <= Len(fds) + 1
      BY <1>1
<1> QED BY <1>2, <1>3, <1>4, <1>5 DEF RoomInv, Room!Init

\* Where main is.
LEMMA PlaceIs ==
    ASSUME RoomInv
    PROVE  /\ fds \in Seq(PollFds) /\ Len(fds) \in Nat /\ Len(fds) <= USER_LIMIT /\ i \in Int
           /\ \A k \in 1 .. Len(fds) : fds[k] \in PollFds /\ In(fds[k], fds)
           /\ \A bit : Room!OnUser(bit) =>
                /\ i \in 1 .. Len(fds) /\ fds[i] \in PollFds /\ In(fds[i], fds)
                /\ conn[fds[i]] \in Client
<1>1. fds \in Seq(PollFds) /\ Len(fds) <= USER_LIMIT /\ i \in Int
      BY DEF RoomInv, Room!TypeOK, Room!user_cnt
<1>2. Len(fds) \in Nat /\ \A k \in 1 .. Len(fds) : fds[k] \in PollFds
      BY <1>1, LenProperties, ElementOfSeq
<1>3. \A k \in 1 .. Len(fds) : In(fds[k], fds)
      BY DEF In
<1>4. \A fd \in PollFds : In(fd, fds) => conn[fd] \in Client
      BY DEF RoomInv, Room!TypeOK
<1>5. \A bit : Room!OnUser(bit) => i \in 1 .. Len(fds)
      BY DEF Room!OnUser, Room!user_cnt
<1> QED BY <1>1, <1>2, <1>3, <1>4, <1>5

\* Nothing a client does touches the server's tables.
LEMMA RoomClients ==
    ASSUME RoomInv, NEW c \in Client,
           Room!Connect(c) \/ Room!Splice(c) \/ Room!ReadMessage(c) \/ Room!ClientEnds(c)
    PROVE  RoomInv'
<1>1. UNCHANGED <<i, fds, events, revents, buf, write_buf, conn, told>>
      BY DEF Room!Connect, Room!Splice, Room!ReadMessage, Room!ClientEnds, Room!users, Room!kernel
<1>2. link' \in [Client -> {"out", "queued", "up", "fin", "rst", "over"}]
  <2>1. \/ link' = link
        \/ \E l \in {"queued", "rst", "fin"} : link' = [link EXCEPT ![c] = l]
        BY DEF Room!Connect, Room!Splice, Room!ReadMessage, Room!ClientEnds, Room!kernel
  <2> QED BY <2>1 DEF RoomInv, Room!TypeOK
<1>3. so_error' \in [Client -> BOOLEAN] /\ unread' \in [Client -> BOOLEAN]
  <2>1. so_error \in [Client -> BOOLEAN] /\ unread \in [Client -> BOOLEAN]
        BY DEF RoomInv, Room!TypeOK
  <2>2. /\ so_error' = so_error \/ so_error' = [so_error EXCEPT ![c] = unread[c]]
        /\ unread' = unread \/ unread' = [unread EXCEPT ![c] = FALSE]
        BY DEF Room!Connect, Room!Splice, Room!ReadMessage, Room!ClientEnds, Room!kernel
  <2> QED BY <2>1, <2>2
<1>4. p_inbox' \in [Client -> 0 .. MaxInbox]
  <2>1. \/ p_inbox' = p_inbox
        \/ p_inbox[c] < MaxInbox /\ p_inbox' = [p_inbox EXCEPT ![c] = p_inbox[c] + 1]
        BY DEF Room!Connect, Room!Splice, Room!ReadMessage, Room!ClientEnds, Room!kernel
  <2>2. p_inbox \in [Client -> 0 .. MaxInbox]
        BY DEF RoomInv, Room!TypeOK
  <2>3. p_inbox[c] < MaxInbox => p_inbox[c] + 1 \in 0 .. MaxInbox
        BY <2>2, RoomConstants
  <2> QED BY <2>1, <2>2, <2>3
<1>5. Room!TypeOK'
      BY <1>1, <1>2, <1>3, <1>4 DEF RoomInv, Room!TypeOK, Room!user_cnt
<1> QED BY <1>1, <1>5 DEF RoomInv, In, NoRepeats, Room!PointsRight

\* The places before and after those of fds: main goes on to the next.
LEMMA PlacesInRange ==
    ASSUME RoomInv, i # -1, i <= Len(fds)
    PROVE  i + 1 \in -1 .. USER_LIMIT + 1 /\ i + 1 <= Len(fds) + 1
BY PlaceIs, RoomConstants DEF RoomInv, Room!TypeOK

\* Steps that leave fds, conn and write_buf alone, and set no bit.
LEMMA RoomLooks ==
    ASSUME RoomInv,
           \/ Room!Poll \/ Room!PollErr \/ Room!RecvEnd \/ Room!NothingSeen \/ Room!RoundEnds
           \/ \E c \in Client : Room!TooManyUsers(c)
    PROVE  RoomInv'
<1>1. UNCHANGED <<fds, events, write_buf, conn, unread, told>>
      BY DEF Room!Poll, Room!PollErr, Room!RecvEnd, Room!NothingSeen, Room!RoundEnds,
             Room!TooManyUsers, Room!users, Room!kernel
<1>2. i' \in -1 .. USER_LIMIT + 1 /\ i' <= Len(fds) + 1
  <2>1. CASE \/ Room!PollErr \/ Room!RecvEnd \/ Room!NothingSeen
             \/ \E c \in Client : Room!TooManyUsers(c)
    <3>1. i' = i + 1 /\ i # -1 /\ i <= Len(fds)
          BY <2>1, PlaceIs DEF Room!PollErr, Room!RecvEnd, Room!NothingSeen, Room!TooManyUsers,
                               Room!At, Room!OnUser, Room!Polling, Room!user_cnt
    <3> QED BY <3>1, PlacesInRange
  <2>2. CASE Room!Poll
        BY <2>2, PlaceIs, RoomConstants DEF Room!Poll
  <2>3. CASE Room!RoundEnds
        BY <2>3, PlaceIs, RoomConstants DEF Room!RoundEnds
  <2> QED BY <2>1, <2>2, <2>3
<1>3. revents' \in [PollFds \cup {3} -> SUBSET Room!Bits]
  <2>0. revents \in [PollFds \cup {3} -> SUBSET Room!Bits]
        BY DEF RoomInv, Room!TypeOK, Room!listenfd
  <2>1. CASE Room!Poll
    <3>1. \A c : Room!State(c) \in SUBSET Room!Bits
          BY DEF Room!State, Room!Bits
    <3>2. /\ {"in"} \in SUBSET Room!Bits /\ {} \in SUBSET Room!Bits
          BY DEF Room!Bits
    <3>3. revents' = [p \in PollFds \cup {3} |->
                        IF p = 3 THEN IF Room!Queue # {} THEN {"in"} ELSE {}
                        ELSE IF p \in Room!ToSet(fds)
                             THEN Room!State(conn[p]) \cap (events[p] \cup {"err", "hup"})
                        ELSE {}]
          BY <2>1 DEF Room!Poll, Room!listenfd
    <3> QED BY <3>1, <3>2, <3>3
  <2>2. CASE Room!RoundEnds
        BY <2>0, <2>2 DEF Room!RoundEnds
  <2>3. CASE revents' = revents
        BY <2>0, <2>3
  <2> QED BY <2>1, <2>2, <2>3 DEF Room!PollErr, Room!RecvEnd, Room!NothingSeen, Room!TooManyUsers
<1>4. /\ buf' \in [PollFds -> Client \cup {None, Wild}]
      /\ link' \in [Client -> {"out", "queued", "up", "fin", "rst", "over"}]
      BY DEF RoomInv, Room!TypeOK, Room!Poll, Room!PollErr, Room!RecvEnd, Room!NothingSeen,
             Room!RoundEnds, Room!TooManyUsers, Room!users, Room!kernel
<1>5. /\ so_error' \in [Client -> BOOLEAN]
  <2>1. so_error \in [Client -> BOOLEAN]
        BY DEF RoomInv, Room!TypeOK
  <2>2. so_error' = so_error \/ so_error' = [so_error EXCEPT ![conn[fds[i]]] = FALSE]
        BY DEF Room!Poll, Room!PollErr, Room!RecvEnd, Room!NothingSeen,
             Room!RoundEnds, Room!TooManyUsers, Room!kernel, Room!Current
  <2> QED BY <2>1, <2>2
<1>6. p_inbox' \in [Client -> 0 .. MaxInbox]
      BY RoomConstants DEF RoomInv, Room!TypeOK, Room!Poll, Room!PollErr, Room!RecvEnd,
             Room!NothingSeen, Room!RoundEnds, Room!TooManyUsers, Room!kernel
<1>7. Room!TypeOK'
      BY <1>1, <1>2, <1>3, <1>4, <1>5, <1>6 DEF RoomInv, Room!TypeOK, Room!user_cnt, Room!listenfd
<1> QED BY <1>1, <1>2, <1>7 DEF RoomInv, In, NoRepeats, Room!PointsRight

\* accept gives a descriptor that is not in fds, whose entry asks only to be read.
LEMMA RoomAccepts ==
    ASSUME RoomInv, NEW c \in Client, NEW fd \in PollFds, Room!Accept(c, fd)
    PROVE  RoomInv'
<1>1. /\ i = 0 /\ i' = i + 1 /\ Len(fds) < USER_LIMIT /\ conn[fd] = None
      /\ conn' = [conn EXCEPT ![fd] = c] /\ fds' = Append(fds, fd)
      /\ link' = [link EXCEPT ![c] = IF @ = "queued" THEN "up" ELSE @]
      /\ events' = [events EXCEPT ![fd] = {"in", "hup", "err"}]
      /\ revents' = [revents EXCEPT ![fd] = {}]
      /\ told' = told \ {fd}
      /\ UNCHANGED <<buf, write_buf, so_error, p_inbox, unread>>
      BY DEF Room!Accept, Room!At, Room!user_cnt, Room!AtFirst, Room!users
<1>2. ~ In(fd, fds) /\ NoRepeats(fds)
      BY <1>1 DEF RoomInv
<1>3. /\ fds' \in Seq(PollFds) /\ Len(fds') = Len(fds) + 1 /\ NoRepeats(fds')
      /\ \A y : In(y, fds') <=> In(y, fds) \/ y = fd
      BY <1>1, <1>2, PlaceIs, Appended
<1>4. i' \in -1 .. USER_LIMIT + 1 /\ i' <= Len(fds') + 1 /\ Len(fds') <= USER_LIMIT
      BY <1>1, <1>3, PlaceIs, RoomConstants
<1>5. /\ events' \in [PollFds -> SUBSET Room!Bits]
      /\ revents' \in [PollFds \cup {Room!listenfd} -> SUBSET Room!Bits]
      BY <1>1 DEF RoomInv, Room!TypeOK, Room!Bits
<1>6. /\ conn' \in [PollFds -> Client \cup {None}]
      /\ link' \in [Client -> {"out", "queued", "up", "fin", "rst", "over"}]
      BY <1>1 DEF RoomInv, Room!TypeOK
<1>7. Room!TypeOK'
      BY <1>1, <1>3, <1>4, <1>5, <1>6 DEF RoomInv, Room!TypeOK, Room!user_cnt
<1>8. \A f \in PollFds : conn'[f] # None <=> In(f, fds')
      BY <1>1, <1>3, RoomConstants DEF RoomInv, Room!TypeOK
<1>9. \A f \in PollFds : In(f, fds') /\ "out" \in events'[f] => Room!PointsRight(f)'
  <2>1. events \in [PollFds -> SUBSET Room!Bits]
        BY DEF RoomInv, Room!TypeOK
  <2>2. "out" \notin events'[fd]
        BY <1>1, <2>1
  <2>3. ASSUME NEW f \in PollFds, f # fd
        PROVE  events'[f] = events[f] /\ (Room!PointsRight(f)' <=> Room!PointsRight(f))
        BY <1>1, <2>1, <2>3 DEF Room!PointsRight
  <2> QED BY <1>3, <2>2, <2>3 DEF RoomInv
<1> QED BY <1>3, <1>4, <1>7, <1>8, <1>9 DEF RoomInv

\* The user at i leaves, and the last one takes the place.
LEMMA RoomLeaves ==
    ASSUME RoomInv, Room!PollHup \/ Room!RecvFails
    PROVE  RoomInv'
<1>1. PICK bufs : /\ bufs \in [PollFds -> Client \cup {None, Wild}]
                  /\ Room!Leave(bufs)
  <2>1. [buf EXCEPT ![Room!Current] = None] \in [PollFds -> Client \cup {None, Wild}]
        BY DEF RoomInv, Room!TypeOK
  <2>2. buf \in [PollFds -> Client \cup {None, Wild}]
        BY DEF RoomInv, Room!TypeOK
  <2> QED BY <2>1, <2>2 DEF Room!PollHup, Room!RecvFails
<1>2. i \in 1 .. Len(fds) /\ fds[i] \in PollFds /\ In(fds[i], fds) /\ conn[fds[i]] \in Client
      BY PlaceIs DEF Room!PollHup, Room!RecvFails
<1>3. PICK k \in 1 .. Len(fds) : k = i
      BY <1>2
<1>4. PICK fd \in PollFds : fd = fds[i]
      BY <1>2
<1>5. PICK last \in PollFds : last = fds[Len(fds)]
      BY <1>2, PlaceIs
<1>6. /\ buf' = [bufs EXCEPT ![fd] = bufs[last]]
      /\ write_buf' = [write_buf EXCEPT ![fd] = write_buf[last]]
      /\ conn' = [conn EXCEPT ![fd] = None]
      /\ link' = [link EXCEPT ![conn[fd]] = "over"]
      /\ p_inbox' = [p_inbox EXCEPT ![conn[fd]] = 0]
      /\ so_error' = [so_error EXCEPT ![conn[fd]] = FALSE]
      /\ fds' = Room!Front([fds EXCEPT ![i] = fds[Len(fds)]]) /\ told' = told \ {fd}
      /\ UNCHANGED <<i, events, revents, unread>>
      BY <1>1, <1>4, <1>5 DEF Room!Leave, Room!Current, Room!Without, Room!user_cnt
<1>7. /\ fds' \in Seq(PollFds) /\ Len(fds') = Len(fds) - 1 /\ NoRepeats(fds')
      /\ \A y : In(y, fds') <=> In(y, fds) /\ y # fd
  <2>1. PICK t : t = LastInPlaceOf(fds, k)
        OBVIOUS
  <2>2. /\ t \in Seq(PollFds) /\ Len(t) = Len(fds) - 1 /\ NoRepeats(t)
        /\ \A y : In(y, t) <=> In(y, fds) /\ y # fds[k]
    <3>1. NoRepeats(fds) /\ fds \in Seq(PollFds)
          BY PlaceIs DEF RoomInv
    <3> QED BY <1>3, <2>1, <3>1, Removed
  <2>3. fds' = t
        BY <1>3, <1>6, <2>1 DEF LastInPlaceOf
  <2> QED BY <1>3, <1>4, <2>2, <2>3
<1>8. i' \in -1 .. USER_LIMIT + 1 /\ i' <= Len(fds') + 1 /\ Len(fds') <= USER_LIMIT
      BY <1>2, <1>6, <1>7, PlaceIs, RoomConstants DEF RoomInv, Room!TypeOK
<1>9. /\ buf' \in [PollFds -> Client \cup {None, Wild}] /\ write_buf' \in [PollFds -> PollFds \cup {None, Wild}]
      /\ conn' \in [PollFds -> Client \cup {None}]
      BY <1>1, <1>6 DEF RoomInv, Room!TypeOK
<1>10. /\ link' \in [Client -> {"out", "queued", "up", "fin", "rst", "over"}]
       /\ so_error' \in [Client -> BOOLEAN]
       /\ p_inbox' \in [Client -> 0 .. MaxInbox]
  <2>1. PICK c \in Client : c = conn[fd]
        BY <1>2, <1>4
  <2>2. so_error \in [Client -> BOOLEAN] /\ so_error' = [so_error EXCEPT ![c] = FALSE]
        BY <1>6, <2>1 DEF RoomInv, Room!TypeOK
  <2>3. so_error' \in [Client -> BOOLEAN]
        BY <2>2
  <2>4. p_inbox' \in [Client -> 0 .. MaxInbox]
        BY <1>6, <2>1, RoomConstants DEF RoomInv, Room!TypeOK
  <2>5. link' \in [Client -> {"out", "queued", "up", "fin", "rst", "over"}]
        BY <1>6, <2>1 DEF RoomInv, Room!TypeOK
  <2> QED BY <2>3, <2>4, <2>5
<1>11. Room!TypeOK'
       BY <1>6, <1>7, <1>8, <1>9, <1>10 DEF RoomInv, Room!TypeOK, Room!user_cnt
<1>12. \A f \in PollFds : conn'[f] # None <=> In(f, fds')
       BY <1>6, <1>7 DEF RoomInv, Room!TypeOK
<1>13. \A f \in PollFds : In(f, fds') => (Room!PointsRight(f)' <=> Room!PointsRight(f))
       BY <1>6, <1>7 DEF RoomInv, Room!TypeOK, Room!PointsRight
<1>14. \A f \in PollFds : In(f, fds') /\ "out" \in events'[f] => Room!PointsRight(f)'
       BY <1>6, <1>7, <1>13 DEF RoomInv
<1> QED BY <1>7, <1>8, <1>11, <1>12, <1>14 DEF RoomInv

\* Text is read: every other user is to be written to, from this buffer.
LEMMA RoomReads == ASSUME RoomInv, Room!RecvText PROVE RoomInv'
<1>1. i \in 1 .. Len(fds) /\ fds[i] \in PollFds /\ In(fds[i], fds) /\ conn[fds[i]] \in Client
      BY PlaceIs DEF Room!RecvText
<1>2. PICK fd \in PollFds : fd = fds[i]
      BY <1>1
<1> DEFINE others == Room!ToSet(fds) \ {fd}
<1>3. /\ i' = i + 1 /\ i # -1 /\ i <= Len(fds)
      /\ buf' = [buf EXCEPT ![fd] = conn[fd]]
      /\ events' = [f \in PollFds |-> IF f \in others THEN Room!OrNot(events[f], "in") \cup {"out"}
                                                       ELSE events[f]]
      /\ write_buf' = [f \in PollFds |-> IF f \in others THEN fd ELSE write_buf[f]]
      /\ told' = told \cup others
      /\ UNCHANGED <<fds, revents, conn, link, so_error, unread>>
  <2>1. i # -1 /\ i <= Len(fds)
        BY <1>1, PlaceIs
  <2> QED BY <1>2, <2>1 DEF Room!RecvText, Room!Current
<1>4. p_inbox' \in [Client -> 0 .. MaxInbox]
  <2>1. PICK c \in Client : c = conn[fd]
        BY <1>1, <1>2
  <2>2. PICK left \in 0 .. p_inbox[c] - 1 : p_inbox' = [p_inbox EXCEPT ![c] = left]
        BY <1>2, <2>1 DEF Room!RecvText, Room!Current
  <2>3. p_inbox \in [Client -> 0 .. MaxInbox]
        BY DEF RoomInv, Room!TypeOK
  <2>4. left \in 0 .. MaxInbox
        BY <2>2, <2>3, RoomConstants
  <2> QED BY <2>2, <2>3, <2>4
<1>5. \A f \in PollFds : /\ events[f] \in SUBSET Room!Bits
                         /\ Room!OrNot(events[f], "in") \cup {"out"} \in SUBSET Room!Bits
      BY DEF RoomInv, Room!TypeOK, Room!OrNot, Room!Bits
<1>6. events' \in [PollFds -> SUBSET Room!Bits]
      BY <1>3, <1>5
<1>7. write_buf' \in [PollFds -> PollFds \cup {None, Wild}] /\ buf' \in [PollFds -> Client \cup {None, Wild}]
      BY <1>1, <1>2, <1>3 DEF RoomInv, Room!TypeOK
<1>8. i' \in -1 .. USER_LIMIT + 1 /\ i' <= Len(fds) + 1
      BY <1>3, PlacesInRange
<1>9. Room!TypeOK'
  <2>1. others \subseteq PollFds
        BY PlaceIs DEF Room!ToSet
  <2> HIDE DEF others
  <2> QED BY <1>3, <1>4, <1>6, <1>7, <1>8, <2>1 DEF RoomInv, Room!TypeOK, Room!user_cnt
<1>10. \A f \in PollFds : In(f, fds) /\ "out" \in events'[f] => Room!PointsRight(f)'
  <2>1. fd \notin others
        OBVIOUS
  <2> HIDE DEF others
  <2>2. ASSUME NEW f \in PollFds, f \in others PROVE Room!PointsRight(f)'
        BY <1>3, <2>1, <2>2 DEF Room!PointsRight
  <2>3. ASSUME NEW f \in PollFds, f \notin others
        PROVE  events'[f] = events[f] /\ (Room!PointsRight(f)' <=> Room!PointsRight(f))
        BY <1>3, <2>3 DEF Room!PointsRight
  <2> QED BY <2>2, <2>3 DEF RoomInv
<1> QED BY <1>3, <1>8, <1>9, <1>10 DEF RoomInv, In, NoRepeats

LEMMA RoomSends == ASSUME RoomInv, Room!Send PROVE RoomInv'
<1>1. i \in 1 .. Len(fds) /\ fds[i] \in PollFds /\ In(fds[i], fds) /\ conn[fds[i]] \in Client
      BY PlaceIs DEF Room!Send
<1>2. PICK fd \in PollFds : fd = fds[i]
      BY <1>1
<1>3. PICK c \in Client : c = conn[fd]
      BY <1>1, <1>2
<1>4. /\ i' = i + 1 /\ i # -1 /\ i <= Len(fds)
      /\ UNCHANGED <<fds, revents, buf, conn, p_inbox>>
  <2>1. i # -1 /\ i <= Len(fds)
        BY <1>1, PlaceIs
  <2> QED BY <2>1 DEF Room!Send
<1>5. \/ UNCHANGED <<write_buf, events, told>>
      \/ /\ write_buf' = [write_buf EXCEPT ![fd] = None] /\ told' = told \ {fd}
         /\ events' = [events EXCEPT ![fd] = Room!OrNot(@, "out") \cup {"in"}]
      BY <1>2 DEF Room!Send, Room!Current
<1>6. PICK text \in Room!Sent(fd) :
        /\ unread' = [unread EXCEPT ![c] = unread[c] \/ (text # None /\ link[c] = "up")]
        /\ \/ link' = [link EXCEPT ![c] = "rst"] /\ so_error' = [so_error EXCEPT ![c] = TRUE]
           \/ so_error' = [so_error EXCEPT ![c] = so_error[c] /\ text = None] /\ link' = link
  <2>1. PICK text \in Room!Sent(fd) :
          /\ unread' = [unread EXCEPT ![c] = unread[c] \/ (text # None /\ link[c] = "up")]
          /\ IF text # None /\ link[c] = "fin"
             THEN link' = [link EXCEPT ![c] = "rst"] /\ so_error' = [so_error EXCEPT ![c] = TRUE]
             ELSE /\ so_error' = [so_error EXCEPT ![c] = so_error[c] /\ text = None]
                  /\ UNCHANGED link
        BY <1>2, <1>3, Zenon DEF Room!Send, Room!Current
  <2> QED BY <2>1
<1>7. /\ unread' \in [Client -> BOOLEAN]
      /\ link' \in [Client -> {"out", "queued", "up", "fin", "rst", "over"}]
      /\ so_error' \in [Client -> BOOLEAN]
  <2>1. /\ unread \in [Client -> BOOLEAN] /\ so_error \in [Client -> BOOLEAN]
        /\ (unread[c] \/ (text # None /\ link[c] = "up")) \in BOOLEAN
        /\ (so_error[c] /\ text = None) \in BOOLEAN
        BY DEF RoomInv, Room!TypeOK
  <2>2. unread' \in [Client -> BOOLEAN] /\ so_error' \in [Client -> BOOLEAN]
        BY <1>6, <2>1
  <2>3. link' \in [Client -> {"out", "queued", "up", "fin", "rst", "over"}]
        BY <1>6 DEF RoomInv, Room!TypeOK
  <2> QED BY <2>2, <2>3
<1>8. /\ events' \in [PollFds -> SUBSET Room!Bits]
      /\ write_buf' \in [PollFds -> PollFds \cup {None, Wild}]
  <2>1. events \in [PollFds -> SUBSET Room!Bits] /\ write_buf \in [PollFds -> PollFds \cup {None, Wild}]
        BY DEF RoomInv, Room!TypeOK
  <2>2. Room!OrNot(events[fd], "out") \cup {"in"} \in SUBSET Room!Bits
        BY <2>1 DEF Room!OrNot, Room!Bits
  <2>3. \/ events' = events
        \/ events' = [events EXCEPT ![fd] = Room!OrNot(events[fd], "out") \cup {"in"}]
        BY <1>5
  <2>4. write_buf' \in [PollFds -> PollFds \cup {None, Wild}]
        BY <1>5, <2>1
  <2> QED BY <2>1, <2>2, <2>3, <2>4
<1>9. i' \in -1 .. USER_LIMIT + 1 /\ i' <= Len(fds) + 1
      BY <1>4, PlacesInRange
<1>10. Room!TypeOK'
       BY <1>4, <1>5, <1>7, <1>8, <1>9 DEF RoomInv, Room!TypeOK, Room!user_cnt
<1>11. \A f \in PollFds : In(f, fds) /\ "out" \in events'[f] => Room!PointsRight(f)'
  <2>1. CASE UNCHANGED <<write_buf, events, told>>
        BY <2>1 DEF RoomInv, Room!PointsRight
  <2>2. CASE /\ write_buf' = [write_buf EXCEPT ![fd] = None] /\ told' = told \ {fd}
             /\ events' = [events EXCEPT ![fd] = Room!OrNot(@, "out") \cup {"in"}]
    <3>1. Room!PointsRight(fd)'
          BY <2>2 DEF RoomInv, Room!TypeOK, Room!PointsRight
    <3>2. ASSUME NEW f \in PollFds, f # fd
          PROVE  events'[f] = events[f] /\ (Room!PointsRight(f)' <=> Room!PointsRight(f))
          BY <2>2, <3>2 DEF RoomInv, Room!TypeOK, Room!PointsRight
    <3> QED BY <3>1, <3>2 DEF RoomInv
  <2> QED BY <1>5, <2>1, <2>2
<1> QED BY <1>4, <1>9, <1>10, <1>11 DEF RoomInv, In, NoRepeats

LEMMA RoomStep == RoomInv /\ [Room!Next]_(Room!vars) => RoomInv'
<1> SUFFICES ASSUME RoomInv, [Room!Next]_(Room!vars) PROVE RoomInv'
    OBVIOUS
<1>1. CASE UNCHANGED Room!vars
  <2>1. UNCHANGED <<i, fds, events, revents, buf, write_buf, conn, link, so_error, p_inbox, unread,
                    told>>
        BY <1>1 DEF Room!vars, Room!users, Room!kernel
  <2>2. Room!TypeOK'
        BY <2>1 DEF RoomInv, Room!TypeOK, Room!user_cnt
  <2> QED BY <2>1, <2>2 DEF RoomInv, In, NoRepeats, Room!PointsRight
<1>2. CASE Room!main
      BY <1>2, RoomLooks, RoomAccepts, RoomLeaves, RoomReads, RoomSends DEF Room!main
<1> QED BY <1>1, <1>2, RoomClients DEF Room!Next

LEMMA RoomOfEach ==
    /\ EachInit => Room!Init
    /\ [EachNext]_all => [Room!Next]_(Room!vars)
BY DEF EachInit, EachNext, all, room, Room!vars, Room!users, Room!kernel

\* Whatever order users come and leave in: fds is the open sockets, each once, and a
\* socket that may be written to points to NULL, or to another one's buffer because
\* main has read a text for it since it was accepted and has not sent it yet.
THEOREM NeverWild == EachSpec => []NoWildPointer
<1>1. EachInit => RoomInv
      BY RoomOfEach, RoomInit
<1>2. RoomInv /\ [EachNext]_all => RoomInv'
      BY RoomOfEach, RoomStep
<1>3. ASSUME RoomInv PROVE Room!NoWildPointer
  <2>1. DOMAIN fds = 1 .. Len(fds) /\ \A k \in DOMAIN fds : fds[k] \in PollFds
        BY <1>3, PlaceIs
  <2>2. Room!IsInjective(fds)
        BY <1>3, <2>1 DEF RoomInv, NoRepeats, Room!IsInjective
  <2>3. \A fd : fd \in Room!ToSet(fds) <=> fd \in PollFds /\ In(fd, fds)
        BY <2>1 DEF Room!ToSet, In
  <2>4. Room!ToSet(fds) = {fd \in PollFds : conn[fd] # None}
        BY <1>3, <2>3 DEF RoomInv
  <2> QED BY <1>3, <2>2, <2>3, <2>4 DEF RoomInv, Room!NoWildPointer
<1> QED BY <1>1, <1>2, <1>3, PTL DEF EachSpec, NoWildPointer
=============================================================================
