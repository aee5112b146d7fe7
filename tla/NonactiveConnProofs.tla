------------------------- MODULE NonactiveConnProofs -------------------------
(***************************************************************************)
(* Proofs about SortedTimerLst and NonactiveConn, for every number of      *)
(* timers and descriptors, every TIMESLOT and every bound: the list stays  *)
(* well linked and implements Timers, and the server that uses it keeps    *)
(* one timer for each connection and never hangs up early.                 *)
(***************************************************************************)
EXTENDS NonactiveConn, TLAPS

-----------------------------------------------------------------------------
(* The list.                                                               *)

\* The links alone do not say that the list is one chain, so the invariant also
\* says that the timers can be numbered along it: the numbers grow with next,
\* nothing lies between a timer and its successor, and expiries grow with them.
Numbering(pos) ==
    /\ \A t, u \in Chain : pos[t] = pos[u] => t = u
    /\ \A t, u \in Chain : pos[t] < pos[u] => expire[t] <= expire[u]
    /\ \A t \in Chain : next[t] = Null => \A u \in Chain : pos[u] <= pos[t]
    /\ \A t \in Chain : prev[t] = Null => \A u \in Chain : pos[t] <= pos[u]
    /\ \A t \in Chain : next[t] # Null =>
          /\ pos[t] < pos[next[t]]
          /\ \A u \in Chain : pos[u] <= pos[t] \/ pos[next[t]] <= pos[u]

\* What the functions know while they run.
Locals ==
    /\ running = "addTimer" => /\ target \in live /\ at \in Chain
                               /\ expire[at] <= expire[target]
    /\ running = "tick" => cur = head

IInv == Linked /\ Locals /\ \E pos \in [Timer -> Int] : Numbering(pos)

LEMMA Constants == MaxClock \in Nat /\ MaxDelay \in Nat /\ Null \notin Timer
BY TimerAssumption DEF TimerAssumption

LEMMA InitIInv == Init => IInv
<1> SUFFICES ASSUME Init PROVE IInv
    OBVIOUS
<1> USE DEF Init, ListInit
<1>1. TypeOK
      BY Constants DEF TypeOK, Pointer, Time
<1>2. Chain = {}
      BY DEF Chain
<1>3. Linked /\ Locals
      BY <1>1, <1>2 DEF Linked, Locals
<1>4. Numbering([t \in Timer |-> 0])
      BY <1>2 DEF Numbering
<1> QED BY <1>3, <1>4 DEF IInv

\* A numbering in which there is room for t right after number a.
WithRoom(new, pos, t, a) ==
    \A u \in Timer :
        new[u] = IF u = t THEN a + 1 ELSE IF pos[u] <= a THEN pos[u] ELSE pos[u] + 1

LEMMA MakeRoom ==
    \A pos \in [Timer -> Int], t \in Timer, a \in Int :
       \E new \in [Timer -> Int] : WithRoom(new, pos, t, a)
<1> TAKE pos \in [Timer -> Int], t \in Timer, a \in Int
<1> DEFINE new == [u \in Timer |-> IF u = t THEN a + 1
                                   ELSE IF pos[u] <= a THEN pos[u] ELSE pos[u] + 1]
<1>1. new \in [Timer -> Int]
      OBVIOUS
<1> QED BY <1>1 DEF WithRoom

LEMMA Basics ==
    ASSUME Linked
    PROVE  Chain \subseteq Timer /\ live \subseteq Timer /\ expire \in [Timer -> Int]
BY Constants DEF Linked, TypeOK, Time, Chain

\* A timer is put into the chain behind at.
LEMMA Insertion ==
    ASSUME Linked, TypeOK', NEW pos \in [Timer -> Int], Numbering(pos),
           NEW t \in Timer \ Chain, NEW a \in Chain, Chain' = Chain \cup {t},
           \A u \in Chain : next'[u] = IF u = a THEN t ELSE next[u],
           \A u \in Chain : prev'[u] = IF u = next[a] THEN t ELSE prev[u],
           next'[t] = next[a], prev'[t] = a,
           head' = head, tail' = IF next[a] = Null THEN t ELSE tail,
           \A u \in Chain : expire'[u] = expire[u],
           expire[a] <= expire'[t],
           next[a] # Null => expire'[t] <= expire[next[a]]
    PROVE  Linked' /\ \E new \in [Timer -> Int] : Numbering(new)'
<1>1. Chain \subseteq Timer /\ expire \in [Timer -> Int] /\ expire' \in [Timer -> Int]
      BY Basics, Constants DEF TypeOK, Time
<1>2. Linked'
      BY <1>1, Constants DEF Linked
<1>3. PICK new \in [Timer -> Int] : WithRoom(new, pos, t, pos[a])
  <2>1. pos[a] \in Int
        BY <1>1
  <2> QED BY <2>1, MakeRoom
<1>4. \A u \in Chain : new[u] = IF pos[u] <= pos[a] THEN pos[u] ELSE pos[u] + 1
      BY <1>1, <1>3 DEF WithRoom
<1>5. new[t] = pos[a] + 1
      BY <1>3 DEF WithRoom
<1>6. next[a] # Null => next[a] \in Chain /\ pos[a] < pos[next[a]]
      BY DEF Numbering, Linked
<1>7. \A u \in Chain : u = a \/ pos[u] < pos[a] \/ (next[a] # Null /\ pos[next[a]] <= pos[u])
  <2>1. \A u \in Chain : pos[u] \in Int
        BY <1>1
  <2>2. CASE next[a] = Null
        BY <2>1, <2>2 DEF Numbering
  <2>3. CASE next[a] # Null
        BY <2>1, <2>3 DEF Numbering
  <2> QED BY <2>2, <2>3
<1>8. Numbering(new)'
  <2>1. \A s, u \in Chain' : new[s] = new[u] => s = u
        BY <1>1, <1>4, <1>5 DEF Numbering
  <2>2. \A s, u \in Chain' : new[s] < new[u] => expire'[s] <= expire'[u]
    <3>1. \A s, u \in Chain : new[s] < new[u] => expire'[s] <= expire'[u]
          BY <1>1, <1>4 DEF Numbering
    <3>2. \A s \in Chain : new[s] < new[t] => expire'[s] <= expire'[t]
          BY <1>1, <1>4, <1>5, <1>7, <1>6 DEF Numbering
    <3>3. \A s \in Chain : new[t] < new[s] => expire'[t] <= expire'[s]
          BY <1>1, <1>4, <1>5, <1>7, <1>6 DEF Numbering
    <3> QED BY <1>5, <3>1, <3>2, <3>3
  <2>3. \A s \in Chain' : next'[s] = Null => \A u \in Chain' : new[u] <= new[s]
        BY <1>1, <1>4, <1>5, <1>6, <1>7, Constants DEF Numbering
  <2>4. \A s \in Chain' : prev'[s] = Null => \A u \in Chain' : new[s] <= new[u]
        BY <1>1, <1>4, <1>5, <1>6, <1>7, Constants DEF Numbering
  <2>5. \A s \in Chain' : next'[s] # Null =>
          /\ new[s] < new[next'[s]]
          /\ \A u \in Chain' : new[u] <= new[s] \/ new[next'[s]] <= new[u]
    <3>1. CASE next[a] = Null
          BY <1>1, <1>4, <1>5, <1>6, <1>7, <3>1, Constants DEF Numbering, Linked
    <3>2. CASE next[a] # Null
          BY <1>1, <1>4, <1>5, <1>6, <1>7, <3>2, Constants DEF Numbering, Linked
    <3> QED BY <3>1, <3>2
  <2> QED BY <2>1, <2>2, <2>3, <2>4, <2>5 DEF Numbering
<1> QED BY <1>2, <1>8

\* A timer is taken out of the chain: what numbered the chain numbers the rest.
LEMMA Removal ==
    ASSUME Linked, TypeOK', NEW pos \in [Timer -> Int], Numbering(pos),
           NEW t \in Chain, Chain' = Chain \ {t},
           \A u \in Chain' : next'[u] = IF next[u] = t THEN next[t] ELSE next[u],
           \A u \in Chain' : prev'[u] = IF prev[u] = t THEN prev[t] ELSE prev[u],
           head' = IF t = head THEN next[t] ELSE head,
           Chain' # {} => tail' = IF t = tail THEN prev[t] ELSE tail,
           \A u \in Chain' : expire'[u] = expire[u]
    PROVE  Linked' /\ Numbering(pos)'
<1>1. Chain \subseteq Timer /\ expire \in [Timer -> Int]
      BY Basics
<1>2. next[t] # t /\ prev[t] # t
      BY <1>1, Constants DEF Numbering, Linked
<1>3. \A u \in Chain' : next'[u] # Null =>
          next'[u] \in Chain' /\ prev'[next'[u]] = u /\ expire'[u] <= expire'[next'[u]]
      BY <1>1, <1>2, Constants DEF Linked
<1>4. \A u \in Chain' : prev'[u] # Null => prev'[u] \in Chain' /\ next'[prev'[u]] = u
      BY <1>1, <1>2, Constants DEF Linked
<1>5. t = head /\ t = tail => Chain' = {}
      BY <1>1, Constants DEF Linked, Numbering
<1>6. Linked'
      BY <1>1, <1>2, <1>3, <1>4, <1>5, Constants DEF Linked
<1>7. Numbering(pos)'
  <2>1. \A s, u \in Chain' : pos[s] = pos[u] => s = u
        BY DEF Numbering
  <2>2. \A s, u \in Chain' : pos[s] < pos[u] => expire'[s] <= expire'[u]
        BY DEF Numbering
  <2>3. \A u \in Chain : pos[u] \in Int
        BY <1>1
  <2>4. \A s \in Chain' : next'[s] = Null => \A u \in Chain' : pos[u] <= pos[s]
    <3> SUFFICES ASSUME NEW s \in Chain', next'[s] = Null, NEW u \in Chain'
                 PROVE  pos[u] <= pos[s]
        OBVIOUS
    <3>1. CASE next[s] = t
          BY <1>2, <2>3, <3>1, Constants DEF Numbering, Linked
    <3>2. CASE next[s] # t
          BY <3>2, Constants DEF Numbering, Linked
    <3> QED BY <3>1, <3>2
  <2>5. \A s \in Chain' : prev'[s] = Null => \A u \in Chain' : pos[s] <= pos[u]
    <3> SUFFICES ASSUME NEW s \in Chain', prev'[s] = Null, NEW u \in Chain'
                 PROVE  pos[s] <= pos[u]
        OBVIOUS
    <3>1. CASE prev[s] = t
          BY <1>2, <2>3, <3>1, Constants DEF Numbering, Linked
    <3>2. CASE prev[s] # t
          BY <3>2, Constants DEF Numbering, Linked
    <3> QED BY <3>1, <3>2
  <2>6. \A s \in Chain' : next'[s] # Null =>
          /\ pos[s] < pos[next'[s]]
          /\ \A u \in Chain' : pos[u] <= pos[s] \/ pos[next'[s]] <= pos[u]
    <3> SUFFICES ASSUME NEW s \in Chain', next'[s] # Null
                 PROVE  /\ pos[s] < pos[next'[s]]
                        /\ \A u \in Chain' : pos[u] <= pos[s] \/ pos[next'[s]] <= pos[u]
        OBVIOUS
    <3>1. CASE next[s] = t
      <4>1. pos[s] < pos[t] /\ pos[t] < pos[next[t]] /\ next[t] \in Chain /\ next'[s] = next[t]
        <5>1. next[s] # Null /\ next'[s] = next[t] /\ next[t] # Null
              BY <1>1, <3>1, Constants
        <5>2. pos[s] < pos[t] /\ pos[t] < pos[next[t]]
              BY <3>1, <5>1 DEF Numbering
        <5> QED BY <5>1, <5>2 DEF Linked
      <4>2. \A u \in Chain' : pos[u] <= pos[s] \/ pos[t] < pos[u]
            BY <2>3, <3>1, Constants DEF Numbering
      <4>3. \A u \in Chain' : pos[u] <= pos[t] \/ pos[next[t]] <= pos[u]
            BY <3>1, Constants DEF Numbering
      <4> QED BY <2>3, <4>1, <4>2, <4>3
    <3>2. CASE next[s] # t
          BY <3>2, Constants DEF Numbering, Linked
    <3> QED BY <3>1, <3>2
  <2> QED BY <2>1, <2>2, <2>4, <2>5, <2>6 DEF Numbering
<1> QED BY <1>6, <1>7

LEMMA InsertHereKeepsIInv ==
    ASSUME IInv, InsertHere PROVE IInv'
<1> USE DEF IInv, InsertHere, Ends, SpliceBack
<1>1. /\ Chain' = Chain \cup {target} /\ target \notin Chain
      /\ at \in Chain /\ target \in live /\ next[at] \in Chain
      BY DEF Chain, Locals, Linked
<1>2. Chain \subseteq Timer /\ live \subseteq Timer
      BY Basics
<1>3. TypeOK'
      BY <1>1, <1>2, Constants DEF Linked, TypeOK, Pointer
<1>4. expire[at] <= expire[target] /\ expire[target] <= expire[next[at]]
      BY <1>1, <1>2, Basics DEF Locals, GoesBefore
<1>5. PICK pos \in [Timer -> Int] : Numbering(pos)
      OBVIOUS
<1>6. /\ \A u \in Chain : next'[u] = IF u = at THEN target ELSE next[u]
      /\ \A u \in Chain : prev'[u] = IF u = next[at] THEN target ELSE prev[u]
      /\ next'[target] = next[at] /\ prev'[target] = at
      BY <1>1, <1>2 DEF Linked, TypeOK
<1>7. Linked' /\ \E new \in [Timer -> Int] : Numbering(new)'
      BY <1>1, <1>2, <1>3, <1>4, <1>5, <1>6, Insertion
<1> QED BY <1>7 DEF Locals

LEMMA StepOverKeepsIInv ==
    ASSUME IInv, StepOver PROVE IInv'
<1> USE DEF IInv, StepOver, links
<1>1. Chain' = Chain /\ next[at] \in Chain
      BY DEF Chain, Locals, Linked
<1>2. Chain \subseteq Timer /\ live \subseteq Timer /\ expire \in [Timer -> Int]
      BY Basics
<1>3. Linked'
      BY <1>1, <1>2 DEF Linked, TypeOK, Pointer
<1>4. Locals'
      BY <1>1, <1>2 DEF Locals, GoesBefore
<1>5. \E pos \in [Timer -> Int] : Numbering(pos)'
      BY <1>1 DEF Numbering
<1> QED BY <1>3, <1>4, <1>5

LEMMA AppendHereKeepsIInv ==
    ASSUME IInv, AppendHere PROVE IInv'
<1> USE DEF IInv, AppendHere, Ends
<1>1. /\ Chain' = Chain \cup {target} /\ target \notin Chain
      /\ at \in Chain /\ target \in live
      BY DEF Chain, Locals
<1>2. Chain \subseteq Timer /\ live \subseteq Timer
      BY Basics
<1>3. TypeOK'
      BY <1>1, <1>2, Constants DEF Linked, TypeOK, Pointer
<1>4. PICK pos \in [Timer -> Int] : Numbering(pos)
      OBVIOUS
<1>5. /\ \A u \in Chain : next'[u] = IF u = at THEN target ELSE next[u]
      /\ \A u \in Chain : prev'[u] = IF u = next[at] THEN target ELSE prev[u]
      /\ next'[target] = next[at] /\ prev'[target] = at
      BY <1>1, <1>2, Constants DEF Linked, TypeOK
<1>6. Linked' /\ \E new \in [Timer -> Int] : Numbering(new)'
      BY <1>1, <1>2, <1>3, <1>4, <1>5, Insertion DEF Locals
<1> QED BY <1>6 DEF Locals

\* A timer due before all the others becomes the head.
LEMMA PushFront ==
    ASSUME Linked, TypeOK', NEW pos \in [Timer -> Int], Numbering(pos),
           NEW t \in Timer \ Chain, head # Null, Chain' = Chain \cup {t},
           \A u \in Chain : next'[u] = next[u],
           \A u \in Chain : prev'[u] = IF u = head THEN t ELSE prev[u],
           next'[t] = head, prev'[t] = Null, head' = t, tail' = tail,
           \A u \in Chain : expire'[u] = expire[u], expire'[t] < expire[head]
    PROVE  Linked' /\ \E new \in [Timer -> Int] : Numbering(new)'
<1>1. Chain \subseteq Timer /\ expire \in [Timer -> Int] /\ expire' \in [Timer -> Int]
      BY Basics, Constants DEF TypeOK, Time
<1>2. head \in Chain /\ pos[head] \in Int /\ \A u \in Chain : pos[u] \in Int
      BY <1>1 DEF Linked
<1>3. \A u \in Chain : pos[head] <= pos[u] /\ expire[head] <= expire[u]
      BY <1>1, <1>2 DEF Linked, Numbering
<1>4. Linked'
      BY <1>1, <1>2, Constants DEF Linked
<1> DEFINE new == [pos EXCEPT ![t] = pos[head] - 1]
<1>5. new \in [Timer -> Int] /\ new[t] = pos[head] - 1 /\ \A u \in Chain : new[u] = pos[u]
      BY <1>1, <1>2
<1> HIDE DEF new
<1>6. PICK m \in [Timer -> Int] : m[t] = pos[head] - 1 /\ \A u \in Chain : m[u] = pos[u]
      BY <1>5
<1>7. Numbering(m)'
  <2>1. \A s, u \in Chain' : m[s] = m[u] => s = u
        BY <1>2, <1>3, <1>6 DEF Numbering
  <2>2. \A s, u \in Chain' : m[s] < m[u] => expire'[s] <= expire'[u]
        BY <1>1, <1>2, <1>3, <1>6 DEF Numbering
  <2>3. \A s \in Chain' : next'[s] = Null => \A u \in Chain' : m[u] <= m[s]
        BY <1>2, <1>3, <1>6 DEF Numbering
  <2>4. \A s \in Chain' : prev'[s] = Null => \A u \in Chain' : m[s] <= m[u]
        BY <1>1, <1>2, <1>3, <1>6, Constants DEF Numbering, Linked
  <2>5. \A s \in Chain' : next'[s] # Null =>
          /\ m[s] < m[next'[s]]
          /\ \A u \in Chain' : m[u] <= m[s] \/ m[next'[s]] <= m[u]
        BY <1>2, <1>3, <1>6 DEF Numbering, Linked
  <2> QED BY <2>1, <2>2, <2>3, <2>4, <2>5 DEF Numbering
<1> QED BY <1>4, <1>7

LEMMA addTimerKeepsIInv ==
    ASSUME IInv, running = "none", NEW t \in Timer, NEW e \in Time, addTimer(t, e), UNCHANGED now
    PROVE  IInv'
<1> USE DEF IInv, addTimer
<1>1. /\ Chain = live /\ live \subseteq Timer /\ t \notin live /\ t # Null
      /\ expire \in [Timer -> Int] /\ e \in Int
      BY Basics, Constants DEF Chain, Time
<1>2. TypeOK'
      BY <1>1, Constants DEF Linked, TypeOK, Pointer, Walk
<1>3. expire' = [expire EXCEPT ![t] = e] /\ live' = live \cup {t}
      OBVIOUS
<1>4. CASE head = Null
  <2>1. Chain' = {t}
        BY <1>1, <1>4 DEF Linked, Chain
  <2>2. next'[t] = Null /\ prev'[t] = Null /\ head' = t /\ tail' = t
        BY <1>1, <1>4 DEF Linked, TypeOK
  <2>3. Linked'
        BY <1>1, <1>2, <2>1, <2>2 DEF Linked
  <2>4. Numbering([u \in Timer |-> 0])'
        BY <1>1, <2>1, <2>2 DEF Numbering
  <2>5. Locals'
        BY <1>4 DEF Locals
  <2> QED BY <2>3, <2>4, <2>5
<1>5. CASE head # Null /\ e < expire[head]
  <2>1. Chain' = Chain \cup {t} /\ running' = running /\ head \in Chain
        BY <1>1, <1>5 DEF Linked, Chain
  <2>2. /\ \A u \in Chain : next'[u] = next[u]
        /\ \A u \in Chain : prev'[u] = IF u = head THEN t ELSE prev[u]
        /\ next'[t] = head /\ prev'[t] = Null /\ head' = t /\ tail' = tail
        BY <1>1, <1>5, <2>1 DEF Linked, TypeOK
  <2>3. PICK pos \in [Timer -> Int] : Numbering(pos)
        OBVIOUS
  <2>4. Linked' /\ \E new \in [Timer -> Int] : Numbering(new)'
        BY <1>1, <1>2, <1>3, <1>5, <2>1, <2>2, <2>3, PushFront
  <2> QED BY <2>1, <2>4 DEF Locals
<1>6. CASE head # Null /\ e >= expire[head]
  <2>1. /\ Chain' = Chain /\ UNCHANGED <<head, tail>>
        /\ running' = "addTimer" /\ target' = t /\ at' = head /\ head \in live
        BY <1>1, <1>5, <1>6 DEF Linked, Chain, Walk
  <2>2. /\ \A u \in Chain : next'[u] = next[u] /\ prev'[u] = prev[u]
        /\ \A u \in Chain : expire'[u] = expire[u]
        BY <1>1, <1>6 DEF Linked, TypeOK
  <2>3. Linked'
        BY <1>1, <1>2, <2>1, <2>2, Constants DEF Linked
  <2>4. Locals'
        BY <1>1, <1>3, <1>6, <2>1 DEF Locals
  <2>5. \E pos \in [Timer -> Int] : Numbering(pos)'
        BY <2>1, <2>2, <1>1, Constants DEF Numbering, Linked
  <2> QED BY <2>3, <2>4, <2>5
<1> QED BY <1>4, <1>5, <1>6

LEMMA adjustTimerKeepsIInv ==
    ASSUME IInv, running = "none", NEW t \in Timer, NEW e \in Time, Postpone(t, e), UNCHANGED now
    PROVE  IInv'
<1> USE DEF IInv, Postpone, adjustTimer
<1>1. /\ Chain = live /\ live \subseteq Timer /\ t \in live /\ t # Null
      /\ expire \in [Timer -> Int] /\ e \in Int /\ live' = live
      BY Basics, Constants DEF Chain, Time
<1>2. TypeOK'
  <2>1. next[t] \in Pointer /\ prev[t] \in Pointer
        BY DEF Linked, TypeOK
  <2>2. expire' \in [Timer -> Time]
        BY DEF Linked, TypeOK
  <2>3. next' \in [Timer -> Pointer] /\ prev' \in [Timer -> Pointer]
        BY <2>1, Constants DEF Linked, TypeOK, Pointer, links
  <2>4. head' \in Pointer /\ tail' \in Pointer /\ running' \in {"none", "addTimer", "tick"}
        BY <2>1 DEF Linked, TypeOK, Walk, links
  <2>5. target' \in Pointer /\ at' \in Pointer
        BY <2>1 DEF Linked, TypeOK, Walk, Pointer
  <2> QED BY <2>2, <2>3, <2>4, <2>5 DEF Linked, TypeOK
<1>3. expire' = [expire EXCEPT ![t] = e] /\ expire[t] <= e
      BY <1>1
<1>4. PICK pos \in [Timer -> Int] : Numbering(pos)
      OBVIOUS
<1>5. CASE StaysPut(t, e)
  <2>1. Chain' = Chain /\ UNCHANGED <<links, running, target, at>>
        BY <1>1, <1>5 DEF Chain
  <2>2. \A u \in Chain : pos[t] < pos[u] => e <= expire[u]
        BY <1>1, <1>4, <1>5 DEF StaysPut, Numbering, Linked
  <2>3. Numbering(pos)'
        BY <1>1, <1>3, <1>4, <2>1, <2>2 DEF Numbering, links
  <2>4. Linked'
        BY <1>1, <1>2, <1>3, <1>5, <2>1 DEF Linked, links, StaysPut
  <2> QED BY <2>1, <2>3, <2>4 DEF Locals
<1>6. CASE ~StaysPut(t, e)
  <2>1. Chain' = Chain \ {t} /\ running' = "addTimer" /\ target' = t
        BY <1>1, <1>6 DEF Chain, Walk
  <2>2. next[t] # Null /\ next[t] \in Chain /\ e >= expire[next[t]] /\ t # tail /\ next[t] # t
        BY <1>1, <1>4, <1>6 DEF StaysPut, Linked, Numbering
  <2>3. \A u \in Chain' : expire'[u] = expire[u]
        BY <1>1, <1>3, <2>1
  <2>4. CASE t = head
    <3>1. /\ head' = next[t] /\ prev' = [prev EXCEPT ![next[t]] = Null]
          /\ next' = [next EXCEPT ![t] = Null] /\ at' = next[t] /\ tail' = tail
          BY <1>6, <2>4 DEF Walk
    <3>2. /\ \A u \in Chain' : next'[u] = IF next[u] = t THEN next[t] ELSE next[u]
          /\ \A u \in Chain' : prev'[u] = IF prev[u] = t THEN prev[t] ELSE prev[u]
          BY <1>1, <2>1, <2>2, <2>4, <3>1, Constants DEF Linked, TypeOK
    <3>3. Linked' /\ Numbering(pos)'
          BY <1>1, <1>2, <1>4, <2>1, <2>2, <2>3, <2>4, <3>1, <3>2, Removal
    <3>4. Locals'
          BY <1>1, <1>3, <2>1, <2>2, <3>1 DEF Locals
    <3> QED BY <3>3, <3>4
  <2>5. CASE t # head
    <3>1. /\ next' = [next EXCEPT ![prev[t]] = next[t]]
          /\ prev' = [prev EXCEPT ![next[t]] = prev[t]]
          /\ at' = head /\ UNCHANGED <<head, tail>>
          BY <1>6, <2>5 DEF Walk
    <3>2. prev[t] # Null /\ prev[t] \in Chain /\ next[prev[t]] = t
          BY <1>1, <2>5 DEF Linked
    <3>3. /\ \A u \in Chain' : next'[u] = IF next[u] = t THEN next[t] ELSE next[u]
          /\ \A u \in Chain' : prev'[u] = IF prev[u] = t THEN prev[t] ELSE prev[u]
          BY <1>1, <2>1, <2>2, <3>1, <3>2, Constants DEF Linked, TypeOK
    <3>4. Linked' /\ Numbering(pos)'
          BY <1>1, <1>2, <1>4, <2>1, <2>2, <2>3, <2>5, <3>1, <3>3, Removal
    <3>5. head \in Chain /\ pos[head] <= pos[t] /\ expire[head] <= expire[t]
          BY <1>1, <1>4 DEF Linked, Numbering
    <3>6. Locals'
          BY <1>1, <1>3, <2>1, <2>5, <3>1, <3>5 DEF Locals
    <3> QED BY <3>4, <3>6
  <2> QED BY <2>4, <2>5
<1> QED BY <1>5, <1>6

LEMMA Alone ==
    ASSUME Linked, NEW pos \in [Timer -> Int], Numbering(pos),
           NEW t \in Chain, prev[t] = Null, next[t] = Null
    PROVE  Chain = {t}
<1>1. \A u \in Chain : pos[u] \in Int
      BY Basics
<1> QED BY <1>1 DEF Numbering

LEMMA delTimerKeepsIInv ==
    ASSUME IInv, running = "none", NEW t \in Timer, Cancel(t), UNCHANGED now
    PROVE  IInv'
<1> USE DEF IInv, Cancel, delTimer
<1>1. /\ Chain = live /\ live \subseteq Timer /\ t \in live /\ t # Null
      /\ live' = live \ {t} /\ running' = "none" /\ Chain' = Chain \ {t}
      BY Basics, Constants DEF Chain
<1>2. next[t] \in Pointer /\ prev[t] \in Pointer
      BY DEF Linked, TypeOK
<1>3. TypeOK'
  <2>1. expire' \in [Timer -> Time] /\ live' \subseteq Timer
        BY <1>1, Constants DEF Linked, TypeOK, Time
  <2>2. next' \in [Timer -> Pointer] /\ prev' \in [Timer -> Pointer]
        BY <1>2, Constants DEF Linked, TypeOK, Pointer
  <2>3. head' \in Pointer /\ tail' \in Pointer
        BY <1>2, Constants DEF Linked, TypeOK, Pointer
  <2> QED BY <2>1, <2>2, <2>3 DEF Linked, TypeOK, locals
<1>4. PICK pos \in [Timer -> Int] : Numbering(pos)
      OBVIOUS
<1>5. \A u \in Chain' : expire'[u] = expire[u]
      BY <1>1 DEF Linked, TypeOK
<1>6. /\ (t = head) <=> (prev[t] = Null)
      /\ (t = tail) <=> (next[t] = Null)
      /\ next[t] # Null => next[t] \in Chain /\ prev[next[t]] = t
      /\ prev[t] # Null => prev[t] \in Chain /\ next[prev[t]] = t
      BY <1>1 DEF Linked
<1>7. CASE t = head /\ t = tail
  <2>1. Chain' = {}
        BY <1>1, <1>4, <1>6, <1>7, Alone
  <2>2. head' = next[t]
        BY <1>6, <1>7
  <2> QED BY <1>1, <1>3, <1>4, <1>7, <2>1, <2>2, Removal DEF Locals
<1>8. CASE ~(t = head /\ t = tail)
  <2>1. /\ \A u \in Chain' : next'[u] = IF next[u] = t THEN next[t] ELSE next[u]
        /\ \A u \in Chain' : prev'[u] = IF prev[u] = t THEN prev[t] ELSE prev[u]
    <3> SUFFICES ASSUME NEW u \in Chain'
                 PROVE  /\ next'[u] = IF next[u] = t THEN next[t] ELSE next[u]
                        /\ prev'[u] = IF prev[u] = t THEN prev[t] ELSE prev[u]
        OBVIOUS
    <3>1. /\ u \in Timer /\ u \in Chain /\ next[u] = t => prev[t] = u
          /\ prev[u] = t => next[t] = u
          BY <1>1, Constants DEF Linked
    <3>2. next \in [Timer -> Pointer] /\ prev \in [Timer -> Pointer]
          BY DEF Linked, TypeOK
    <3>3. CASE t = head
          BY <1>1, <1>6, <1>8, <3>1, <3>2, <3>3, Constants
    <3>4. CASE t = tail
          BY <1>1, <1>6, <1>8, <3>1, <3>2, <3>4, Constants
    <3>5. CASE t # head /\ t # tail
          BY <1>1, <1>6, <3>1, <3>2, <3>5, Constants
    <3> QED BY <3>3, <3>4, <3>5
  <2>2. /\ head' = IF t = head THEN next[t] ELSE head
        /\ tail' = IF t = tail THEN prev[t] ELSE tail
        BY <1>8
  <2> QED BY <1>1, <1>3, <1>4, <1>5, <2>1, <2>2, Removal DEF Locals
<1> QED BY <1>7, <1>8

LEMMA tickKeepsIInv ==
    ASSUME IInv, (running = "none" /\ tick) \/ TickEnds, UNCHANGED now PROVE IInv'
<1> USE DEF IInv, tick, Begin, TickEnds, links
<1>1. Chain' = Chain /\ UNCHANGED <<links, expire, live>>
      BY DEF Chain
<1>2. Linked'
  <2>1. TypeOK'
        BY Constants DEF Linked, TypeOK, Pointer, Time
  <2> QED BY <1>1, <2>1 DEF Linked
<1>3. \E pos \in [Timer -> Int] : Numbering(pos)'
      BY <1>1 DEF Numbering
<1> QED BY <1>2, <1>3 DEF Locals

LEMMA ExpireKeepsIInv ==
    ASSUME IInv, Expire, UNCHANGED now PROVE IInv'
<1> USE DEF IInv, Expire
<1>1. /\ Chain = live /\ live \subseteq Timer /\ cur = head /\ cur \in live /\ cur # Null
      /\ Chain' = Chain \ {cur} /\ running' = "tick"
      BY Basics DEF Chain, Locals, Linked
<1>2. next[cur] \in Pointer
      BY <1>1 DEF Linked, TypeOK
<1>3. TypeOK'
  <2>1. expire' \in [Timer -> Time] /\ live' \subseteq Timer
        BY <1>1, Constants DEF Linked, TypeOK, Time
  <2>2. next' \in [Timer -> Pointer] /\ prev' \in [Timer -> Pointer]
        BY <1>2, Constants DEF Linked, TypeOK, Pointer
  <2> QED BY <1>2, <2>1, <2>2 DEF Linked, TypeOK
<1>4. PICK pos \in [Timer -> Int] : Numbering(pos)
      OBVIOUS
<1>5. \A u \in Chain' : expire'[u] = expire[u]
      BY <1>1 DEF Linked, TypeOK
<1>6. /\ prev[cur] = Null
      /\ (cur = tail) <=> (next[cur] = Null)
      /\ next[cur] # Null => next[cur] \in Chain /\ prev[next[cur]] = cur
      BY <1>1 DEF Linked
<1>7. Chain' # {} => cur # tail
      BY <1>1, <1>4, <1>6, Alone
<1>8. /\ \A u \in Chain' : next'[u] = IF next[u] = cur THEN next[cur] ELSE next[u]
      /\ \A u \in Chain' : prev'[u] = IF prev[u] = cur THEN prev[cur] ELSE prev[u]
  <2> SUFFICES ASSUME NEW u \in Chain'
               PROVE  /\ next'[u] = IF next[u] = cur THEN next[cur] ELSE next[u]
                      /\ prev'[u] = IF prev[u] = cur THEN prev[cur] ELSE prev[u]
      OBVIOUS
  <2>1. /\ u \in Timer /\ u \in Chain /\ next[u] = cur => prev[cur] = u
        /\ prev[u] = cur => next[cur] = u
        BY <1>1, Constants DEF Linked
  <2>2. prev \in [Timer -> Pointer]
        BY DEF Linked, TypeOK
  <2> QED BY <1>1, <1>6, <2>1, <2>2, Constants
<1>9. Linked' /\ Numbering(pos)'
      BY <1>1, <1>3, <1>4, <1>5, <1>7, <1>8, Removal
<1> QED BY <1>1, <1>9 DEF Locals

LEMMA ClockKeepsIInv ==
    ASSUME IInv, Clock \/ UNCHANGED vars PROVE IInv'
<1> USE DEF IInv, list, links, locals, vars
<1>1. UNCHANGED list /\ Chain' = Chain
      BY DEF Clock, Chain
<1>2. now' \in 0 .. MaxClock
      BY Constants DEF Linked, TypeOK, Clock
<1>3. TypeOK'
      BY <1>1, <1>2 DEF Linked, TypeOK
<1>4. Linked'
      BY <1>1, <1>3 DEF Linked
<1>5. Locals'
      BY <1>1 DEF Locals
<1>6. \E pos \in [Timer -> Int] : Numbering(pos)'
      BY <1>1 DEF Numbering
<1> QED BY <1>4, <1>5, <1>6

LEMMA NextKeepsIInv ==
    ASSUME IInv, [Next]_vars PROVE IInv'
<1>1. CASE Inside
      BY <1>1, InsertHereKeepsIInv, StepOverKeepsIInv, AppendHereKeepsIInv DEF Inside
<1>2. CASE (Expire \/ TickEnds) /\ UNCHANGED now
      BY <1>2, ExpireKeepsIInv, tickKeepsIInv
<1>3. CASE running = "none" /\ tick /\ UNCHANGED now
      BY <1>3, tickKeepsIInv
<1>4. ASSUME NEW t \in Timer, running = "none", UNCHANGED now,
             Cancel(t) \/ \E d \in 0 .. MaxDelay : addTimer(t, now + d) \/ Postpone(t, now + d)
      PROVE  IInv'
  <2>1. \A d \in 0 .. MaxDelay : now + d \in Time
        BY Constants DEF IInv, Linked, TypeOK, Time
  <2>2. CASE Cancel(t)
        BY <1>4, <2>2, delTimerKeepsIInv
  <2>3. ASSUME NEW d \in 0 .. MaxDelay, addTimer(t, now + d) PROVE IInv'
        BY <1>4, <2>1, <2>3, addTimerKeepsIInv
  <2>4. ASSUME NEW d \in 0 .. MaxDelay, Postpone(t, now + d) PROVE IInv'
        BY <1>4, <2>1, <2>4, adjustTimerKeepsIInv
  <2> QED BY <1>4, <2>2, <2>3, <2>4
<1>5. CASE Clock \/ UNCHANGED vars
      BY <1>5, ClockKeepsIInv
<1> QED BY <1>1, <1>2, <1>3, <1>4, <1>5 DEF Next, Call

\* The list of timer_list.h is well linked and sorted whenever a step of one of
\* its functions is complete, however its functions are called.
THEOREM ListLinked == Spec => []Linked
<1>1. IInv => Linked
      BY DEF IInv
<1> QED BY InitIInv, NextKeepsIInv, <1>1, PTL DEF Spec

-----------------------------------------------------------------------------
(* The list implements Timers: its functions map to the operations of the  *)
(* same meaning, walking along the list maps to a stutter.                 *)

Armed == [t \in live |-> expire[t]]

LEMMA HeadIsFirst ==
    ASSUME IInv, head # Null, NEW u \in Chain
    PROVE  expire[head] <= expire[u]
<1>1. PICK pos \in [Timer -> Int] : Numbering(pos)
      BY DEF IInv
<1>2. head \in Chain /\ prev[head] = Null /\ Chain \subseteq Timer /\ expire \in [Timer -> Int]
      BY Basics DEF IInv, Linked
<1>3. pos[head] <= pos[u]
      BY <1>1, <1>2 DEF Numbering
<1>4. pos[head] = pos[u] => u = head
      BY <1>1, <1>2 DEF Numbering
<1>5. pos[head] < pos[u] => expire[head] <= expire[u]
      BY <1>1, <1>2 DEF Numbering
<1> QED BY <1>2, <1>3, <1>4, <1>5

LEMMA InitMaps == Init => Contents!Init
BY Constants DEF Init, ListInit, Contents!Init, Time

LEMMA InsideMaps ==
    ASSUME Inside PROVE UNCHANGED Contents!vars
<1>1. UNCHANGED <<live, expire, now, now_time>> /\ running # "tick" /\ running' # "tick"
      BY DEF Inside, InsertHere, StepOver, AppendHere, Ends, links
<1> QED BY <1>1 DEF Contents!vars

LEMMA addTimerMaps ==
    ASSUME NEW t \in Timer, NEW e \in Time, IInv, running = "none", addTimer(t, e), UNCHANGED now
    PROVE  Contents!Arm(t, e)
<1>1. /\ running # "tick" /\ running' # "tick" /\ t \notin live /\ UNCHANGED <<now, now_time>>
      /\ live' = live \cup {t} /\ expire' = [expire EXCEPT ![t] = e]
      BY DEF addTimer, Walk
<1>2. expire \in [Timer -> Int] /\ live \subseteq Timer
      BY Basics DEF IInv
<1>3. Armed' = [u \in live \cup {t} |-> IF u = t THEN e ELSE Armed[u]]
      BY <1>1, <1>2 DEF Armed
<1> QED BY <1>1, <1>3 DEF Contents!Arm, Armed

LEMMA adjustTimerMaps ==
    ASSUME NEW t \in Timer, NEW e \in Time, IInv, running = "none", Postpone(t, e), UNCHANGED now
    PROVE  Contents!Postpone(t, e)
<1>1. /\ running # "tick" /\ running' # "tick" /\ t \in live /\ UNCHANGED <<now, now_time, live>>
      /\ e >= expire[t] /\ expire' = [expire EXCEPT ![t] = e]
      BY DEF Postpone, adjustTimer, Walk
<1>2. expire \in [Timer -> Int] /\ live \subseteq Timer
      BY Basics DEF IInv
<1>3. Armed' = [Armed EXCEPT ![t] = e]
      BY <1>1, <1>2 DEF Armed
<1> QED BY <1>1, <1>3 DEF Contents!Postpone, Armed

LEMMA delTimerMaps ==
    ASSUME NEW t \in Timer, IInv, running = "none", Cancel(t), UNCHANGED now
    PROVE  Contents!Cancel(t)
<1>1. /\ running # "tick" /\ running' # "tick" /\ t \in live /\ UNCHANGED <<now, now_time>>
      /\ live' = live \ {t} /\ expire' = [expire EXCEPT ![t] = 0]
      BY DEF Cancel, delTimer, locals
<1>2. expire \in [Timer -> Int] /\ live \subseteq Timer
      BY Basics DEF IInv
<1>3. Armed' = [u \in live \ {t} |-> Armed[u]]
      BY <1>1, <1>2 DEF Armed
<1> QED BY <1>1, <1>3 DEF Contents!Cancel, Contents!Without, Armed

LEMMA ExpireMaps ==
    ASSUME IInv, Expire, UNCHANGED now PROVE \E t \in Timer : Contents!Fire(t)
<1>1. PICK t \in Timer : t = cur
      BY DEF Expire, IInv, Linked, TypeOK, Pointer
<1>2. /\ running = "tick" /\ running' = "tick" /\ cur = head /\ head # Null
      /\ UNCHANGED <<now, now_time>>
      /\ live' = live \ {t} /\ expire' = [expire EXCEPT ![t] = 0]
      /\ Chain = live /\ t \in live
      BY <1>1 DEF Expire, IInv, Locals, Chain, Linked
<1>3. expire \in [Timer -> Int] /\ live \subseteq Timer /\ now_time \in Int
      BY Basics, Constants DEF IInv, Linked, TypeOK, Time
<1>4. Armed' = [u \in live \ {t} |-> Armed[u]]
      BY <1>2, <1>3 DEF Armed
<1>5. expire[t] <= now_time
      BY <1>1, <1>2, <1>3 DEF Expire, NotYet
<1>6. \A u \in live : expire[t] <= expire[u]
      BY <1>1, <1>2, HeadIsFirst
<1>7. Contents!Fire(t)
      BY <1>2, <1>4, <1>5, <1>6 DEF Contents!Fire, Contents!Without, Armed
<1> QED BY <1>7

LEMMA tickMaps ==
    ASSUME IInv, running = "none", tick, UNCHANGED now PROVE Contents!Start
BY DEF tick, Contents!Start, links

LEMMA TickEndsMaps ==
    ASSUME IInv, TickEnds, UNCHANGED now PROVE Contents!Finish
<1>1. /\ running = "tick" /\ running' # "tick" /\ cur = head /\ Chain = live
      /\ UNCHANGED <<now, live, expire>> /\ now_time' = 0 /\ 0 \in Time
      BY Constants DEF TickEnds, IInv, Locals, Chain, Time
<1>2. expire \in [Timer -> Int] /\ live \subseteq Timer /\ now_time \in Int
      BY Basics, Constants DEF IInv, Linked, TypeOK, Time
<1>3. \A u \in live : expire[u] > now_time
  <2>1. CASE head = Null
        BY <1>1, <2>1 DEF IInv, Linked
  <2>2. CASE head # Null
    <3>1. now_time < expire[head] /\ head \in live
          BY <1>1, <2>2 DEF TickEnds, NotYet, IInv, Linked
    <3> QED BY <1>1, <1>2, <2>2, <3>1, HeadIsFirst
  <2> QED BY <2>1, <2>2
<1> QED BY <1>1, <1>3 DEF Contents!Finish

LEMMA NextMaps ==
    ASSUME IInv, [Next]_vars PROVE [Contents!Next]_(Contents!vars)
<1>1. CASE Inside
      BY <1>1, InsideMaps
<1>2. CASE Expire /\ UNCHANGED now
      BY <1>2, ExpireMaps DEF Contents!Next
<1>3. CASE (TickEnds \/ (running = "none" /\ tick)) /\ UNCHANGED now
      BY <1>3, TickEndsMaps, tickMaps DEF Contents!Next
<1>4. ASSUME NEW t \in Timer, running = "none", UNCHANGED now,
             Cancel(t) \/ \E d \in 0 .. MaxDelay : addTimer(t, now + d) \/ Postpone(t, now + d)
      PROVE  Contents!Next
  <2>1. \A d \in 0 .. MaxDelay : now + d \in Time
        BY Constants DEF IInv, Linked, TypeOK, Time
  <2>2. CASE Cancel(t)
        BY <1>4, <2>2, delTimerMaps DEF Contents!Next
  <2>3. ASSUME NEW d \in 0 .. MaxDelay, addTimer(t, now + d) PROVE Contents!Next
        BY <1>4, <2>1, <2>3, addTimerMaps DEF Contents!Next
  <2>4. ASSUME NEW d \in 0 .. MaxDelay, Postpone(t, now + d) PROVE Contents!Next
        BY <1>4, <2>1, <2>4, adjustTimerMaps DEF Contents!Next
  <2> QED BY <1>4, <2>2, <2>3, <2>4
<1>5. CASE Clock
  <2>1. Contents!Advance
        BY <1>5 DEF Clock, Contents!Advance, list, locals
  <2> QED BY <2>1 DEF Contents!Next
<1>6. CASE UNCHANGED vars
      BY <1>6 DEF vars, list, locals, Contents!vars
<1> QED BY <1>1, <1>2, <1>3, <1>4, <1>5, <1>6 DEF Next, Call

\* A timer leaves the list only when it is deleted or its callback is called,
\* and tick calls exactly the callbacks that are due, the earliest first.
THEOREM ListImplementsTimers == Spec => ImplementsTimers
<1>1. Spec => []IInv
      BY InitIInv, NextKeepsIInv, PTL DEF Spec
<1> QED BY InitMaps, NextMaps, <1>1, PTL DEF Spec, ImplementsTimers, Contents!Spec

-----------------------------------------------------------------------------
(* The server.                                                             *)

\* A closed socket holds nothing; epoll_wait and tick find events[] handled.
Settled ==
    /\ \A fd \in Fds \ open : inbox[fd] = 0 /\ ~fin[fd]
    /\ phase = "wait" => batch = {}
    /\ running = "tick" => phase = "events" /\ batch = {}

SInv == OneTimerEach /\ AlarmNeverLost /\ Settled

LEMMA ServerConstants ==
    /\ TIMESLOT \in Nat /\ TIMESLOT > 0 /\ 3 * TIMESLOT <= MaxDelay
    /\ MaxInbox \in Nat /\ MaxClock \in Nat /\ MaxDelay \in Nat
    /\ "listen" \notin Fds /\ "sig" \notin Fds /\ Null \notin Fds /\ Null \notin Timer
BY ServerAssumption, Constants DEF ServerAssumption

-----------------------------------------------------------------------------
(* A connection and its timer, and the chain of alarms.                    *)

LEMMA Ranges ==
    ASSUME IInv
    PROVE  /\ live \subseteq Timer /\ now \in 0 .. MaxClock /\ now \in Time
           /\ now + TIMESLOT \in Time /\ 0 \in Time
           /\ running = "tick" => cur = head
           /\ head # Null => head \in live
BY ServerConstants DEF IInv, Locals, Linked, TypeOK, Time, Chain

LEMMA ServerInitSInv == ServerInit => SInv
<1> SUFFICES ASSUME ServerInit PROVE SInv
    OBVIOUS
<1> USE DEF ServerInit, Init, ListInit
<1>1. ServerTypeOK
  <2>1. /\ users \in [Fds -> Pointer] /\ user_data \in [Timer -> Fds \cup {Null}]
        /\ inbox \in [Fds -> 0 .. MaxInbox] /\ fin \in [Fds -> BOOLEAN]
        /\ backlog \in Nat
        BY ServerConstants DEF Pointer
  <2>2. alarmAt \in Time /\ heard \in [Fds -> Time]
        BY ServerConstants DEF Time
  <2>3. ready \subseteq {} /\ batch \subseteq {} /\ open \subseteq {} /\ pipe \subseteq {}
        OBVIOUS
  <2> QED BY <2>1, <2>2, <2>3 DEF ServerTypeOK
<1>2. AlarmNeverLost /\ Settled
      BY ServerConstants DEF AlarmNeverLost, Settled
<1> QED BY <1>1, <1>2 DEF SInv, OneTimerEach

LEMMA EnvironmentKeeps ==
    ASSUME SInv, IInv, Environment \/ Deliver \/ UNCHANGED allvars PROVE SInv'
<1> USE DEF SInv, data, loop, sockets, sigs, vars, list
<1>1. CASE Connect
      BY <1>1 DEF Connect, OneTimerEach, ServerTypeOK, AlarmNeverLost, Settled, Up
<1>2. CASE Terminate
      BY <1>2 DEF Terminate, OneTimerEach, ServerTypeOK, AlarmNeverLost, Settled, Up
<1>3. ASSUME NEW fd \in Fds, PeerSend(fd) PROVE SInv'
  <2>1. inbox' \in [Fds -> 0 .. MaxInbox]
        BY <1>3, ServerConstants DEF PeerSend, OneTimerEach, ServerTypeOK
  <2>2. OneTimerEach'
        BY <1>3, <2>1 DEF PeerSend, OneTimerEach, ServerTypeOK
  <2>3. Settled' /\ AlarmNeverLost'
        BY <1>3 DEF PeerSend, OneTimerEach, ServerTypeOK, AlarmNeverLost, Settled, Up
  <2> QED BY <2>2, <2>3
<1>4. ASSUME NEW fd \in Fds, PeerClose(fd) PROVE SInv'
  <2>1. OneTimerEach'
        BY <1>4 DEF PeerClose, OneTimerEach, ServerTypeOK
  <2>2. Settled' /\ AlarmNeverLost'
        BY <1>4 DEF PeerClose, OneTimerEach, ServerTypeOK, AlarmNeverLost, Settled, Up
  <2> QED BY <2>1, <2>2
<1>5. ASSUME NEW sig \in {"SIGALRM", "SIGTERM"}, sig_handler(sig) PROVE SInv'
  <2>1. OneTimerEach' /\ Settled'
        BY <1>5 DEF sig_handler, OneTimerEach, ServerTypeOK, Settled
  <2>2. AlarmNeverLost'
        BY <1>5 DEF sig_handler, OneTimerEach, ServerTypeOK, AlarmNeverLost, Up
  <2> QED BY <2>1, <2>2
<1>6. CASE UNCHANGED allvars
      BY <1>6 DEF allvars, server, OneTimerEach, ServerTypeOK, AlarmNeverLost, Settled, Up
<1> QED BY <1>1, <1>2, <1>3, <1>4, <1>5, <1>6 DEF Environment, Deliver

LEMMA ClockTickKeeps ==
    ASSUME SInv, IInv, ClockTick PROVE SInv'
<1> USE DEF SInv, ClockTick, Clock, data, loop, sockets, list
<1>1. OneTimerEach' /\ Settled'
      BY Ranges DEF OneTimerEach, ServerTypeOK, Settled
<1>2. AlarmNeverLost'
      BY Ranges, ServerConstants DEF OneTimerEach, ServerTypeOK, AlarmNeverLost, Up, Time
<1> QED BY <1>1, <1>2

LEMMA AcceptKeeps ==
    ASSUME SInv, IInv, NEW fd \in Fds, NEW t \in Timer, Accept(fd, t) PROVE SInv'
<1> USE DEF SInv, Accept, Handling, sigs
<1>1. t \notin live /\ live' = live \cup {t} /\ live \subseteq Timer /\ fd \notin open
      BY Ranges DEF addTimer
<1>2. ServerTypeOK'
      BY Ranges, ServerConstants DEF OneTimerEach, ServerTypeOK, Pointer
<1>3. \A f \in open' : users'[f] \in live' /\ user_data'[users'[f]] = f
      BY <1>1 DEF OneTimerEach, ServerTypeOK
<1>4. \A u \in live' : user_data'[u] \in open' /\ users'[user_data'[u]] = u
      BY <1>1 DEF OneTimerEach, ServerTypeOK
<1>5. AlarmNeverLost'
      BY DEF AlarmNeverLost, Up
<1>6. running' # "tick"
      BY DEF addTimer, Walk
<1>7. Settled'
      BY <1>6 DEF Settled
<1> QED BY <1>2, <1>3, <1>4, <1>5, <1>7 DEF OneTimerEach

LEMMA ReceiveKeeps ==
    ASSUME SInv, IInv, NEW fd \in Fds, Receive(fd) PROVE SInv'
<1> USE DEF SInv, Receive, Handling, sigs, data
<1>1. fd \in open /\ users[fd] # Null
      BY Ranges, ServerConstants DEF Settled, OneTimerEach, ServerTypeOK
<1>2. adjustTimer(users[fd], IdleUntil)
      BY <1>1 DEF Extended
<1>3. live' = live /\ running' # "tick"
      BY <1>2 DEF adjustTimer, Walk
<1>4. inbox' \in [Fds -> 0 .. MaxInbox]
      BY ServerConstants DEF OneTimerEach, ServerTypeOK
<1>5. OneTimerEach'
      BY <1>3, <1>4, Ranges DEF OneTimerEach, ServerTypeOK
<1>6. AlarmNeverLost'
      BY ServerConstants DEF AlarmNeverLost, Up
<1>7. Settled'
      BY <1>3 DEF Settled, OneTimerEach, ServerTypeOK
<1> QED BY <1>5, <1>6, <1>7

\* A connection is closed, by its peer or by its timer: its timer goes with it.
LEMMA Closing ==
    ASSUME SInv, IInv, NEW fd \in open, cb_func(fd), live' = live \ {users[fd]},
           user_data' = [user_data EXCEPT ![users[fd]] = Null],
           UNCHANGED <<users, stop_server, timeout, phase, sigs, now, running>>,
           batch' = batch \/ batch' = batch \ {fd}
    PROVE  SInv'
<1> USE DEF SInv, cb_func, sigs
<1>1. /\ users[fd] \in live /\ live \subseteq Timer /\ fd \in Fds
      /\ user_data[users[fd]] = fd
      BY Ranges DEF OneTimerEach, ServerTypeOK
<1>2. ServerTypeOK'
      BY Ranges, ServerConstants DEF OneTimerEach, ServerTypeOK
<1>3. \A f \in open' : users'[f] \in live' /\ user_data'[users'[f]] = f
      BY <1>1 DEF OneTimerEach, ServerTypeOK
<1>4. \A u \in live' : user_data'[u] \in open' /\ users'[user_data'[u]] = u
      BY <1>1 DEF OneTimerEach, ServerTypeOK
<1>5. AlarmNeverLost'
      BY <1>1, ServerConstants DEF AlarmNeverLost, Up
<1>6. Settled'
      BY <1>1 DEF Settled, OneTimerEach, ServerTypeOK
<1> QED BY <1>2, <1>3, <1>4, <1>5, <1>6 DEF OneTimerEach

LEMMA MainKeeps ==
    ASSUME SInv, IInv, main PROVE SInv'
<1> USE DEF SInv
<1>1. CASE EpollWait
  <2>1. OneTimerEach' /\ Settled'
        BY <1>1 DEF EpollWait, Readable, OneTimerEach, ServerTypeOK, Settled, vars, list,
                    data, sockets, sigs
  <2>2. AlarmNeverLost'
        BY <1>1 DEF EpollWait, Readable, AlarmNeverLost, Settled, Up, vars, sigs
  <2> QED BY <2>1, <2>2
<1>2. CASE ReadSignals
  <2>1. OneTimerEach' /\ Settled'
        BY <1>2 DEF ReadSignals, Handling, OneTimerEach, ServerTypeOK, Settled, vars, list,
                    data, sockets
  <2>2. AlarmNeverLost'
        BY <1>2 DEF ReadSignals, AlarmNeverLost, Up, vars, OneTimerEach, ServerTypeOK
  <2> QED BY <2>1, <2>2
<1>3. ASSUME NEW fd \in Fds, NEW t \in Timer, Accept(fd, t) PROVE SInv'
      BY <1>3, AcceptKeeps
<1>4. ASSUME NEW fd \in Fds, Receive(fd) PROVE SInv'
      BY <1>4, ReceiveKeeps
<1>5. ASSUME NEW fd \in Fds, PeerGone(fd) PROVE SInv'
  <2>1. fd \in open /\ users[fd] # Null /\ batch' = batch \ {fd}
        BY <1>5, Ranges, ServerConstants DEF PeerGone, Handling, Settled, OneTimerEach
  <2>2. live' = live \ {users[fd]} /\ UNCHANGED running
        BY <1>5, <2>1 DEF PeerGone, DropTimer, delTimer
  <2> QED BY <1>5, <2>1, <2>2, Closing DEF PeerGone
<1>6. CASE FireTimer
  <2>1. cur \in live /\ live' = live \ {cur} /\ UNCHANGED running /\ user_data[cur] \in open
        BY <1>6, Ranges DEF FireTimer, Expire, OneTimerEach
  <2>2. PICK fd \in open : fd = user_data[cur] /\ users[fd] = cur
        BY <2>1 DEF OneTimerEach
  <2> QED BY <1>6, <2>1, <2>2, Closing DEF FireTimer, loop
<1>7. CASE Inside /\ UNCHANGED server
  <2>1. UNCHANGED <<live, now>> /\ running' # "tick"
        BY <1>7 DEF Inside, InsertHere, StepOver, AppendHere, Ends
  <2> QED BY <1>7, <2>1 DEF server, data, loop, sockets, sigs, OneTimerEach, ServerTypeOK,
                            AlarmNeverLost, Settled, Up
<1>8. CASE RunTick
      BY <1>8 DEF RunTick, EndOfRound, tick, server, data, loop, sockets, sigs, OneTimerEach, ServerTypeOK,
                  AlarmNeverLost, Settled, Up
<1>9. CASE NothingTimed
      BY <1>9 DEF NothingTimed, NextRound, EndOfRound, vars, list, data, sockets, sigs,
                  OneTimerEach, ServerTypeOK, AlarmNeverLost, Settled, Up
<1>10. CASE TickDone \/ NoTimers
  <2>1. AfterTick /\ UNCHANGED <<live, now>> /\ batch = {} /\ running' # "tick"
        BY <1>10 DEF TickDone, NoTimers, TickEnds, AfterTick, EndOfRound, list, Settled
  <2>2. OneTimerEach' /\ Settled'
        BY <2>1, Ranges DEF AfterTick, NextRound, Rearm, data, sockets, OneTimerEach,
                            ServerTypeOK, Settled
  <2>3. AlarmNeverLost'
        BY <2>1, Ranges, ServerConstants DEF AfterTick, Rearm, AlarmNeverLost, Up
  <2> QED BY <2>2, <2>3
<1> QED BY <1>1, <1>2, <1>3, <1>4, <1>5, <1>6, <1>7, <1>8, <1>9, <1>10 DEF main

-----------------------------------------------------------------------------
(* When a connection is due.                                               *)

DInv ==
    /\ \A fd \in open : heard[fd] <= now /\ expire[users[fd]] = heard[fd] + 3 * TIMESLOT
    /\ running = "tick" => now_time <= now

LEMMA DeadlineKept ==
    ASSUME IInv, SInv, DInv, [ServerNext]_allvars PROVE DInv'
<1> USE DEF DInv
<1>1. /\ open \subseteq Fds /\ live \subseteq Timer /\ now \in Int /\ expire \in [Timer -> Int]
      /\ users \in [Fds -> Pointer] /\ heard \in [Fds -> Time]
      /\ \A fd \in open : users[fd] \in live
      /\ \A f, g \in open : users[f] = users[g] => f = g
      BY Ranges, Basics DEF IInv, SInv, OneTimerEach, ServerTypeOK
<1>2. CASE Environment \/ Deliver \/ UNCHANGED allvars
      BY <1>2 DEF Environment, Deliver, Connect, Terminate, PeerSend, PeerClose, sig_handler,
                  allvars, server, data, sockets, vars, list, locals
<1>3. CASE ClockTick
  <2>1. UNCHANGED <<open, expire, users, heard, running, now_time>> /\ now' = now + 1
        BY <1>3 DEF ClockTick, Clock, data, sockets, list, locals
  <2>2. now_time \in Int /\ \A fd \in open : heard[fd] \in Int
        BY <1>1, Constants DEF IInv, Linked, TypeOK, Time
  <2> QED BY <1>1, <2>1, <2>2
<1>4. CASE EpollWait \/ ReadSignals \/ NothingTimed \/ NoTimers
      BY <1>4 DEF EpollWait, ReadSignals, NothingTimed, NoTimers, AfterTick, EndOfRound,
                  data, sockets, vars, list, locals
<1>5. ASSUME NEW fd \in Fds, NEW t \in Timer, Accept(fd, t) PROVE DInv'
  <2>1. /\ open' = open \cup {fd} /\ users' = [users EXCEPT ![fd] = t]
        /\ heard' = [heard EXCEPT ![fd] = now] /\ running = "none" /\ now' = now
        /\ addTimer(t, now + 3 * TIMESLOT)
        BY <1>5 DEF Accept, Handling, IdleUntil
  <2>2. running' # "tick" /\ expire' = [expire EXCEPT ![t] = now + 3 * TIMESLOT] /\ t \notin live
        BY <2>1 DEF addTimer, Walk
  <2> QED BY <1>1, <2>1, <2>2
<1>6. ASSUME NEW fd \in Fds, Receive(fd) PROVE DInv'
  <2>1. /\ fd \in open /\ UNCHANGED <<open, users, now>> /\ running = "none"
        /\ heard' = [heard EXCEPT ![fd] = now]
        BY <1>6 DEF Receive, Handling, data, SInv, Settled, OneTimerEach, ServerTypeOK
  <2>2. PICK t \in live : t = users[fd] /\ t # Null
        BY <1>1, <2>1, Constants
  <2>3. running' # "tick" /\ expire' = [expire EXCEPT ![t] = now + 3 * TIMESLOT]
        BY <1>6, <2>1, <2>2 DEF Receive, adjustTimer, Walk, Extended, IdleUntil
  <2> QED BY <1>1, <2>1, <2>2, <2>3
<1>7. ASSUME NEW fd \in open, NEW t \in Timer, t = users[fd], cb_func(fd), UNCHANGED users,
             expire' = [expire EXCEPT ![t] = 0], UNCHANGED <<running, now_time, now>>
      PROVE  DInv'
      BY <1>1, <1>7 DEF cb_func
<1>8. ASSUME NEW fd \in Fds, PeerGone(fd) PROVE DInv'
  <2>1. fd \in open /\ users[fd] \in Timer /\ users[fd] # Null
        BY <1>1, <1>8, Constants DEF PeerGone, SInv, Settled
  <2>2. expire' = [expire EXCEPT ![users[fd]] = 0] /\ UNCHANGED <<running, now_time>>
        BY <1>8, <2>1 DEF PeerGone, DropTimer, delTimer, locals
  <2> QED BY <1>7, <1>8, <2>1, <2>2 DEF PeerGone
<1>9. CASE FireTimer
  <2>1. /\ cur \in live /\ user_data[cur] \in open /\ users[user_data[cur]] = cur
        /\ expire' = [expire EXCEPT ![cur] = 0] /\ UNCHANGED <<running, now_time>>
        BY <1>9, Ranges DEF FireTimer, Expire, SInv, OneTimerEach
  <2>2. PICK fd \in open : fd = user_data[cur] /\ users[fd] = cur
        BY <2>1
  <2> QED BY <1>1, <1>7, <1>9, <2>1, <2>2 DEF FireTimer
<1>10. CASE Inside /\ UNCHANGED server
      BY <1>10 DEF Inside, InsertHere, StepOver, AppendHere, Ends, server, data, sockets
<1>11. CASE RunTick
      BY <1>1, <1>11 DEF RunTick, tick, server, data, sockets
<1>12. CASE TickDone
      BY <1>12 DEF TickDone, TickEnds, AfterTick, data, sockets
<1> QED BY <1>2, <1>3, <1>4, <1>5, <1>6, <1>8, <1>9, <1>10, <1>11, <1>12 DEF ServerNext, main

-----------------------------------------------------------------------------
(* Every step of the server is a legal call of the list, a step of it, or  *)
(* leaves it alone: the timer of an open connection exists, and its expiry *)
(* only grows.                                                             *)

LEMMA MainUsesList == ASSUME IInv, SInv, DInv, main PROVE [Next]_vars
<1>1. /\ live \subseteq Timer /\ \A fd \in open : users[fd] \in live /\ users[fd] # Null
      /\ 3 * TIMESLOT \in 0 .. MaxDelay
      BY Ranges, ServerConstants DEF SInv, OneTimerEach
<1>2. CASE EpollWait \/ ReadSignals \/ NothingTimed
      BY <1>2 DEF EpollWait, ReadSignals, NothingTimed
<1>3. ASSUME NEW fd \in Fds, NEW t \in Timer, Accept(fd, t) PROVE Next
  <2>1. running = "none" /\ addTimer(t, now + 3 * TIMESLOT) /\ UNCHANGED now
        BY <1>3 DEF Accept, Handling, IdleUntil
  <2> QED BY <1>1, <2>1 DEF Next, Call
<1>4. ASSUME NEW fd \in Fds, Receive(fd) PROVE Next
  <2>1. fd \in open /\ running = "none"
        BY <1>4 DEF Receive, Handling, SInv, Settled, OneTimerEach, ServerTypeOK
  <2>2. PICK t \in live : t = users[fd] /\ t # Null
        BY <1>1, <2>1
  <2>3. expire[t] <= now + 3 * TIMESLOT
    <3>1. heard[fd] \in Int /\ now \in Int
          BY <2>1, Ranges DEF SInv, OneTimerEach, ServerTypeOK, Time
    <3> QED BY <2>1, <2>2, <3>1, ServerConstants DEF DInv
  <2>4. Postpone(t, now + 3 * TIMESLOT) /\ UNCHANGED now
        BY <1>4, <2>2, <2>3 DEF Receive, Extended, IdleUntil, Postpone
  <2> QED BY <1>1, <2>1, <2>4 DEF Next, Call
<1>5. ASSUME NEW fd \in Fds, PeerGone(fd) PROVE Next
  <2>1. fd \in open /\ running = "none"
        BY <1>5 DEF PeerGone, Handling, SInv, Settled
  <2>2. PICK t \in live : t = users[fd] /\ t # Null
        BY <1>1, <2>1
  <2>3. Cancel(t) /\ UNCHANGED now
        BY <1>5, <2>2 DEF PeerGone, DropTimer, Cancel
  <2> QED BY <1>1, <2>1, <2>3 DEF Next, Call
<1>6. CASE Inside
      BY <1>6 DEF Next
<1>7. CASE NoTimers
      BY <1>7 DEF NoTimers, AfterTick, vars
<1>8. CASE RunTick
      BY <1>8 DEF RunTick, EndOfRound, Next, Call
<1>9. CASE FireTimer \/ TickDone
      BY <1>9 DEF FireTimer, TickDone, AfterTick, Next
<1> QED BY <1>2, <1>3, <1>4, <1>5, <1>6, <1>7, <1>8, <1>9 DEF main

LEMMA ServerUsesList == ASSUME IInv, SInv, DInv, [ServerNext]_allvars PROVE [Next]_vars
<1>1. CASE Environment \/ Deliver \/ UNCHANGED allvars
      BY <1>1 DEF Environment, Deliver, Connect, Terminate, PeerSend, PeerClose, sig_handler, allvars
<1>2. CASE ClockTick
      BY <1>2 DEF ClockTick, Next
<1>3. CASE main
      BY <1>3, MainUsesList
<1> QED BY <1>1, <1>2, <1>3 DEF ServerNext

LEMMA ServerInvariant == ServerSpec => [](IInv /\ SInv /\ DInv)
<1>1. ServerInit => IInv /\ SInv /\ DInv
      BY InitIInv, ServerInitSInv DEF ServerInit, Init, ListInit, DInv
<1>2. IInv /\ SInv /\ DInv /\ [ServerNext]_allvars => IInv' /\ SInv' /\ DInv'
  <2> SUFFICES ASSUME IInv, SInv, DInv, [ServerNext]_allvars PROVE IInv' /\ SInv' /\ DInv'
      OBVIOUS
  <2>1. IInv'
        BY ServerUsesList, NextKeepsIInv
  <2>2. SInv'
        BY EnvironmentKeeps, ClockTickKeeps, MainKeeps DEF ServerNext
  <2>3. DInv'
        BY DeadlineKept
  <2> QED BY <2>1, <2>2, <2>3
<1> QED BY <1>1, <1>2, PTL DEF ServerSpec

\* The handlers of the server call the timer list only as its functions want to be
\* called, which neither check: on a timer that exists, one call at a time, and to
\* postpone a timer, never to advance it.
THEOREM ServerUsesTheList == ServerSpec => UsesTheList
<1>1. ServerInit => Init
      BY DEF ServerInit
<1> QED BY <1>1, ServerUsesList, ServerInvariant, PTL DEF ServerSpec, UsesTheList, Spec

\* However descriptors and timer addresses are reused, an open connection has
\* exactly one timer, and no timer is left without a connection.
THEOREM ServerKeepsTimers == ServerSpec => []OneTimerEach
<1>1. SInv => OneTimerEach
      BY DEF SInv
<1> QED BY <1>1, ServerInvariant, PTL

\* However SIGALRM, its byte, the flag and the events of a round interleave, the
\* next SIGALRM is under way until the server stops.
THEOREM AlarmGoesOn == ServerSpec => []AlarmNeverLost
<1>1. SInv => AlarmNeverLost
      BY DEF SInv
<1> QED BY <1>1, ServerInvariant, PTL

-----------------------------------------------------------------------------
(* Nobody is closed early.                                                 *)

SilentLong(fd) == now >= heard[fd] + 3 * TIMESLOT

LEMMA StepNotEarly ==
    ASSUME IInv, SInv, DInv, [ServerNext]_allvars, NEW fd \in open \ open', ~fin[fd]
    PROVE  SilentLong(fd)
<1>1. open' # open
      OBVIOUS
<1>2. CASE FireTimer
  <2>1. /\ user_data[cur] = fd /\ cur \in live /\ running = "tick" /\ ~(now_time < expire[cur])
        BY <1>2, Ranges DEF FireTimer, Expire, cb_func, NotYet
  <2>2. users[fd] = cur /\ fd \in Fds
        BY <2>1 DEF SInv, OneTimerEach, ServerTypeOK
  <2>3. now_time \in Int /\ now \in Int /\ expire[cur] \in Int
        BY <2>1, Constants DEF IInv, Linked, TypeOK, Time
  <2> QED BY <2>1, <2>2, <2>3 DEF DInv, SilentLong
<1>3. ASSUME NEW f \in Fds, PeerGone(f) PROVE FALSE
      BY <1>3 DEF PeerGone, cb_func
<1>4. CASE Environment \/ Deliver \/ ClockTick \/ UNCHANGED allvars
      BY <1>1, <1>4 DEF Environment, Deliver, ClockTick, Connect, Terminate, PeerSend, PeerClose,
                        sig_handler, allvars, server, sockets
<1>5. CASE EpollWait \/ ReadSignals \/ NothingTimed \/ NoTimers \/ RunTick \/ TickDone
           \/ (Inside /\ UNCHANGED server)
      BY <1>1, <1>5 DEF EpollWait, ReadSignals, NothingTimed, NoTimers, AfterTick, RunTick,
                        TickDone, server, sockets
<1>6. ASSUME NEW f \in Fds, NEW t \in Timer, Accept(f, t) PROVE FALSE
      BY <1>6 DEF Accept
<1>7. ASSUME NEW f \in Fds, Receive(f) PROVE FALSE
      BY <1>7 DEF Receive
<1>8. CASE main
      BY <1>2, <1>3, <1>5, <1>6, <1>7, <1>8 DEF main
<1> QED BY <1>4, <1>8 DEF ServerNext

\* A connection whose peer has not closed it is closed only after three slots
\* without data.
THEOREM ServerNotEarly == ServerSpec => NeverCutShort
<1>1. IInv /\ SInv /\ DInv /\ [ServerNext]_allvars =>
          [\A fd \in open \ open' : ~fin[fd] => now >= heard[fd] + 3 * TIMESLOT]_allvars
      BY StepNotEarly DEF SilentLong
<1> QED BY <1>1, ServerInvariant, PTL DEF ServerSpec, NeverCutShort
=============================================================================
