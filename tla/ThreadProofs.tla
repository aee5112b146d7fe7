---------------------------- MODULE ThreadProofs -----------------------------
(***************************************************************************)
(* Theorems about the programs with threads: what their threads share is   *)
(* as it should be, for any number of threads and any size.  Each program  *)
(* has its inductive invariant, and a behaviour of MCPrograms is one of    *)
(* them while the others rest.                                             *)
(***************************************************************************)
EXTENDS MCPrograms, FiniteSetTheorems, SequenceTheorems, TLAPS

LEMMA Numbers ==
    /\ Last \in Nat /\ StrLength \in Nat /\ Tries \in Nat
    /\ MaxLength \in Nat /\ MaxHardware \in Nat /\ min_per_thread \in Nat \ {0}
    /\ LowValue \in Int /\ HighValue \in Int /\ LowValue <= HighValue
    /\ None \notin Worker
BY ThreadsAssumption DEF ThreadsAssumption

-----------------------------------------------------------------------------
(* Sequences.                                                              *)

LEMMA AppendIs ==
    ASSUME NEW S, NEW s \in Seq(S), NEW x \in S
    PROVE  /\ Append(s, x) \in Seq(S) /\ Len(Append(s, x)) = Len(s) + 1 /\ Len(s) \in Nat
           /\ Append(s, x)[Len(s) + 1] = x
           /\ \A k \in 1 .. Len(s) : Append(s, x)[k] = s[k]
OBVIOUS

LEMMA TailIs ==
    ASSUME NEW S, NEW s \in Seq(S), s # <<>>
    PROVE  /\ Len(s) \in Nat \ {0} /\ Head(s) = s[1] /\ Head(s) \in S
           /\ Tail(s) \in Seq(S) /\ Len(Tail(s)) = Len(s) - 1
           /\ \A k \in 1 .. Len(Tail(s)) : Tail(s)[k] = s[k + 1]
OBVIOUS

LEMMA ConcatIs ==
    ASSUME NEW S, NEW s \in Seq(S), NEW t \in Seq(S)
    PROVE  /\ s \o t \in Seq(S) /\ Len(s \o t) = Len(s) + Len(t)
           /\ Len(s) \in Nat /\ Len(t) \in Nat
           /\ \A k \in 1 .. Len(s) : (s \o t)[k] = s[k]
           /\ \A k \in Len(s) + 1 .. Len(s) + Len(t) : (s \o t)[k] = t[k - Len(s)]
OBVIOUS

LEMMA EmptyIs == ASSUME NEW S, NEW s \in Seq(S)
                 PROVE  s = <<>> <=> Len(s) = 0
OBVIOUS

-----------------------------------------------------------------------------
(* condition_variable.cpp.                                                 *)

\* The consumer has taken the numbers before those in the queue, and the mutex
\* is held where the code holds it.  A consumer that is to go on has not yet
\* taken the last number, so when it falls asleep the producer is still there.
QueueInv ==
    /\ Queue!TypeOK
    /\ \A k \in 1 .. Len(processed) : processed[k] = k - 1
    /\ \A k \in 1 .. Len(data_queue) : data_queue[k] = Len(processed) + k - 1
    /\ Len(processed) + Len(data_queue) = q_i + IF producer = "notify" THEN 1 ELSE 0
    /\ q_m = "producer" <=> producer = "push"
    /\ q_m = "consumer" <=> consumer \in {"test", "take"}
    /\ producer = "done" <=> q_i = Last + 1
    /\ consumer = "take" => data_queue # <<>>
    /\ consumer = "print" => processed # <<>>
    /\ consumer \notin {"print", "done"} => Len(processed) <= Last
    /\ consumer = "asleep" =>
          producer # "done" /\ (data_queue # <<>> => producer = "notify")

LEMMA QueueInit == Queue!Init => QueueInv
BY Numbers DEF Queue!Init, QueueInv, Queue!TypeOK

LEMMA QueueStep == QueueInv /\ [Queue!Next]_(Queue!vars) => QueueInv'
<1> SUFFICES ASSUME QueueInv, [Queue!Next]_(Queue!vars) PROVE QueueInv'
    OBVIOUS
<1> USE Numbers
<1>0. /\ data_queue \in Seq(0 .. Last) /\ processed \in Seq(0 .. Last)
      /\ Len(data_queue) \in Nat /\ Len(processed) \in Nat /\ q_i \in 0 .. Last + 1
      BY DEF QueueInv, Queue!TypeOK
<1>1. CASE Queue!PrepareLock
      BY <1>0, <1>1 DEF Queue!PrepareLock, QueueInv, Queue!TypeOK
<1>2. CASE Queue!Push
  <2>1. /\ producer = "push" /\ data_queue' = Append(data_queue, q_i)
        /\ q_m' = "nobody" /\ producer' = "notify" /\ UNCHANGED <<q_i, consumer, processed>>
        BY <1>2 DEF Queue!Push
  <2>2. q_i \in 0 .. Last /\ Len(processed) + Len(data_queue) = q_i
        BY <1>0, <2>1 DEF QueueInv
  <2>3. /\ data_queue' \in Seq(0 .. Last) /\ Len(data_queue') = Len(data_queue) + 1
        /\ data_queue'[Len(data_queue) + 1] = q_i
        /\ \A k \in 1 .. Len(data_queue) : data_queue'[k] = data_queue[k]
        BY <1>0, <2>1, <2>2, AppendIs
  <2>4. \A k \in 1 .. Len(data_queue') : data_queue'[k] = Len(processed) + k - 1
    <3> SUFFICES ASSUME NEW k \in 1 .. Len(data_queue')
                 PROVE  data_queue'[k] = Len(processed) + k - 1
        OBVIOUS
    <3>1. CASE k \in 1 .. Len(data_queue)
          BY <2>3, <3>1 DEF QueueInv
    <3>2. CASE k = Len(data_queue) + 1
          BY <1>0, <2>2, <2>3, <3>2
    <3> QED BY <1>0, <2>3, <3>1, <3>2
  <2>5. Queue!TypeOK'
        BY <2>1, <2>3 DEF QueueInv, Queue!TypeOK
  <2>6. /\ \A k \in 1 .. Len(processed') : processed'[k] = k - 1
        /\ \A k \in 1 .. Len(data_queue') : data_queue'[k] = Len(processed') + k - 1
        BY <2>1, <2>4 DEF QueueInv
  <2>7. Len(processed') + Len(data_queue') = q_i' + 1
        BY <1>0, <2>1, <2>2, <2>3
  <2> QED BY <1>0, <2>1, <2>2, <2>5, <2>6, <2>7 DEF QueueInv
<1>3. CASE Queue!notify_one
      BY <1>0, <1>3 DEF Queue!notify_one, Queue!Awake, QueueInv, Queue!TypeOK
<1>4. CASE Queue!ProcessLock
      BY <1>0, <1>4 DEF Queue!ProcessLock, QueueInv, Queue!TypeOK
<1>5. CASE Queue!Wait
  <2>1. /\ consumer = "test" /\ data_queue = <<>> /\ q_m' = "nobody" /\ consumer' = "asleep"
        /\ UNCHANGED <<data_queue, q_i, producer, processed>>
        BY <1>5 DEF Queue!Wait, Queue!MustWait
  <2>2. producer # "done"
        BY <1>0, <2>1 DEF QueueInv
  <2> QED BY <1>0, <2>1, <2>2 DEF QueueInv, Queue!TypeOK
<1>6. CASE Queue!SpuriousWakeup
      BY <1>0, <1>6 DEF Queue!SpuriousWakeup, QueueInv, Queue!TypeOK
<1>7. CASE Queue!WaitReturns
      BY <1>0, <1>7 DEF Queue!WaitReturns, Queue!MustWait, QueueInv, Queue!TypeOK
<1>8. CASE Queue!Take
  <2>1. /\ consumer = "take" /\ processed' = Append(processed, Head(data_queue))
        /\ data_queue' = Tail(data_queue) /\ q_m' = "nobody" /\ consumer' = "print"
        /\ UNCHANGED <<q_i, producer>>
        BY <1>8 DEF Queue!Take
  <2>2. data_queue # <<>>
        BY <2>1 DEF QueueInv
  <2>3. /\ Len(data_queue) \in Nat \ {0} /\ Head(data_queue) = data_queue[1]
        /\ Head(data_queue) \in 0 .. Last
        /\ data_queue' \in Seq(0 .. Last) /\ Len(data_queue') = Len(data_queue) - 1
        /\ \A k \in 1 .. Len(data_queue') : data_queue'[k] = data_queue[k + 1]
        BY <1>0, <2>1, <2>2, TailIs
  <2>4. /\ processed' \in Seq(0 .. Last) /\ Len(processed') = Len(processed) + 1
        /\ processed'[Len(processed) + 1] = Head(data_queue)
        /\ \A k \in 1 .. Len(processed) : processed'[k] = processed[k]
        BY <1>0, <2>1, <2>3, AppendIs
  <2>5. Head(data_queue) = Len(processed)
        BY <1>0, <2>3 DEF QueueInv
  <2>6. \A k \in 1 .. Len(processed') : processed'[k] = k - 1
    <3> SUFFICES ASSUME NEW k \in 1 .. Len(processed') PROVE processed'[k] = k - 1
        OBVIOUS
    <3>1. CASE k \in 1 .. Len(processed)
          BY <2>4, <3>1 DEF QueueInv
    <3>2. CASE k = Len(processed) + 1
          BY <1>0, <2>4, <2>5, <3>2
    <3> QED BY <1>0, <2>4, <3>1, <3>2
  <2>7. \A k \in 1 .. Len(data_queue') : data_queue'[k] = Len(processed') + k - 1
    <3> SUFFICES ASSUME NEW k \in 1 .. Len(data_queue')
                 PROVE  data_queue'[k] = Len(processed') + k - 1
        OBVIOUS
    <3>1. k + 1 \in 1 .. Len(data_queue) /\ data_queue'[k] = data_queue[k + 1]
          BY <2>3
    <3>2. data_queue[k + 1] = Len(processed) + (k + 1) - 1
          BY <3>1 DEF QueueInv
    <3> QED BY <1>0, <2>4, <3>1, <3>2
  <2>8. processed' # <<>> /\ Len(processed') + Len(data_queue') = Len(processed) + Len(data_queue)
        BY <1>0, <2>3, <2>4
  <2>9. Queue!TypeOK'
        BY <2>1, <2>3, <2>4 DEF QueueInv, Queue!TypeOK
  <2> QED BY <2>1, <2>6, <2>7, <2>8, <2>9 DEF QueueInv
<1>9. CASE Queue!PrintOrBreak
  <2>1. /\ consumer = "print" /\ UNCHANGED <<q_m, data_queue, q_i, producer, processed>>
        /\ consumer' = IF processed[Len(processed)] = Last THEN "done" ELSE "lock"
        BY <1>9 DEF Queue!PrintOrBreak
  <2>2. Len(processed) # 0 /\ processed[Len(processed)] = Len(processed) - 1
        BY <1>0, <2>1, EmptyIs DEF QueueInv
  <2>3. Len(processed) <= Last + 1
        BY <1>0, <2>1 DEF QueueInv
  <2> QED BY <1>0, <2>1, <2>2, <2>3 DEF QueueInv, Queue!TypeOK
<1>10. CASE UNCHANGED Queue!vars
      BY <1>10 DEF Queue!vars, QueueInv, Queue!TypeOK
<1> QED BY <1>1, <1>2, <1>3, <1>4, <1>5, <1>6, <1>7, <1>8, <1>9, <1>10
        DEF Queue!Next, Queue!data_preparation_thread, Queue!data_processing_thread

LEMMA QueueHandedOver == QueueInv => Queue!HandedOver
<1> SUFFICES ASSUME QueueInv PROVE Queue!HandedOver
    OBVIOUS
<1>1. data_queue \in Seq(0 .. Last) /\ processed \in Seq(0 .. Last)
      BY DEF QueueInv, Queue!TypeOK
<1>2. \A k \in 1 .. Len(processed \o data_queue) : (processed \o data_queue)[k] = k - 1
      BY <1>1, ConcatIs DEF QueueInv
<1> QED BY <1>2 DEF QueueInv, Queue!HandedOver

-----------------------------------------------------------------------------
(* output_alternately.cpp.                                                 *)

\* Whose turn it is follows the parity of idx, and nobody has read an idx that
\* it has not had.
OutputInv ==
    /\ Output!TypeOK
    /\ Len(printed) = idx
    /\ \A k \in 1 .. Len(printed) : printed[k] = <<IF k % 2 = 1 THEN 1 ELSE 2, k - 1>>
    /\ flag <=> idx % 2 = 0
    /\ \A t \in {1, 2} : seen[t] <= idx

LEMMA OutputInit == Output!Init => OutputInv
<1> SUFFICES ASSUME Output!Init PROVE OutputInv
    OBVIOUS
<1>1. Output!TypeOK
      BY Numbers DEF Output!Init, Output!TypeOK, Output!Threads
<1> QED BY <1>1 DEF Output!Init, OutputInv, Output!Threads

LEMMA OutputStep == OutputInv /\ [Output!Next]_(Output!vars) => OutputInv'
<1> SUFFICES ASSUME OutputInv, [Output!Next]_(Output!vars) PROVE OutputInv'
    OBVIOUS
<1> USE Numbers DEF Output!Threads
<1>0. /\ printed \in Seq({1, 2} \X (0 .. StrLength - 1)) /\ Len(printed) \in Nat
      /\ idx \in 0 .. StrLength /\ seen \in [{1, 2} -> 0 .. StrLength]
      /\ o_at \in [{1, 2} -> {"while", "lock", "if", "done"}]
      BY DEF OutputInv, Output!TypeOK
<1>1. CASE \E t \in {1, 2} : Output!While(t)
  <2>1. PICK t \in {1, 2} : Output!While(t)
        BY <1>1
  <2>2. PICK v \in seen[t] .. idx :
          /\ seen' = [seen EXCEPT ![t] = v]
          /\ o_at' = [o_at EXCEPT ![t] = IF v < StrLength THEN "lock" ELSE "done"]
        BY <2>1 DEF Output!While
  <2>3. UNCHANGED <<flag, idx, mutex_, printed>>
        BY <2>1 DEF Output!While
  <2>4. v \in 0 .. StrLength /\ v <= idx
        BY <1>0, <2>2
  <2>5. Output!TypeOK'
        BY <1>0, <2>2, <2>3, <2>4 DEF OutputInv, Output!TypeOK
  <2>6. \A u \in {1, 2} : seen'[u] <= idx'
        BY <1>0, <2>2, <2>3, <2>4 DEF OutputInv
  <2> QED BY <2>3, <2>5, <2>6 DEF OutputInv
<1>2. CASE \E t \in {1, 2} : Output!Lock(t)
  <2>1. /\ UNCHANGED <<flag, idx, seen, printed>> /\ Output!TypeOK'
        BY <1>0, <1>2 DEF Output!Lock, OutputInv, Output!TypeOK
  <2> QED BY <2>1 DEF OutputInv
<1>3. CASE \E t \in {1, 2} : Output!Body(t)
  <2>1. PICK t \in {1, 2} : Output!Body(t)
        BY <1>3
  <2>2. /\ mutex_' = 0 /\ o_at' = [o_at EXCEPT ![t] = "while"]
        /\ seen' = [seen EXCEPT ![t] = idx']
        BY <2>1 DEF Output!Body, Output!free
  <2>3. CASE Output!Prints(t)
    <3>1. /\ printed' = Append(printed, <<t, idx>>) /\ idx' = idx + 1 /\ flag' = ~flag
          /\ flag = (t = 1) /\ idx < StrLength
          BY <2>1, <2>3 DEF Output!Body, Output!Prints, Output!MyTurn
    <3>2. <<t, idx>> \in {1, 2} \X (0 .. StrLength - 1)
          BY <1>0, <3>1
    <3>3. /\ printed' \in Seq({1, 2} \X (0 .. StrLength - 1))
          /\ Len(printed') = Len(printed) + 1
          /\ printed'[Len(printed) + 1] = <<t, idx>>
          /\ \A k \in 1 .. Len(printed) : printed'[k] = printed[k]
          BY <1>0, <3>1, <3>2, AppendIs
    <3>4. Output!TypeOK'
          BY <1>0, <2>2, <3>1, <3>3 DEF OutputInv, Output!TypeOK, Output!free
    <3>5. flag <=> idx % 2 = 0
          BY DEF OutputInv
    <3>6. flag' <=> idx' % 2 = 0
      <4>1. idx \in Nat /\ idx' = idx + 1
            BY <1>0, <3>1
      <4>2. idx % 2 = 0 <=> ~ (idx' % 2 = 0)
            BY <4>1
      <4> QED BY <3>1, <3>5, <4>2, Zenon
    <3>7. \A k \in 1 .. Len(printed') : printed'[k] = <<IF k % 2 = 1 THEN 1 ELSE 2, k - 1>>
      <4> SUFFICES ASSUME NEW k \in 1 .. Len(printed')
                   PROVE  printed'[k] = <<IF k % 2 = 1 THEN 1 ELSE 2, k - 1>>
          OBVIOUS
      <4>1. CASE k \in 1 .. Len(printed)
            BY <3>3, <4>1 DEF OutputInv
      <4>2. CASE k = Len(printed) + 1
        <5>1. k - 1 = idx /\ printed'[k] = <<t, idx>>
              BY <1>0, <3>3, <4>2 DEF OutputInv
        <5>2. (t = 1) <=> (idx % 2 = 0)
          <6>1. flag \in BOOLEAN /\ flag = (t = 1)
                BY <3>1 DEF OutputInv, Output!TypeOK
          <6> QED BY <6>1, <3>5, Zenon
        <5>3. /\ k \in Nat
              /\ (idx % 2 = 0) <=> (k % 2 = 1)
          <6>1. idx \in Nat /\ k = idx + 1
                BY <1>0, <5>1
          <6> QED BY <6>1
        <5>4. t = IF k % 2 = 1 THEN 1 ELSE 2
          <6>1. t = 1 \/ t = 2
                OBVIOUS
          <6>2. CASE t = 1
                BY <5>2, <5>3, <6>2, Zenon
          <6>3. CASE t # 1
                BY <5>2, <5>3, <6>1, <6>3, Zenon
          <6> QED BY <6>2, <6>3, Zenon
        <5> QED BY <5>1, <5>4
      <4>3. k \in 1 .. Len(printed) \/ k = Len(printed) + 1
            BY <1>0, <3>3
      <4> QED BY <4>1, <4>2, <4>3, Zenon
    <3>8. \A u \in {1, 2} : seen'[u] <= idx'
          BY <1>0, <2>2, <3>1 DEF OutputInv
    <3>9. Len(printed') = idx'
          BY <1>0, <3>1, <3>3 DEF OutputInv
    <3> QED BY <3>4, <3>6, <3>7, <3>8, <3>9 DEF OutputInv
  <2>4. CASE ~ Output!Prints(t)
    <3>1. UNCHANGED <<flag, idx, printed>>
          BY <2>1, <2>4 DEF Output!Body
    <3>2. Output!TypeOK'
          BY <1>0, <2>2, <3>1 DEF OutputInv, Output!TypeOK, Output!free
    <3>3. \A u \in {1, 2} : seen'[u] <= idx'
          BY <1>0, <2>2, <3>1 DEF OutputInv
    <3> QED BY <3>1, <3>2, <3>3 DEF OutputInv
  <2> QED BY <2>3, <2>4
<1>4. CASE UNCHANGED Output!vars
      BY <1>4 DEF Output!vars, OutputInv, Output!TypeOK
<1> QED BY <1>1, <1>2, <1>3, <1>4 DEF Output!Next, Output!Thread

LEMMA OutputInTurn == OutputInv => Output!PrintedInTurn
BY DEF OutputInv, Output!PrintedInTurn

-----------------------------------------------------------------------------
(* FrameSync.cpp and StateSync.cpp.                                        *)

LEMMA ConcatAppend ==
    ASSUME NEW S, NEW s \in Seq(S), NEW t \in Seq(S), NEW x \in S
    PROVE  s \o Append(t, x) = Append(s \o t, x)
<1> DEFINE u == s \o Append(t, x)
           w == Append(s \o t, x)
<1>1. /\ u \in Seq(S) /\ w \in Seq(S) /\ Len(s) \in Nat /\ Len(t) \in Nat
      /\ Len(u) = Len(s) + Len(t) + 1 /\ Len(w) = Len(s) + Len(t) + 1
      OBVIOUS
<1>2. ASSUME NEW k \in 1 .. Len(s) + Len(t) + 1 PROVE u[k] = w[k]
      OBVIOUS
<1>3. u = w
      BY <1>1, <1>2
<1> QED BY <1>3

LEMMA EmptyConcat ==
    ASSUME NEW S, NEW s \in Seq(S)
    PROVE  /\ s \o <<>> = s /\ <<>> \in Seq(S)
           /\ SubSeq(s, Len(s) + 1, Len(s)) = <<>>
OBVIOUS

\* Of each player, what has been applied and what waits is what came, in that
\* order; the mutex is held where the code holds it, and nothing is put in a
\* queue from the making of a frame until the guard's scope ends.
GameInv ==
    /\ Game!TypeOK
    /\ \A p \in Player : applied[p] \o input_queue[p] = received[p]
    /\ g_program = "state" => \A p \in Player : input_queue[p] = <<>>
    /\ g_server = "sleep" /\ g_program = "frame" => \A p \in Player : input_queue[p] = <<>>
    /\ g_mutex = "main" <=> g_main = "receive"
    /\ g_mutex = "server" <=>
          g_server = "frame" \/ (g_server = "sleep" /\ g_program = "frame")
    /\ g_main = "start" => g_server = "off"

LEMMA GameInit == Game!Init => GameInv
<1> SUFFICES ASSUME Game!Init PROVE GameInv
    OBVIOUS
<1> USE DEF Game!Init
<1>1. <<>> \in Seq(Game!Moves) /\ <<>> \o <<>> = <<>>
      BY EmptyConcat
<1>2. Game!TypeOK
      BY <1>1 DEF Game!TypeOK
<1>3. \A p \in Player : applied[p] \o input_queue[p] = received[p]
      BY <1>1
<1> QED BY <1>2, <1>3 DEF GameInv

LEMMA GameStep == GameInv /\ [Game!Next]_(Game!vars) => GameInv'
<1> SUFFICES ASSUME GameInv, [Game!Next]_(Game!vars) PROVE GameInv'
    OBVIOUS
<1>0. /\ input_queue \in [Player -> Seq(Game!Moves)] /\ applied \in [Player -> Seq(Game!Moves)]
      /\ received \in [Player -> Seq(Game!Moves)]
      BY DEF GameInv, Game!TypeOK
<1>1. CASE UNCHANGED <<input_queue, applied, received, g_program>> /\
           (Game!start \/ Game!CallReceiveInput \/ Game!MainLocks \/ Game!Stop \/ Game!Join
              \/ Game!While \/ Game!ServerLocks \/ Game!Broadcast \/ Game!Wake)
  <2> USE DEF Game!start, Game!CallReceiveInput, Game!MainLocks, Game!Stop, Game!Join,
              Game!While, Game!ServerLocks, Game!Broadcast, Game!Wake
  <2>1. Game!TypeOK'
        BY <1>1 DEF GameInv, Game!TypeOK
  <2>2. /\ g_server' = "sleep" /\ g_program = "frame" => g_server = "sleep"
        /\ g_program \in {"frame", "state"} /\ g_program' = g_program
        BY <1>1 DEF GameInv, Game!TypeOK
  <2>3. g_mutex' = "main" <=> g_main' = "receive"
        BY <1>1 DEF GameInv, Game!TypeOK
  <2>4. /\ g_mutex' = "server" <=>
             g_server' = "frame" \/ (g_server' = "sleep" /\ g_program' = "frame")
        /\ g_main' = "start" => g_server' = "off"
        BY <1>1 DEF GameInv, Game!TypeOK
  <2>5. UNCHANGED <<input_queue, applied, received, g_program>>
        BY <1>1
  <2>6. \A p \in Player : applied'[p] \o input_queue'[p] = received'[p]
        BY <2>5 DEF GameInv
  <2>7. g_program' = "state" => \A p \in Player : input_queue'[p] = <<>>
        BY <2>5 DEF GameInv
  <2>8. g_server' = "sleep" /\ g_program' = "frame"
           => \A p \in Player : input_queue'[p] = <<>>
    <3>1. CASE g_server' = "sleep" /\ g_program' = "frame"
      <4>1. \A p \in Player : input_queue[p] = <<>>
            BY <2>2, <3>1 DEF GameInv
      <4> QED BY <2>5, <4>1
    <3> QED BY <3>1
  <2> HIDE DEF Game!start, Game!CallReceiveInput, Game!MainLocks, Game!Stop, Game!Join,
               Game!While, Game!ServerLocks, Game!Broadcast, Game!Wake
  <2> QED BY <2>1, <2>3, <2>4, <2>6, <2>7, <2>8 DEF GameInv
<1>2. ASSUME NEW p \in Player, NEW move \in Game!Moves, Game!QueueInput(p, move)
      PROVE  GameInv'
  <2>1. /\ g_program = "frame" /\ g_main = "receive" /\ g_main' = "idle" /\ g_mutex' = "free"
        /\ input_queue' = [input_queue EXCEPT ![p] = Append(@, move)]
        /\ received' = [received EXCEPT ![p] = Append(@, move)]
        /\ UNCHANGED <<g_program, running, g_server, applied>>
        BY <1>2 DEF Game!QueueInput
  <2>2. /\ Append(input_queue[p], move) \in Seq(Game!Moves)
        /\ Append(received[p], move) \in Seq(Game!Moves)
        BY <1>0, AppendIs
  <2>3. Game!TypeOK'
        BY <2>1, <2>2 DEF GameInv, Game!TypeOK
  <2>4. applied[p] \o Append(input_queue[p], move) = Append(applied[p] \o input_queue[p], move)
        BY <1>0, ConcatAppend
  <2>5. \A r \in Player : applied'[r] \o input_queue'[r] = received'[r]
        BY <1>0, <2>1, <2>4 DEF GameInv
  <2>6. ~ (g_server = "frame" \/ (g_server = "sleep" /\ g_program = "frame"))
        BY <2>1 DEF GameInv
  <2> QED BY <2>1, <2>3, <2>5, <2>6 DEF GameInv
<1>3. ASSUME NEW p \in Player, NEW move \in Game!Moves, Game!ApplyInput(p, move)
      PROVE  GameInv'
  <2>1. /\ g_program = "state" /\ g_main = "receive" /\ g_main' = "idle" /\ g_mutex' = "free"
        /\ applied' = [applied EXCEPT ![p] = Append(@, move)]
        /\ received' = [received EXCEPT ![p] = Append(@, move)]
        /\ UNCHANGED <<g_program, running, g_server, input_queue>>
        BY <1>3 DEF Game!ApplyInput
  <2>2. /\ Append(applied[p], move) \in Seq(Game!Moves)
        /\ Append(received[p], move) \in Seq(Game!Moves)
        BY <1>0, AppendIs
  <2>3. Game!TypeOK'
        BY <2>1, <2>2 DEF GameInv, Game!TypeOK
  <2>4. /\ input_queue[p] = <<>> /\ applied[p] \o <<>> = applied[p]
        /\ Append(applied[p], move) \o <<>> = Append(applied[p], move)
        BY <1>0, <2>1, <2>2, EmptyConcat DEF GameInv
  <2>5. \A r \in Player : applied'[r] \o input_queue'[r] = received'[r]
        BY <1>0, <2>1, <2>4 DEF GameInv
  <2>6. ~ (g_server = "frame" \/ (g_server = "sleep" /\ g_program = "frame"))
        BY <2>1 DEF GameInv
  <2> QED BY <2>1, <2>3, <2>5, <2>6 DEF GameInv
<1>4. CASE Game!Frame
  <2>1. /\ g_program = "frame" /\ g_server = "frame" /\ g_server' = "sleep"
        /\ applied' = [p \in Player |-> applied[p] \o input_queue[p]]
        /\ input_queue' = [p \in Player |->
               SubSeq(input_queue[p], Len(input_queue[p]) + 1, Len(input_queue[p]))]
        /\ UNCHANGED <<g_program, running, g_mutex, g_main, received>>
        BY <1>4 DEF Game!Frame, Game!Taken
  <2>2. \A p \in Player : /\ applied'[p] = applied[p] \o input_queue[p]
                          /\ applied'[p] \in Seq(Game!Moves)
                          /\ input_queue'[p] = <<>>
        BY <1>0, <2>1, EmptyConcat, ConcatIs
  <2>3. /\ applied' \in [Player -> Seq(Game!Moves)] /\ input_queue' \in [Player -> Seq(Game!Moves)]
        BY <2>1, <2>2, EmptyConcat
  <2>4. Game!TypeOK'
        BY <2>1, <2>3 DEF GameInv, Game!TypeOK
  <2>5. \A p \in Player : applied'[p] \o input_queue'[p] = received'[p]
    <3> SUFFICES ASSUME NEW p \in Player PROVE applied'[p] \o input_queue'[p] = received'[p]
        OBVIOUS
    <3>1. applied'[p] \o <<>> = applied'[p]
          BY <2>2, EmptyConcat
    <3> QED BY <2>1, <2>2, <3>1 DEF GameInv
  <2> QED BY <2>1, <2>2, <2>4, <2>5 DEF GameInv
<1>5. CASE UNCHANGED Game!vars
      BY <1>5 DEF Game!vars, GameInv, Game!TypeOK
<1>6. CASE Game!mainThread \/ Game!serverThread
  <2>1. CASE Game!receiveInput
        BY <2>1, <1>2, <1>3 DEF Game!receiveInput
  <2>2. CASE ~ Game!receiveInput /\ ~ Game!Frame
        BY <1>1, <1>6, <2>2 DEF Game!mainThread, Game!serverThread, Game!start,
           Game!CallReceiveInput, Game!MainLocks, Game!Stop, Game!Join, Game!While,
           Game!ServerLocks, Game!Broadcast, Game!Wake
  <2> QED BY <1>4, <2>1, <2>2
<1> QED BY <1>5, <1>6 DEF Game!Next

LEMMA GameInOrder == GameInv => Game!MovesInOrder
BY DEF GameInv, Game!MovesInOrder

-----------------------------------------------------------------------------
(* threadsafe_stack.cpp.                                                   *)

LEMMA FrontIs ==
    ASSUME NEW S, NEW s \in Seq(S), s # <<>>
    PROVE  /\ Len(s) \in Nat \ {0} /\ s[Len(s)] \in S
           /\ Stack!Front(s) \in Seq(S) /\ Len(Stack!Front(s)) = Len(s) - 1
           /\ \A k \in 1 .. Len(Stack!Front(s)) : Stack!Front(s)[k] = s[k]
<1>1. /\ Len(s) \in Nat \ {0} /\ Len(s) \in 1 .. Len(s)
      /\ \A k \in 1 .. Len(s) : s[k] \in S
      OBVIOUS
<1>2. /\ 1 \in Int /\ Len(s) - 1 \in Int /\ \A k \in 1 .. Len(s) - 1 : s[k] \in S
      BY <1>1
<1> DEFINE f == SubSeq(s, 1, Len(s) - 1)
<1>3. /\ f \in Seq(S)
      /\ Len(f) = IF 1 <= Len(s) - 1 THEN (Len(s) - 1) - 1 + 1 ELSE 0
      /\ \A k \in 1 .. (Len(s) - 1) - 1 + 1 : f[k] = s[1 + k - 1]
      BY <1>2, SubSeqProperties
<1> HIDE DEF f
<1>4. Len(f) = Len(s) - 1
  <2>1. ASSUME NEW n \in Nat \ {0}, NEW l, l = IF 1 <= n - 1 THEN (n - 1) - 1 + 1 ELSE 0
        PROVE  l = n - 1
        BY <2>1
  <2> QED BY <1>1, <1>3, <2>1, Zenon
<1>5. \A k \in 1 .. Len(s) - 1 : f[k] = s[k]
      BY <1>1, <1>3
<1>6. Stack!Front(s) = f
      BY DEF Stack!Front, f
<1> QED BY <1>1, <1>3, <1>4, <1>5, <1>6

On(v) == \E k \in 1 .. Len(data) : data[k] = v
Off(v) == \E k \in 1 .. Len(popped) : popped[k] = v
LastPushed == IF adding = "unlock" THEN next ELSE next - 1

\* The values pushed so far lie on the stack in their order or have been popped,
\* once; the mutex is held where the code holds it, so that the value a pop has
\* read is still on top when it is removed.
StackInv ==
    /\ Stack!TypeOK
    /\ \A j, k \in 1 .. Len(data) : j < k => data[j] < data[k]
    /\ \A j, k \in 1 .. Len(popped) : popped[j] = popped[k] => j = k
    /\ \A v \in Int : On(v) => ~ Off(v)
    /\ \A v \in Int : v \in LowValue .. LastPushed <=> On(v) \/ Off(v)
    /\ s_m = "add" <=> adding \in {"push", "unlock"}
    /\ s_m = "pop" <=> popping \in {"test", "pop", "unlock"}
    /\ popping = "pop" => data # <<>> /\ top = data[Len(data)]
    /\ adding = "done" <=> next = HighValue + 1
    /\ popping \in {"test", "pop", "unlock"} => tried < Tries
    /\ Len(popped) + thrown = tried + IF popping = "unlock" THEN 1 ELSE 0

LEMMA StackInit == Stack!Init => StackInv
<1> SUFFICES ASSUME Stack!Init PROVE StackInv
    OBVIOUS
<1> USE Numbers DEF Stack!Init
<1>1. Stack!TypeOK
      BY DEF Stack!TypeOK, Stack!Nobody
<1>2. \A v \in Int : /\ ~ On(v) /\ ~ Off(v)
                     /\ v \notin LowValue .. LastPushed
      BY DEF On, Off, LastPushed
<1> QED BY <1>1, <1>2 DEF StackInv, Stack!Nobody

LEMMA StackStep == StackInv /\ [Stack!Next]_(Stack!vars) => StackInv'
<1> SUFFICES ASSUME StackInv, [Stack!Next]_(Stack!vars) PROVE StackInv'
    OBVIOUS
<1> USE Numbers
<1>0. /\ data \in Seq(LowValue .. HighValue) /\ popped \in Seq(LowValue .. HighValue)
      /\ Len(data) \in Nat /\ Len(popped) \in Nat /\ next \in LowValue .. HighValue + 1
      /\ tried \in 0 .. Tries /\ thrown \in 0 .. Tries
      BY DEF StackInv, Stack!TypeOK
<1>1. ASSUME UNCHANGED <<data, popped, LastPushed>>, Stack!TypeOK',
             s_m' = "add" <=> adding' \in {"push", "unlock"},
             s_m' = "pop" <=> popping' \in {"test", "pop", "unlock"},
             popping' = "pop" => data # <<>> /\ top' = data[Len(data)],
             adding' = "done" <=> next' = HighValue + 1,
             popping' \in {"test", "pop", "unlock"} => tried' < Tries,
             Len(popped) + thrown' = tried' + IF popping' = "unlock" THEN 1 ELSE 0
      PROVE  StackInv'
  <2>1. /\ \A j, k \in 1 .. Len(data') : j < k => data'[j] < data'[k]
        /\ \A j, k \in 1 .. Len(popped') : popped'[j] = popped'[k] => j = k
        BY <1>1 DEF StackInv
  <2>2. \A v \in Int : (On(v)' <=> On(v)) /\ (Off(v)' <=> Off(v))
        BY <1>1 DEF On, Off
  <2>3. /\ \A v \in Int : On(v)' => ~ Off(v)'
        /\ \A v \in Int : v \in LowValue .. LastPushed' <=> On(v)' \/ Off(v)'
        BY <1>1, <2>2 DEF StackInv
  <2> QED BY <1>1, <2>1, <2>3 DEF StackInv
<1>2. CASE Stack!PushLocks \/ Stack!PushReturns \/ Stack!PopLocks \/ Stack!ReadTop
              \/ Stack!Throw \/ Stack!PopReturns
  <2> USE DEF Stack!PushLocks, Stack!PushReturns, Stack!PopLocks, Stack!ReadTop, Stack!Throw,
              Stack!PopReturns, Stack!Lock, Stack!Unlock, Stack!Nobody
  <2>1. UNCHANGED <<data, popped, LastPushed>>
        BY <1>0, <1>2 DEF LastPushed
  <2>2. /\ s_m' = "add" <=> adding' \in {"push", "unlock"}
        /\ s_m' = "pop" <=> popping' \in {"test", "pop", "unlock"}
        BY <1>2 DEF StackInv, Stack!TypeOK
  <2>3. popping' = "pop" => data # <<>> /\ top' = data[Len(data)]
        BY <1>2 DEF StackInv
  <2>4. adding' = "done" <=> next' = HighValue + 1
        BY <1>0, <1>2 DEF StackInv
  <2>5. popping' \in {"test", "pop", "unlock"} => tried' < Tries
        BY <1>0, <1>2 DEF StackInv
  <2>6. Len(popped) + thrown' = tried' + IF popping' = "unlock" THEN 1 ELSE 0
        BY <1>0, <1>2 DEF StackInv
  <2>7. /\ popping = "test" => tried < Tries /\ Len(popped) + thrown = tried
        /\ popping = "unlock" => tried < Tries
        /\ adding = "unlock" => next <= HighValue
        BY <1>0 DEF StackInv
  <2>8. Stack!TypeOK'
    <3>1. data # <<>> => data[Len(data)] \in LowValue .. HighValue
          BY <1>0, FrontIs
    <3>2. /\ tried' \in 0 .. Tries /\ thrown' \in 0 .. Tries
          /\ next' \in LowValue .. HighValue + 1
          BY <1>0, <1>2, <2>7
    <3>3. top' \in LowValue - 1 .. HighValue
          BY <1>2, <3>1 DEF StackInv, Stack!TypeOK
    <3> QED BY <1>2, <3>2, <3>3 DEF StackInv, Stack!TypeOK
  <2> QED BY <1>1, <2>1, <2>2, <2>3, <2>4, <2>5, <2>6, <2>8
<1>3. CASE Stack!Push
  <2>1. /\ adding = "push" /\ data' = Append(data, next) /\ adding' = "unlock"
        /\ UNCHANGED <<s_m, next, popping, tried, top, popped, thrown>>
        BY <1>3 DEF Stack!Push
  <2>2. /\ next \in LowValue .. HighValue /\ s_m = "add" /\ popping \notin {"test", "pop", "unlock"}
        BY <1>0, <2>1 DEF StackInv
  <2>3. /\ data' \in Seq(LowValue .. HighValue) /\ Len(data') = Len(data) + 1
        /\ data'[Len(data) + 1] = next
        /\ \A k \in 1 .. Len(data) : data'[k] = data[k]
        BY <1>0, <2>1, <2>2, AppendIs
  <2>4. LastPushed = next - 1 /\ LastPushed' = next
        BY <2>1 DEF LastPushed
  <2>5. \A v \in Int : v \in LowValue .. next - 1 <=> On(v) \/ Off(v)
        BY <2>4 DEF StackInv
  <2>6. ~ On(next) /\ ~ Off(next)
        BY <1>0, <2>5
  <2>7. \A v \in Int : (On(v)' <=> On(v) \/ v = next) /\ (Off(v)' <=> Off(v))
    <3> SUFFICES ASSUME NEW v \in Int PROVE (On(v)' <=> On(v) \/ v = next) /\ (Off(v)' <=> Off(v))
        OBVIOUS
    <3>1. On(v)' => On(v) \/ v = next
      <4> SUFFICES ASSUME NEW k \in 1 .. Len(data'), data'[k] = v PROVE On(v) \/ v = next
          BY DEF On
      <4>1. k \in 1 .. Len(data) \/ k = Len(data) + 1
            BY <1>0, <2>3
      <4> QED BY <2>3, <4>1 DEF On
    <3>2. On(v) \/ v = next => On(v)'
      <4>1. CASE On(v)
        <5>1. PICK k \in 1 .. Len(data) : data[k] = v
              BY <4>1 DEF On
        <5>2. k \in 1 .. Len(data') /\ data'[k] = v
              BY <1>0, <2>3, <5>1
        <5> QED BY <5>2 DEF On
      <4>2. CASE v = next
        <5>1. Len(data) + 1 \in 1 .. Len(data') /\ data'[Len(data) + 1] = v
              BY <1>0, <2>3, <4>2
        <5> QED BY <5>1 DEF On
      <4> QED BY <4>1, <4>2
    <3>3. Off(v)' <=> Off(v)
          BY <2>1 DEF Off
    <3> QED BY <3>1, <3>2, <3>3
  <2>8. \A j, k \in 1 .. Len(data') : j < k => data'[j] < data'[k]
    <3> SUFFICES ASSUME NEW j \in 1 .. Len(data'), NEW k \in 1 .. Len(data'), j < k
                 PROVE  data'[j] < data'[k]
        OBVIOUS
    <3>0. /\ j \in 1 .. Len(data)
          /\ k \in 1 .. Len(data) \/ k = Len(data) + 1
      <4>1. Len(data') = Len(data) + 1
            BY <2>3
      <4> QED BY <1>0, <4>1
    <3>1. data'[j] = data[j]
          BY <2>3, <3>0
    <3>2. CASE k \in 1 .. Len(data)
          BY <2>3, <3>0, <3>1, <3>2 DEF StackInv
    <3>3. CASE k = Len(data) + 1
      <4>1. On(data[j]) /\ data[j] \in Int
            BY <1>0, <3>0 DEF On
      <4>2. data[j] \in LowValue .. next - 1
            BY <2>5, <4>1
      <4>3. data'[k] = next
            BY <2>3, <3>3
      <4> QED BY <1>0, <3>1, <4>2, <4>3
    <3> QED BY <3>0, <3>2, <3>3
  <2>9. Stack!TypeOK'
        BY <2>1, <2>3 DEF StackInv, Stack!TypeOK
  <2>10. \A v \in Int : On(v)' => ~ Off(v)'
        BY <1>0, <2>6, <2>7 DEF StackInv
  <2>11. \A v \in Int : v \in LowValue .. LastPushed' <=> On(v)' \/ Off(v)'
    <3> SUFFICES ASSUME NEW v \in Int
                 PROVE  v \in LowValue .. next <=> On(v)' \/ Off(v)'
        BY <2>4
    <3>1. v \in LowValue .. next <=> v \in LowValue .. next - 1 \/ v = next
          BY <1>0
    <3> QED BY <2>5, <2>7, <3>1
  <2>12. /\ \A j, k \in 1 .. Len(popped') : popped'[j] = popped'[k] => j = k
         /\ Len(popped') + thrown' = tried' + IF popping' = "unlock" THEN 1 ELSE 0
        BY <2>1 DEF StackInv
  <2>13. /\ s_m' = "add" <=> adding' \in {"push", "unlock"}
         /\ s_m' = "pop" <=> popping' \in {"test", "pop", "unlock"}
         /\ popping' = "pop" => data' # <<>> /\ top' = data'[Len(data')]
         /\ popping' \in {"test", "pop", "unlock"} => tried' < Tries
         /\ adding' = "done" <=> next' = HighValue + 1
        BY <1>0, <2>1, <2>2
  <2> QED BY <2>8, <2>9, <2>10, <2>11, <2>12, <2>13 DEF StackInv
<1>4. CASE Stack!Pop
  <2>1. /\ popping = "pop" /\ data' = Stack!Front(data) /\ popped' = Append(popped, top)
        /\ popping' = "unlock" /\ UNCHANGED <<s_m, adding, next, tried, top, thrown>>
        BY <1>4 DEF Stack!Pop
  <2>2. /\ data # <<>> /\ top = data[Len(data)] /\ s_m = "pop" /\ tried < Tries
        /\ adding \notin {"push", "unlock"}
        BY <2>1 DEF StackInv
  <2>3. /\ Len(data) \in Nat \ {0} /\ top \in LowValue .. HighValue /\ top \in Int
        /\ data' \in Seq(LowValue .. HighValue) /\ Len(data') = Len(data) - 1
        /\ \A k \in 1 .. Len(data') : data'[k] = data[k]
    <3>1. /\ Len(data) \in Nat \ {0} /\ data[Len(data)] \in LowValue .. HighValue
          /\ Stack!Front(data) \in Seq(LowValue .. HighValue)
          /\ Len(Stack!Front(data)) = Len(data) - 1
          /\ \A k \in 1 .. Len(Stack!Front(data)) : Stack!Front(data)[k] = data[k]
          BY <1>0, <2>2, FrontIs
    <3>2. top \in LowValue .. HighValue
          BY <2>2, <3>1
    <3> QED BY <2>1, <3>1, <3>2
  <2>4. /\ popped' \in Seq(LowValue .. HighValue) /\ Len(popped') = Len(popped) + 1
        /\ popped'[Len(popped) + 1] = top
        /\ \A k \in 1 .. Len(popped) : popped'[k] = popped[k]
        BY <1>0, <2>1, <2>3, AppendIs
  <2>5. On(top) /\ ~ Off(top)
        BY <1>0, <2>2, <2>3 DEF StackInv, On
  <2>6. \A v \in Int : (On(v)' <=> On(v) /\ v # top) /\ (Off(v)' <=> Off(v) \/ v = top)
    <3> SUFFICES ASSUME NEW v \in Int
                 PROVE  (On(v)' <=> On(v) /\ v # top) /\ (Off(v)' <=> Off(v) \/ v = top)
        OBVIOUS
    <3>1. On(v)' => On(v) /\ v # top
      <4> SUFFICES ASSUME NEW k \in 1 .. Len(data'), data'[k] = v PROVE On(v) /\ v # top
          BY DEF On
      <4>1. /\ k \in 1 .. Len(data) /\ Len(data) \in 1 .. Len(data) /\ k < Len(data)
            /\ data[k] = v
            BY <2>3
      <4>2. data[k] < data[Len(data)]
            BY <4>1 DEF StackInv
      <4>3. data[k] \in Int /\ data[Len(data)] \in Int
            BY <1>0, <4>1
      <4>4. v # top
            BY <2>2, <4>1, <4>2, <4>3
      <4> QED BY <4>1, <4>4 DEF On
    <3>2. On(v) /\ v # top => On(v)'
      <4> SUFFICES ASSUME NEW k \in 1 .. Len(data), data[k] = v, v # top PROVE On(v)'
          BY DEF On
      <4>1. k \in 1 .. Len(data') /\ data'[k] = v
            BY <2>2, <2>3
      <4> QED BY <4>1 DEF On
    <3>3. Off(v)' => Off(v) \/ v = top
      <4> SUFFICES ASSUME NEW k \in 1 .. Len(popped'), popped'[k] = v PROVE Off(v) \/ v = top
          BY DEF Off
      <4>1. k \in 1 .. Len(popped) \/ k = Len(popped) + 1
            BY <1>0, <2>4
      <4> QED BY <2>4, <4>1 DEF Off
    <3>4. Off(v) \/ v = top => Off(v)'
      <4>1. CASE Off(v)
        <5>1. PICK k \in 1 .. Len(popped) : popped[k] = v
              BY <4>1 DEF Off
        <5>2. k \in 1 .. Len(popped') /\ popped'[k] = v
              BY <1>0, <2>4, <5>1
        <5> QED BY <5>2 DEF Off
      <4>2. CASE v = top
        <5>1. Len(popped) + 1 \in 1 .. Len(popped') /\ popped'[Len(popped) + 1] = v
              BY <1>0, <2>4, <4>2
        <5> QED BY <5>1 DEF Off
      <4> QED BY <4>1, <4>2
    <3> QED BY <3>1, <3>2, <3>3, <3>4
  <2>7. \A j, k \in 1 .. Len(data') : j < k => data'[j] < data'[k]
    <3> SUFFICES ASSUME NEW j \in 1 .. Len(data'), NEW k \in 1 .. Len(data'), j < k
                 PROVE  data'[j] < data'[k]
        OBVIOUS
    <3>1. j \in 1 .. Len(data) /\ k \in 1 .. Len(data)
          BY <2>3
    <3> QED BY <2>3, <3>1 DEF StackInv
  <2>8. \A j, k \in 1 .. Len(popped') : popped'[j] = popped'[k] => j = k
    <3> SUFFICES ASSUME NEW j \in 1 .. Len(popped'), NEW k \in 1 .. Len(popped'),
                        popped'[j] = popped'[k]
                 PROVE  j = k
        OBVIOUS
    <3>1. /\ j \in 1 .. Len(popped) \/ j = Len(popped) + 1
          /\ k \in 1 .. Len(popped) \/ k = Len(popped) + 1
          BY <1>0, <2>4
    <3>2. \A n \in 1 .. Len(popped) : popped[n] # top
          BY <2>5 DEF Off
    <3>3. CASE j \in 1 .. Len(popped) /\ k \in 1 .. Len(popped)
          BY <2>4, <3>3 DEF StackInv
    <3>4. CASE j = Len(popped) + 1 \/ k = Len(popped) + 1
          BY <2>4, <3>1, <3>2, <3>4
    <3> QED BY <3>1, <3>3, <3>4
  <2>9. Stack!TypeOK'
        BY <2>1, <2>3, <2>4 DEF StackInv, Stack!TypeOK
  <2>10. LastPushed' = LastPushed
        BY <2>1 DEF LastPushed
  <2>11. \A v \in Int : On(v)' => ~ Off(v)'
        BY <2>6 DEF StackInv
  <2>12. \A v \in Int : v \in LowValue .. LastPushed' <=> On(v)' \/ Off(v)'
    <3> SUFFICES ASSUME NEW v \in Int
                 PROVE  v \in LowValue .. LastPushed <=> On(v)' \/ Off(v)'
        BY <2>10
    <3>1. v \in LowValue .. LastPushed <=> On(v) \/ Off(v)
          BY DEF StackInv
    <3>2. v = top => On(v)
          BY <2>5
    <3> QED BY <2>6, <3>1, <3>2
  <2>13. Len(popped') + thrown' = tried' + IF popping' = "unlock" THEN 1 ELSE 0
    <3>1. Len(popped) + thrown = tried + 0
          BY <2>1 DEF StackInv
    <3>2. Len(popped') = Len(popped) + 1 /\ thrown' = thrown /\ tried' = tried /\ popping' = "unlock"
          BY <2>1, <2>4
    <3> QED BY <1>0, <3>1, <3>2
  <2>14. /\ s_m' = "add" <=> adding' \in {"push", "unlock"}
         /\ s_m' = "pop" <=> popping' \in {"test", "pop", "unlock"}
         /\ popping' = "pop" => data' # <<>> /\ top' = data'[Len(data')]
         /\ popping' \in {"test", "pop", "unlock"} => tried' < Tries
         /\ adding' = "done" <=> next' = HighValue + 1
        BY <2>1, <2>2 DEF StackInv
  <2> QED BY <2>7, <2>8, <2>9, <2>11, <2>12, <2>13, <2>14 DEF StackInv
<1>5. CASE UNCHANGED Stack!vars
  <2>1. UNCHANGED LastPushed /\ Stack!TypeOK'
        BY <1>5 DEF Stack!vars, LastPushed, StackInv, Stack!TypeOK
  <2> QED BY <1>1, <1>5, <2>1 DEF Stack!vars, StackInv
<1> QED BY <1>2, <1>3, <1>4, <1>5 DEF Stack!Next, Stack!add_to_stack, Stack!pop_from_stack

LEMMA StackSound == StackInv => Stack!NothingLostOrDoubled
<1> SUFFICES ASSUME StackInv PROVE Stack!NothingLostOrDoubled
    OBVIOUS
<1> USE Numbers
<1> DEFINE both == data \o popped
<1>0. /\ data \in Seq(LowValue .. HighValue) /\ popped \in Seq(LowValue .. HighValue)
      /\ Len(data) \in Nat /\ Len(popped) \in Nat /\ next \in Int
      BY DEF StackInv, Stack!TypeOK
<1>1. /\ both \in Seq(LowValue .. HighValue) /\ Len(both) = Len(data) + Len(popped)
      /\ \A k \in 1 .. Len(data) : both[k] = data[k]
      /\ \A k \in Len(data) + 1 .. Len(data) + Len(popped) : both[k] = popped[k - Len(data)]
      BY <1>0, ConcatIs
<1> HIDE DEF both
<1>2. ASSUME NEW k \in 1 .. Len(both)
      PROVE  \/ k \in 1 .. Len(data) /\ both[k] = data[k]
             \/ /\ k \notin 1 .. Len(data) /\ k - Len(data) \in 1 .. Len(popped)
                /\ both[k] = popped[k - Len(data)]
  <2>1. CASE k \in 1 .. Len(data)
        BY <1>1, <2>1
  <2>2. CASE k \notin 1 .. Len(data)
    <3>1. /\ k \in Len(data) + 1 .. Len(data) + Len(popped)
          /\ k - Len(data) \in 1 .. Len(popped)
          BY <1>0, <1>1, <2>2
    <3> QED BY <1>1, <2>2, <3>1
  <2> QED BY <2>1, <2>2
<1>3. DOMAIN both = 1 .. Len(both)
      BY <1>1
<1>4. /\ \A k \in 1 .. Len(data) : data[k] \in Int /\ On(data[k])
      /\ \A k \in 1 .. Len(popped) : popped[k] \in Int /\ Off(popped[k])
      BY <1>0 DEF On, Off
<1>5. \A j, k \in 1 .. Len(data) : data[j] = data[k] => j = k
  <2> SUFFICES ASSUME NEW j \in 1 .. Len(data), NEW k \in 1 .. Len(data), data[j] = data[k]
               PROVE  j = k
      OBVIOUS
  <2>1. ~ (data[j] < data[k]) /\ ~ (data[k] < data[j])
        BY <1>4
  <2>2. ~ (j < k) /\ ~ (k < j)
        BY <2>1 DEF StackInv
  <2> QED BY <1>0, <2>2
<1>6. ASSUME NEW j \in 1 .. Len(both), NEW k \in 1 .. Len(both), both[j] = both[k]
      PROVE  j = k
  <2>1. CASE j \in 1 .. Len(data) /\ k \in 1 .. Len(data)
        BY <1>2, <1>5, <1>6, <2>1
  <2>2. CASE j \notin 1 .. Len(data) /\ k \notin 1 .. Len(data)
    <3>1. /\ j - Len(data) \in 1 .. Len(popped) /\ k - Len(data) \in 1 .. Len(popped)
          /\ popped[j - Len(data)] = popped[k - Len(data)]
          BY <1>2, <1>6, <2>2
    <3>2. j - Len(data) = k - Len(data)
          BY <3>1 DEF StackInv
    <3> QED BY <1>0, <3>2
  <2>3. CASE j \in 1 .. Len(data) /\ k \notin 1 .. Len(data)
    <3>1. On(both[j]) /\ Off(both[j]) /\ both[j] \in Int
          BY <1>2, <1>4, <1>6, <2>3
    <3> QED BY <3>1 DEF StackInv
  <2>4. CASE j \notin 1 .. Len(data) /\ k \in 1 .. Len(data)
    <3>1. On(both[j]) /\ Off(both[j]) /\ both[j] \in Int
          BY <1>2, <1>4, <1>6, <2>4
    <3> QED BY <3>1 DEF StackInv
  <2> QED BY <2>1, <2>2, <2>3, <2>4
<1>7. Stack!IsInjective(both)
      BY <1>3, <1>6 DEF Stack!IsInjective
<1>8. \A v \in Int : v \in LowValue .. LastPushed <=> \E k \in 1 .. Len(both) : both[k] = v
  <2> SUFFICES ASSUME NEW v \in Int
               PROVE  v \in LowValue .. LastPushed <=> \E k \in 1 .. Len(both) : both[k] = v
      OBVIOUS
  <2>1. v \in LowValue .. LastPushed <=> On(v) \/ Off(v)
        BY DEF StackInv
  <2>2. (\E k \in 1 .. Len(both) : both[k] = v) => On(v) \/ Off(v)
        BY <1>2, <1>4
  <2>3. ASSUME On(v) PROVE \E k \in 1 .. Len(both) : both[k] = v
    <3>1. PICK k \in 1 .. Len(data) : data[k] = v
          BY <2>3 DEF On
    <3>2. k \in 1 .. Len(both) /\ both[k] = v
          BY <1>0, <1>1, <3>1
    <3> QED BY <3>2
  <2>4. ASSUME Off(v) PROVE \E k \in 1 .. Len(both) : both[k] = v
    <3>1. PICK k \in 1 .. Len(popped) : popped[k] = v
          BY <2>4 DEF Off
    <3>2. /\ Len(data) + k \in 1 .. Len(both)
          /\ Len(data) + k \in Len(data) + 1 .. Len(data) + Len(popped)
          /\ (Len(data) + k) - Len(data) = k
          BY <1>0, <1>1
    <3>3. both[Len(data) + k] = v
          BY <1>1, <3>1, <3>2
    <3> QED BY <3>2, <3>3
  <2> QED BY <2>1, <2>2, <2>3, <2>4
<1>9. Stack!ToSet(both) = Stack!Pushed
  <2>1. Stack!Pushed = LowValue .. LastPushed
        BY DEF Stack!Pushed, LastPushed
  <2>2. Stack!ToSet(both) = {both[k] : k \in 1 .. Len(both)}
        BY <1>3 DEF Stack!ToSet
  <2>3. \A k \in 1 .. Len(both) : both[k] \in Int
        BY <1>1
  <2> QED BY <1>8, <2>1, <2>2, <2>3
<1>10. \A k \in 1 .. Len(data) - 1 : data[k] < data[k + 1]
  <2> SUFFICES ASSUME NEW k \in 1 .. Len(data) - 1 PROVE data[k] < data[k + 1]
      OBVIOUS
  <2>1. k \in 1 .. Len(data) /\ k + 1 \in 1 .. Len(data) /\ k < k + 1
        BY <1>0
  <2> QED BY <2>1 DEF StackInv
<1> QED BY <1>7, <1>9, <1>10 DEF Stack!NothingLostOrDoubled, StackInv, both

-----------------------------------------------------------------------------
(* code_3_11.cpp and code_3_12.cpp.                                        *)

ByMutex == z_program \in {"foo", "dcl"}
ByFlag  == z_program \in {"fOO", "X"}

\* Where each way of protecting the resource lets a thread be, and what its mutex
\* or its flag says.
Protected ==
    /\ ByMutex => \A t \in Worker :
          /\ z_at[t] \notin {"call_once", "threw"}
          /\ z_at[t] \in {"locked", "make", "unlock"} <=> resource_mutex = t
    /\ z_program = "foo" => \A t \in Worker : z_at[t] # "look"
    /\ ByFlag => \A t \in Worker : z_at[t] \in {"call_once", "make", "use", "done", "threw"}
    /\ ByFlag => /\ resource_flag = "unset" <=> made = 0
                 /\ resource_flag = "done" <=> written = Lazy!Writes

\* One thread at a time makes the resource, once.
OneMaker ==
    /\ made \in {0, 1}
    /\ written # {} => made = 1
    /\ \A t, u \in Worker : z_at[t] = "make" /\ z_at[u] = "make" => t = u
    /\ \A t \in Worker : z_at[t] = "make" => made = 1 /\ written # Lazy!Writes
    /\ made = 1 /\ written # Lazy!Writes => \E t \in Worker : z_at[t] = "make"

\* Who is past it finds it made, and whole unless the locking is double-checked.
Past ==
    \A t \in Worker :
       /\ z_at[t] \in {"unlock", "use", "done"} => made = 1
       /\ z_at[t] = "unlock" => written = Lazy!Writes
       /\ z_at[t] \in {"use", "done"} => z_program = "dcl" \/ written = Lazy!Writes

LazyInv == /\ Lazy!TypeOK /\ Protected /\ OneMaker /\ Past
           /\ broken => z_program = "dcl"

LEMMA LazyStart == Lazy!Init => LazyInv
<1> SUFFICES ASSUME Lazy!Init PROVE LazyInv
    OBVIOUS
<1>1. /\ z_program \in {"foo", "dcl", "fOO", "X"} /\ written = {} /\ made = 0 /\ broken = FALSE
      /\ resource_mutex = None /\ resource_flag = "unset"
      /\ z_at = [t \in Worker |-> Lazy!Start(z_program)]
      BY DEF Lazy!Init, Lazy!Programs
<1>2. /\ z_program = "foo" => Lazy!Start(z_program) = "lock"
      /\ z_program = "dcl" => Lazy!Start(z_program) = "look"
      /\ ByFlag => Lazy!Start(z_program) = "call_once"
      BY DEF Lazy!Start, ByFlag
<1>3. Lazy!TypeOK
      BY <1>1, <1>2 DEF Lazy!TypeOK, Lazy!Programs, Lazy!Writes, ByFlag
<1>4. Protected
      BY <1>1, <1>2, Numbers DEF Protected, ByMutex, ByFlag, Lazy!Writes
<1>5. OneMaker /\ Past
      BY <1>1, <1>2 DEF OneMaker, Past, Lazy!Writes, ByFlag
<1> QED BY <1>1, <1>3, <1>4, <1>5 DEF LazyInv

LEMMA LazyStep == LazyInv /\ [Lazy!Next]_(Lazy!vars) => LazyInv'
<1> SUFFICES ASSUME LazyInv, [Lazy!Next]_(Lazy!vars) PROVE LazyInv'
    OBVIOUS
<1> USE Numbers
<1>0. /\ z_program \in {"foo", "dcl", "fOO", "X"}
      /\ z_at \in [Worker -> {"look", "lock", "locked", "call_once", "make", "unlock", "use",
                              "done", "threw"}]
      /\ resource_mutex \in Worker \cup {None} /\ resource_flag \in {"unset", "running", "done"}
      /\ written \subseteq Lazy!Writes /\ made \in {0, 1} /\ broken \in BOOLEAN
      BY DEF LazyInv, Lazy!TypeOK, Lazy!Programs, OneMaker
<1>1. ASSUME NEW t \in Worker, Lazy!Look(t) PROVE LazyInv'
  <2> USE DEF Lazy!Look, Lazy!Goes, Lazy!resource_ptr
  <2>1. /\ z_at[t] = "look" /\ z_at' = [z_at EXCEPT ![t] = z_at'[t]]
        /\ z_at'[t] \in {"use", "lock"} /\ (z_at'[t] = "use" => written # {})
        /\ UNCHANGED <<z_program, resource_mutex, resource_flag, written, made, broken>>
        BY <1>0, <1>1
  <2>2. z_program = "dcl"
        BY <1>0, <2>1 DEF LazyInv, Protected, ByFlag
  <2> HIDE DEF Lazy!Look, Lazy!Goes, Lazy!resource_ptr
  <2>3. Lazy!TypeOK'
        BY <1>0, <2>1 DEF LazyInv, Lazy!TypeOK
  <2>4. Protected'
        BY <1>0, <2>1, <2>2 DEF LazyInv, Protected, ByMutex, ByFlag
  <2>5. OneMaker'
        BY <1>0, <2>1 DEF LazyInv, OneMaker
  <2>6. Past'
        BY <1>0, <2>1, <2>2 DEF LazyInv, Past, OneMaker
  <2> QED BY <2>1, <2>3, <2>4, <2>5, <2>6 DEF LazyInv
<1>2. ASSUME NEW t \in Worker, Lazy!Lock(t) PROVE LazyInv'
  <2>1. /\ z_at[t] = "lock" /\ z_at' = [z_at EXCEPT ![t] = "locked"]
        /\ resource_mutex = None /\ resource_mutex' = t
        /\ UNCHANGED <<z_program, resource_flag, written, made, broken>>
        BY <1>2 DEF Lazy!Lock, Lazy!Goes
  <2>2. ByMutex /\ ~ ByFlag
        BY <1>0, <2>1 DEF LazyInv, Protected, ByFlag, ByMutex
  <2>3. Lazy!TypeOK'
        BY <1>0, <2>1 DEF LazyInv, Lazy!TypeOK
  <2>4. Protected'
        BY <1>0, <2>1, <2>2 DEF LazyInv, Protected, ByMutex, ByFlag
  <2>5. OneMaker'
        BY <1>0, <2>1 DEF LazyInv, OneMaker
  <2>6. Past'
        BY <1>0, <2>1 DEF LazyInv, Past
  <2> QED BY <2>1, <2>3, <2>4, <2>5, <2>6 DEF LazyInv
<1>3. ASSUME NEW t \in Worker, Lazy!Check(t) PROVE LazyInv'
  <2>1. /\ z_at[t] = "locked"
        /\ UNCHANGED <<z_program, resource_mutex, resource_flag, written, broken>>
        BY <1>3 DEF Lazy!Check, Lazy!Goes
  <2>2. ByMutex /\ ~ ByFlag /\ resource_mutex = t
        BY <1>0, <2>1 DEF LazyInv, Protected, ByFlag, ByMutex
  <2>3. \A u \in Worker : z_at[u] \notin {"make", "unlock"}
        BY <2>1, <2>2 DEF LazyInv, Protected
  <2>4. \/ made = 0 /\ written = {}
        \/ made = 1 /\ written = Lazy!Writes
        BY <1>0, <2>3 DEF LazyInv, OneMaker
  <2>5. \/ /\ made = 0 /\ written = {} /\ made' = 1
           /\ z_at' = [z_at EXCEPT ![t] = "make"]
        \/ /\ made = 1 /\ written = Lazy!Writes /\ made' = 1
           /\ z_at' = [z_at EXCEPT ![t] = "unlock"]
    <3>1. "pointer" \in Lazy!Writes
          BY DEF Lazy!Writes
    <3>2. CASE written = {}
          BY <1>3, <2>4, <3>1, <3>2 DEF Lazy!Check, Lazy!Goes, Lazy!NeedsOne, Lazy!resource_ptr
    <3>3. CASE written = Lazy!Writes
          BY <1>3, <2>4, <3>1, <3>3 DEF Lazy!Check, Lazy!Goes, Lazy!NeedsOne, Lazy!resource_ptr
    <3> QED BY <2>4, <3>2, <3>3
  <2>6. Lazy!TypeOK'
        BY <1>0, <2>1, <2>5 DEF LazyInv, Lazy!TypeOK
  <2>7. Protected'
        BY <1>0, <2>1, <2>2, <2>5 DEF LazyInv, Protected, ByMutex, ByFlag
  <2>8. OneMaker'
        BY <1>0, <2>1, <2>3, <2>5 DEF OneMaker, Lazy!Writes
  <2>9. Past'
        BY <1>0, <2>1, <2>5 DEF LazyInv, Past
  <2> QED BY <2>1, <2>6, <2>7, <2>8, <2>9 DEF LazyInv
<1>4. ASSUME NEW t \in Worker, Lazy!Unlock(t) PROVE LazyInv'
  <2>1. /\ z_at[t] = "unlock" /\ z_at' = [z_at EXCEPT ![t] = "use"] /\ resource_mutex' = None
        /\ UNCHANGED <<z_program, resource_flag, written, made, broken>>
        BY <1>4 DEF Lazy!Unlock, Lazy!Goes
  <2>2. ByMutex /\ ~ ByFlag /\ resource_mutex = t
        BY <1>0, <2>1 DEF LazyInv, Protected, ByFlag, ByMutex
  <2>3. Lazy!TypeOK'
        BY <1>0, <2>1 DEF LazyInv, Lazy!TypeOK
  <2>4. Protected'
        BY <1>0, <2>1, <2>2 DEF LazyInv, Protected, ByMutex, ByFlag
  <2>5. OneMaker'
        BY <1>0, <2>1 DEF LazyInv, OneMaker
  <2>6. Past'
        BY <1>0, <2>1 DEF LazyInv, Past
  <2> QED BY <2>1, <2>3, <2>4, <2>5, <2>6 DEF LazyInv
<1>5. ASSUME NEW t \in Worker, Lazy!CallOnce(t) PROVE LazyInv'
  <2>1. /\ z_at[t] = "call_once" /\ resource_flag # "running"
        /\ UNCHANGED <<z_program, resource_mutex, written, broken>>
        BY <1>5 DEF Lazy!CallOnce, Lazy!Goes
  <2>2. ByFlag /\ ~ ByMutex
        BY <1>0, <2>1 DEF LazyInv, Protected, ByFlag, ByMutex
  <2>3. \/ made = 0 /\ written = {} /\ resource_flag = "unset"
        \/ made = 1 /\ written = Lazy!Writes /\ resource_flag = "done"
        BY <1>0, <2>1, <2>2 DEF LazyInv, Protected, OneMaker
  <2>4. \/ /\ made = 0 /\ written = {} /\ made' = 1
           /\ z_at' = [z_at EXCEPT ![t] = "make"] /\ resource_flag' = "running"
        \/ /\ made = 1 /\ written = Lazy!Writes /\ made' = 1
           /\ z_at' = [z_at EXCEPT ![t] = "use"] /\ resource_flag' = "done"
    <3>1. CASE resource_flag = "unset"
          BY <1>5, <2>3, <3>1 DEF Lazy!CallOnce, Lazy!Goes
    <3>2. CASE resource_flag = "done"
          BY <1>5, <2>3, <3>2 DEF Lazy!CallOnce, Lazy!Goes
    <3> QED BY <2>3, <3>1, <3>2
  <2>5. \A u \in Worker : z_at[u] # "make"
        BY <2>3 DEF LazyInv, OneMaker
  <2>6. Lazy!TypeOK'
        BY <1>0, <2>1, <2>4 DEF LazyInv, Lazy!TypeOK
  <2>7. Protected'
        BY <1>0, <2>1, <2>2, <2>4 DEF LazyInv, Protected, ByMutex, ByFlag, Lazy!Writes
  <2>8. OneMaker'
        BY <1>0, <2>1, <2>4, <2>5 DEF OneMaker, Lazy!Writes
  <2>9. Past'
        BY <1>0, <2>1, <2>4 DEF LazyInv, Past
  <2> QED BY <2>1, <2>6, <2>7, <2>8, <2>9 DEF LazyInv
<1>6. ASSUME NEW t \in Worker, Lazy!Make(t) PROVE LazyInv'
  <2>1. /\ z_at[t] = "make" /\ written' \subseteq Lazy!Writes /\ written' # {}
        /\ UNCHANGED <<z_program, resource_mutex, made, broken>>
    <3>1. PICK w \in Lazy!Writes : written' = written \cup {w}
          BY <1>6 DEF Lazy!Make
    <3>2. z_at[t] = "make" /\ UNCHANGED <<z_program, resource_mutex, made, broken>>
          BY <1>6 DEF Lazy!Make
    <3> QED BY <1>0, <3>1, <3>2
  <2>2. /\ made = 1 /\ written # Lazy!Writes
        /\ \A u \in Worker : z_at[u] = "make" => u = t
        /\ \A u \in Worker : z_at[u] # "unlock"
        /\ \A u \in Worker : z_at[u] \in {"use", "done"} => z_program = "dcl"
        BY <2>1 DEF LazyInv, OneMaker, Past
  <2>3. CASE written' # Lazy!Writes
    <3>1. UNCHANGED <<z_at, resource_flag>>
          BY <1>6, <2>3 DEF Lazy!Make
    <3>2. Lazy!TypeOK' /\ Protected'
          BY <2>1, <2>2, <2>3, <3>1 DEF LazyInv, Lazy!TypeOK, Protected, ByMutex, ByFlag
    <3>3. OneMaker'
          BY <2>1, <2>2, <2>3, <3>1 DEF OneMaker
    <3>4. Past'
          BY <2>1, <2>2, <3>1 DEF Past
    <3> QED BY <2>1, <3>2, <3>3, <3>4 DEF LazyInv
  <2>4. CASE written' = Lazy!Writes
    <3>1. \/ /\ ByFlag /\ z_at' = [z_at EXCEPT ![t] = "use"] /\ resource_flag' = "done"
          \/ /\ ~ ByFlag /\ z_at' = [z_at EXCEPT ![t] = "unlock"] /\ UNCHANGED resource_flag
          BY <1>6, <2>4 DEF Lazy!Make, Lazy!Goes, ByFlag
    <3>2. Lazy!TypeOK'
          BY <1>0, <2>1, <3>1 DEF LazyInv, Lazy!TypeOK
    <3>3. Protected'
          BY <1>0, <2>1, <2>2, <2>4, <3>1 DEF LazyInv, Protected, ByMutex, ByFlag
    <3>4. OneMaker'
          BY <1>0, <2>1, <2>2, <2>4, <3>1 DEF OneMaker
    <3>5. Past'
          BY <1>0, <2>1, <2>2, <2>4, <3>1 DEF Past
    <3> QED BY <2>1, <3>2, <3>3, <3>4, <3>5 DEF LazyInv
  <2> QED BY <2>3, <2>4
<1>7. ASSUME NEW t \in Worker, Lazy!OpenThrows(t) PROVE LazyInv'
  <2>1. /\ z_program = "X" /\ written = {} /\ z_at[t] = "make"
        /\ z_at' = [z_at EXCEPT ![t] = "threw"] /\ resource_flag' = "unset" /\ made' = made - 1
        /\ UNCHANGED <<z_program, resource_mutex, written, broken>>
        BY <1>7 DEF Lazy!OpenThrows, Lazy!Goes
  <2>2. /\ made' = 0
        /\ \A u \in Worker : z_at[u] = "make" => u = t
        /\ \A u \in Worker : z_at[u] \notin {"unlock", "use", "done"}
        BY <2>1 DEF LazyInv, OneMaker, Past, Lazy!Writes
  <2>3. Lazy!TypeOK'
        BY <1>0, <2>1, <2>2 DEF LazyInv, Lazy!TypeOK
  <2>4. Protected'
        BY <1>0, <2>1, <2>2 DEF LazyInv, Protected, ByMutex, ByFlag, Lazy!Writes
  <2>5. OneMaker'
        BY <1>0, <2>1, <2>2 DEF OneMaker
  <2>6. Past'
        BY <1>0, <2>1, <2>2 DEF Past
  <2> QED BY <2>1, <2>3, <2>4, <2>5, <2>6 DEF LazyInv
<1>8. ASSUME NEW t \in Worker, Lazy!do_something(t) PROVE LazyInv'
  <2>1. /\ z_at[t] = "use" /\ z_at' = [z_at EXCEPT ![t] = "done"]
        /\ broken' = (broken \/ written # Lazy!Writes)
        /\ UNCHANGED <<z_program, resource_mutex, resource_flag, written, made>>
        BY <1>8 DEF Lazy!do_something, Lazy!Goes
  <2>2. made = 1 /\ (z_program = "dcl" \/ written = Lazy!Writes)
        BY <2>1 DEF LazyInv, Past
  <2>3. Lazy!TypeOK'
        BY <1>0, <2>1 DEF LazyInv, Lazy!TypeOK
  <2>4. Protected'
        BY <1>0, <2>1, <2>2 DEF LazyInv, Protected, ByMutex, ByFlag
  <2>5. OneMaker'
        BY <1>0, <2>1 DEF LazyInv, OneMaker
  <2>6. Past'
        BY <1>0, <2>1, <2>2 DEF LazyInv, Past
  <2>7. broken' => z_program' = "dcl"
        BY <2>1, <2>2 DEF LazyInv
  <2> QED BY <2>3, <2>4, <2>5, <2>6, <2>7 DEF LazyInv
<1>9. CASE UNCHANGED Lazy!vars
      BY <1>9 DEF Lazy!vars, LazyInv, Lazy!TypeOK, Protected, OneMaker, Past, ByMutex, ByFlag
<1> QED BY <1>1, <1>2, <1>3, <1>4, <1>5, <1>6, <1>7, <1>8, <1>9 DEF Lazy!Next, Lazy!Run

LEMMA LazyWhole == LazyInv => Lazy!MadeOnceUsedWhole
BY DEF LazyInv, OneMaker, Past, Lazy!MadeOnceUsedWhole

-----------------------------------------------------------------------------
(* parallel_accumulate.cpp: twice the sum of 1 .. x is Tri(x).             *)

Tri(x) == x * (x + 1)

LEMMA TriIs == \A x \in Int : Tri(x) \in Int /\ Tri(x) = Tri(x - 1) + 2 * x
BY DEF Tri

LEMMA Division ==
    ASSUME NEW a \in Nat, NEW d \in Nat \ {0}
    PROVE  a \div d \in Nat /\ d * (a \div d) <= a /\ a < d * (a \div d) + d
OBVIOUS

LEMMA Times ==
    ASSUME NEW p \in Nat, NEW q \in Nat, NEW d \in Nat, p <= q
    PROVE  /\ p * d \in Nat /\ q * d \in Nat /\ p * d <= q * d
           /\ (p + 1) * d = p * d + d /\ p * d = d * p
OBVIOUS

LEMMA Halved == ASSUME NEW a \in Nat, NEW s \in Nat, 2 * s = a PROVE s = a \div 2
OBVIOUS

\* Parallel takes its Cardinality from its own copy of FiniteSets.
LEMMA CardinalityOfFirst ==
    ASSUME NEW k \in Nat PROVE Parallel!Cardinality(0 .. k - 1) = k
<1>1. Parallel!Cardinality(0 .. k - 1) = Cardinality(0 .. k - 1)
      BY DEF Cardinality, Parallel!Cardinality
<1>2. Cardinality(0 .. k - 1) = IF 0 > k - 1 THEN 0 ELSE (k - 1) - 0 + 1
      BY FS_Interval
<1> QED BY <1>1, <1>2

Blocks == Parallel!num_threads
Size   == Parallel!block_size
From(b) == b * Size
To(b)   == IF b = Blocks - 1 THEN length ELSE (b + 1) * Size

LEMMA BlockBounds ==
    ASSUME Parallel!TypeOK, length # 0
    PROVE  /\ Blocks \in Nat \ {0} /\ Blocks <= Parallel!MaxThreads
           /\ Parallel!MaxThreads \in Nat
           /\ Size \in Nat /\ Blocks * Size <= length
<1> USE Numbers
<1> DEFINE q == (length + min_per_thread - 1) \div min_per_thread
           r == MaxLength \div min_per_thread
           x == IF hardware # 0 THEN hardware ELSE 2
<1>1. /\ length \in Nat \ {0} /\ length <= MaxLength /\ hardware \in Nat
      BY DEF Parallel!TypeOK
<1>2. length + min_per_thread - 1 \in Nat
      BY <1>1
<1>3. /\ q \in Nat /\ min_per_thread * q <= length + min_per_thread - 1
      /\ length + min_per_thread - 1 < min_per_thread * q + min_per_thread
      BY <1>2, Division
<1>4. r \in Nat /\ MaxLength < min_per_thread * r + min_per_thread
      BY Division
<1> HIDE DEF q, r
<1>5. q # 0
      BY <1>1, <1>3
<1>6. q <= 1 + r
  <2> SUFFICES ASSUME r + 2 <= q PROVE FALSE
      BY <1>3, <1>4
  <2>1. /\ (r + 2) * min_per_thread <= q * min_per_thread
        /\ q * min_per_thread = min_per_thread * q
        BY <1>3, <1>4, Times
  <2>2. (r + 2) * min_per_thread = min_per_thread * r + min_per_thread + min_per_thread
        BY <1>4
  <2> QED BY <1>1, <1>3, <1>4, <2>1, <2>2
<1>7. /\ x \in Nat \ {0} /\ Blocks = Parallel!Min({x, q})
      BY <1>1 DEF Blocks, Parallel!num_threads, Parallel!max_threads, q
<1> HIDE DEF x
<1>8. Blocks \in {x, q} /\ Blocks <= q
  <2>1. \E z \in {x, q} : \A y \in {x, q} : z <= y
        BY <1>3, <1>7
  <2> QED BY <1>3, <1>7, <2>1 DEF Parallel!Min
<1>9. Blocks \in Nat \ {0}
      BY <1>3, <1>5, <1>7, <1>8
<1>10. Parallel!MaxThreads = 1 + r
      BY DEF Parallel!MaxThreads, r
<1>11. Size \in Nat /\ Blocks * Size <= length
      BY <1>1, <1>9, Division DEF Size, Parallel!block_size, Blocks
<1> QED BY <1>3, <1>4, <1>6, <1>8, <1>9, <1>10, <1>11

LEMMA BlockIs ==
    ASSUME Parallel!TypeOK, length # 0, NEW b \in 0 .. Blocks - 1
    PROVE  /\ From(b) \in Nat /\ To(b) \in Nat
           /\ From(b) <= To(b) /\ To(b) <= length
           /\ b # Blocks - 1 => To(b) = From(b + 1)
           /\ Parallel!Elements(b) = From(b) + 1 .. To(b)
<1>1. /\ Blocks \in Nat \ {0} /\ Size \in Nat /\ Blocks * Size <= length /\ length \in Nat
      BY BlockBounds DEF Parallel!TypeOK
<1>2. b \in Nat /\ b + 1 \in Nat /\ b + 1 <= Blocks
      BY <1>1
<1>3. /\ (b + 1) * Size <= Blocks * Size /\ (b + 1) * Size \in Nat
      /\ b * Size \in Nat /\ (b + 1) * Size = b * Size + Size
      BY <1>1, <1>2, Times
<1>4. Blocks * Size \in Int
      BY <1>1
<1>5. Parallel!Elements(b) = From(b) + 1 .. To(b)
      BY DEF Parallel!Elements, From, To, Blocks, Size
<1>6. From(b) = b * Size /\ To(b) = IF b = Blocks - 1 THEN length ELSE (b + 1) * Size
      BY DEF From, To
<1>7. b # Blocks - 1 => To(b) = From(b + 1)
      BY DEF From, To
<1> HIDE DEF From, To, Size, Blocks
<1>8. From(b) <= To(b) /\ To(b) <= length
      BY <1>1, <1>3, <1>4, <1>6
<1> QED BY <1>1, <1>3, <1>5, <1>6, <1>7, <1>8

\* Of a block that has been given out, the elements from the k-th are still to be
\* added, and those before have been.
Summed(b) ==
    \E k \in From(b) + 1 .. To(b) + 1 :
       /\ left[b] = k .. To(b)
       /\ 2 * results[b] = Tri(k - 1) - Tri(From(b))

Given(b) == /\ length # 0
            /\ p_at = "start" => b \in p_threads
            /\ p_at # "start" => b < Blocks

SumTo(j) == IF j = 0 THEN 0 ELSE IF j = Blocks THEN Tri(length) ELSE Tri(j * Size)

\* Every block is summed by itself, by a thread that is joined when it is done, and
\* then the results are added up in the blocks' order.
ParallelInv ==
    /\ Parallel!TypeOK
    /\ \A b \in Parallel!Block : /\ Given(b) => Summed(b)
                                 /\ ~ Given(b) => left[b] = {} /\ results[b] = 0
    /\ p_at = "start" => \E k \in Nat : /\ p_threads = 0 .. k - 1
                                        /\ length # 0 => k < Blocks
    /\ p_at # "start" => \A b \in Parallel!Block :
          left[b] # {} => b \in p_threads \/ (p_at = "block" /\ b = Blocks - 1)
    /\ p_at \in {"block", "join"} => length # 0
    /\ p_at \notin {"join", "done"} => added = 0
    /\ added # 0 => p_threads = {}
    /\ p_at = "join" => added < Blocks
    /\ p_at = "done" => added = IF length = 0 THEN 0 ELSE Blocks
    /\ 2 * sum = SumTo(added)

LEMMA ParallelInit == Parallel!Init => ParallelInv
<1> SUFFICES ASSUME Parallel!Init PROVE ParallelInv
    OBVIOUS
<1> USE Numbers
<1>1. /\ length \in 0 .. MaxLength /\ hardware \in 0 .. MaxHardware
      /\ p_at = "start" /\ p_threads = {} /\ added = 0 /\ sum = 0
      /\ left = [b \in Parallel!Block |-> {}] /\ results = [b \in Parallel!Block |-> 0]
      BY DEF Parallel!Init
<1>2. Parallel!MaxThreads \in Nat
      BY Division DEF Parallel!MaxThreads
<1>3. Parallel!TypeOK
      BY <1>1, <1>2 DEF Parallel!TypeOK
<1>4. p_threads = 0 .. 0 - 1 /\ (length # 0 => 0 < Blocks)
      BY <1>1, <1>3, BlockBounds
<1>5. 2 * sum = SumTo(added)
      BY <1>1 DEF SumTo
<1> QED BY <1>1, <1>3, <1>4, <1>5 DEF ParallelInv, Given

Gives(b) == left' = [left EXCEPT ![b] = Parallel!Elements(b)] /\ UNCHANGED results

LEMMA ParallelStep == ParallelInv /\ [Parallel!Next]_(Parallel!vars) => ParallelInv'
<1> SUFFICES ASSUME ParallelInv, [Parallel!Next]_(Parallel!vars) PROVE ParallelInv'
    OBVIOUS
<1>0. /\ length \in Nat /\ p_at \in {"start", "block", "join", "done"}
      /\ p_threads \subseteq Parallel!Block /\ results \in [Parallel!Block -> Nat]
      /\ left \in [Parallel!Block -> SUBSET (1 .. MaxLength)]
      /\ added \in Nat /\ sum \in Nat /\ length <= MaxLength /\ Parallel!TypeOK
      BY Numbers DEF ParallelInv, Parallel!TypeOK
<1>a. UNCHANGED <<length, hardware>>
      BY DEF Parallel!Next, Parallel!vars, Parallel!caller, Parallel!StartThread,
         Parallel!LastBlock, Parallel!NothingToAdd, Parallel!BlockDone, Parallel!JoinThread,
         Parallel!AddResult, Parallel!accumulate_block
<1>b. /\ Blocks' = Blocks /\ Size' = Size
      /\ \A b : From(b)' = From(b) /\ To(b)' = To(b)
      BY <1>a DEF Blocks, Size, From, To, Parallel!block_size, Parallel!num_threads,
         Parallel!max_threads
<1>c. \A j : SumTo(j)' = SumTo(j)
      BY <1>a, <1>b DEF SumTo
<1>d. length # 0 => /\ Blocks \in Nat \ {0} /\ Blocks <= Parallel!MaxThreads
                    /\ Parallel!MaxThreads \in Nat
      BY <1>0, BlockBounds
<1>e. ASSUME NEW b, left'[b] = left[b], results'[b] = results[b]
      PROVE  Summed(b)' <=> Summed(b)
      BY <1>b, <1>e DEF Summed
\* Giving block b out.
<1>f. ASSUME NEW b \in 0 .. Blocks - 1, length # 0, p_at = "start", b \notin p_threads,
             Gives(b)
      PROVE  /\ b \in Parallel!Block /\ Summed(b)'
             /\ left' \in [Parallel!Block -> SUBSET (1 .. MaxLength)]
             /\ \A c \in Parallel!Block :
                   c # b => left'[c] = left[c] /\ (Summed(c)' <=> Summed(c))
  <2>1. b \in Parallel!Block
        BY <1>d, <1>f DEF Parallel!Block
  <2>2. /\ From(b) \in Nat /\ To(b) \in Nat /\ From(b) <= To(b) /\ To(b) <= length
        /\ Parallel!Elements(b) = From(b) + 1 .. To(b)
        BY <1>0, <1>f, BlockIs
  <2>3. left'[b] = From(b) + 1 .. To(b) /\ results'[b] = 0
        BY <1>0, <1>f, <2>1, <2>2 DEF ParallelInv, Given, Gives
  <2>4. From(b) + 1 .. To(b) \subseteq 1 .. MaxLength
        BY <1>0, <2>2, Numbers
  <2>5. Summed(b)'
    <3>1. /\ From(b) + 1 \in From(b) + 1 .. To(b) + 1
          /\ 2 * 0 = Tri((From(b) + 1) - 1) - Tri(From(b))
      <4>1. (From(b) + 1) - 1 = From(b)
            BY <2>2
      <4>2. Tri(From(b)) \in Int
            BY <2>2, TriIs
      <4> QED BY <2>2, <4>1, <4>2
    <3> QED BY <1>b, <2>3, <3>1 DEF Summed
  <2>6. /\ left' \in [Parallel!Block -> SUBSET (1 .. MaxLength)]
        /\ \A c \in Parallel!Block : c # b => left'[c] = left[c] /\ results'[c] = results[c]
        BY <1>0, <1>f, <2>2, <2>4 DEF Gives
  <2> QED BY <1>e, <2>1, <2>5, <2>6
<1>1. CASE Parallel!StartThread
  <2>1. /\ p_at = "start" /\ length # 0 /\ Parallel!Cardinality(p_threads) < Blocks - 1
        /\ p_threads' = p_threads \cup {Parallel!Cardinality(p_threads)}
        /\ Gives(Parallel!Cardinality(p_threads)) /\ UNCHANGED <<p_at, results, added, sum>>
        BY <1>0, <1>1 DEF Parallel!StartThread, Blocks, Gives
  <2>2. PICK b \in Nat : p_threads = 0 .. b - 1 /\ b < Blocks
        BY <2>1 DEF ParallelInv
  <2>3. /\ b < Blocks - 1 /\ p_threads' = p_threads \cup {b} /\ Gives(b)
    <3>1. Parallel!Cardinality(p_threads) = b
          BY <2>2, CardinalityOfFirst
    <3> QED BY <2>1, <3>1, Zenon
  <2>4. /\ b \in 0 .. Blocks - 1 /\ b \notin p_threads
        /\ p_threads' = 0 .. (b + 1) - 1 /\ b + 1 \in Nat /\ b + 1 < Blocks
    <3>1. 0 .. (b + 1) - 1 = (0 .. b - 1) \cup {b} /\ b \notin 0 .. b - 1
          BY <2>2
    <3>2. b \in 0 .. Blocks - 1 /\ b + 1 \in Nat /\ b + 1 < Blocks
          BY <1>d, <2>1, <2>2, <2>3
    <3> QED BY <2>2, <2>3, <3>1, <3>2
  <2>5. /\ b \in Parallel!Block /\ Summed(b)'
        /\ left' \in [Parallel!Block -> SUBSET (1 .. MaxLength)]
        /\ \A c \in Parallel!Block :
              c # b => left'[c] = left[c] /\ (Summed(c)' <=> Summed(c))
        BY <1>f, <2>1, <2>3, <2>4
  <2>6. Parallel!TypeOK'
        BY <1>0, <1>a, <2>1, <2>3, <2>5 DEF Parallel!TypeOK
  <2>7. \A c \in Parallel!Block : Given(c)' <=> Given(c) \/ c = b
        BY <1>a, <2>1, <2>3 DEF Given
  <2>8. \A c \in Parallel!Block : /\ Given(c)' => Summed(c)'
                                  /\ ~ Given(c)' => left'[c] = {} /\ results'[c] = 0
        BY <2>1, <2>5, <2>7 DEF ParallelInv
  <2>9. 2 * sum' = SumTo(added)'
        BY <1>c, <2>1 DEF ParallelInv, SumTo
  <2>10. added' = 0 /\ p_at' = "start"
        BY <2>1 DEF ParallelInv
  <2> QED BY <1>a, <1>b, <2>4, <2>6, <2>8, <2>9, <2>10 DEF ParallelInv
<1>2. CASE Parallel!LastBlock
  <2>1. /\ p_at = "start" /\ length # 0 /\ Parallel!Cardinality(p_threads) = Blocks - 1
        /\ p_at' = "block"
        /\ Gives(Blocks - 1) /\ UNCHANGED <<p_threads, results, added, sum>>
        BY <1>0, <1>2 DEF Parallel!LastBlock, Blocks, Gives
  <2>2. PICK b \in Nat : p_threads = 0 .. b - 1 /\ b < Blocks
        BY <2>1 DEF ParallelInv
  <2>3. b = Blocks - 1 /\ Gives(b)
        BY <2>1, <2>2, CardinalityOfFirst
  <2>4. b \in 0 .. Blocks - 1 /\ b \notin p_threads
        BY <1>d, <2>1, <2>2, <2>3
  <2>5. /\ b \in Parallel!Block /\ Summed(b)'
        /\ left' \in [Parallel!Block -> SUBSET (1 .. MaxLength)]
        /\ \A c \in Parallel!Block :
              c # b => left'[c] = left[c] /\ (Summed(c)' <=> Summed(c))
        BY <1>f, <2>1, <2>3, <2>4
  <2>6. Parallel!TypeOK'
        BY <1>0, <1>a, <2>1, <2>5 DEF Parallel!TypeOK
  <2>7. \A c \in Parallel!Block : Given(c)' <=> Given(c) \/ c = b
    <3>1. \A c \in Parallel!Block : c \in Nat
          BY <1>d, <2>1 DEF Parallel!Block
    <3>2. \A c \in Parallel!Block : c < Blocks <=> c \in p_threads \/ c = b
          BY <1>d, <2>1, <2>2, <2>3, <2>4, <3>1
    <3> QED BY <1>a, <1>b, <2>1, <3>2 DEF Given
  <2>8. \A c \in Parallel!Block : /\ Given(c)' => Summed(c)'
                                  /\ ~ Given(c)' => left'[c] = {} /\ results'[c] = 0
        BY <2>1, <2>5, <2>7 DEF ParallelInv
  <2>9. \A c \in Parallel!Block : left'[c] # {} => c \in p_threads' \/ c = b
        BY <2>1, <2>7, <2>8 DEF Given
  <2>10. 2 * sum' = SumTo(added)'
        BY <1>c, <2>1 DEF ParallelInv, SumTo
  <2>11. added' = 0 /\ p_at' = "block"
        BY <2>1 DEF ParallelInv
  <2> QED BY <1>a, <1>b, <2>1, <2>3, <2>6, <2>8, <2>9, <2>10, <2>11 DEF ParallelInv
<1>3. CASE Parallel!NothingToAdd
  <2>1. /\ p_at = "start" /\ length = 0 /\ p_at' = "done"
        /\ UNCHANGED <<p_threads, results, left, added, sum>>
        BY <1>3 DEF Parallel!NothingToAdd
  <2>2. \A b \in Parallel!Block : ~ Given(b) /\ ~ Given(b)'
        BY <1>a, <2>1 DEF Given
  <2>3. \A b \in Parallel!Block : left'[b] = {} /\ results'[b] = 0
        BY <2>1, <2>2 DEF ParallelInv
  <2>4. added = 0 /\ 2 * sum' = SumTo(added)'
        BY <1>c, <2>1 DEF ParallelInv, SumTo
  <2>5. Parallel!TypeOK'
        BY <1>0, <1>a, <2>1 DEF Parallel!TypeOK
  <2> QED BY <1>a, <2>1, <2>2, <2>3, <2>4, <2>5 DEF ParallelInv
<1>4. ASSUME NEW b \in Parallel!Block, Parallel!accumulate_block(b) PROVE ParallelInv'
  <2> DEFINE k == Parallel!Min(left[b])
  <2>1. /\ left[b] # {} /\ results' = [results EXCEPT ![b] = @ + k]
        /\ left' = [left EXCEPT ![b] = @ \ {Parallel!Min(@)}]
        /\ UNCHANGED <<p_at, p_threads, added, sum>>
        BY <1>4 DEF Parallel!accumulate_block
  <2>2. Given(b) /\ length # 0
        BY <2>1 DEF ParallelInv, Given
  <2>3. PICK j \in From(b) + 1 .. To(b) + 1 :
           left[b] = j .. To(b) /\ 2 * results[b] = Tri(j - 1) - Tri(From(b))
        BY <2>2 DEF ParallelInv, Summed
  <2>4. b \in 0 .. Blocks - 1
    <3>1. b \in Nat
          BY <1>d, <2>2 DEF Parallel!Block
    <3>2. CASE p_at = "start"
      <4>1. PICK m \in Nat : p_threads = 0 .. m - 1 /\ m < Blocks
            BY <2>2, <3>2 DEF ParallelInv
      <4>2. b \in p_threads
            BY <2>2, <3>2 DEF Given
      <4> QED BY <1>d, <2>2, <4>1, <4>2
    <3>3. CASE p_at # "start"
      <4>1. b < Blocks
            BY <2>2, <3>3 DEF Given
      <4> QED BY <1>d, <2>2, <3>1, <4>1
    <3> QED BY <3>2, <3>3
  <2>5. From(b) \in Nat /\ To(b) \in Nat
        BY <1>0, <2>2, <2>4, BlockIs
  <2>6. j \in Nat \ {0} /\ j <= To(b) /\ j \in left[b] /\ \A z \in left[b] : j <= z
        BY <2>1, <2>3, <2>5
  <2>7. k = j
        BY <2>3, <2>5, <2>6 DEF Parallel!Min
  <2> HIDE DEF k
  <2>8. /\ left'[b] = left[b] \ {k} /\ results'[b] = results[b] + k
        /\ \A c \in Parallel!Block : c # b => left'[c] = left[c] /\ results'[c] = results[c]
        BY <1>0, <2>1 DEF k
  <2>9. left'[b] = j + 1 .. To(b)
        BY <2>3, <2>5, <2>6, <2>7, <2>8
  <2>10. 2 * results'[b] = Tri((j + 1) - 1) - Tri(From(b))
    <3>1. /\ Tri(j) = Tri(j - 1) + 2 * j /\ (j + 1) - 1 = j
          /\ Tri(j - 1) \in Int /\ Tri(From(b)) \in Int
          BY <2>5, <2>6, TriIs
    <3>2. results[b] \in Nat
          BY <1>0
    <3> QED BY <2>3, <2>6, <2>7, <2>8, <3>1, <3>2
  <2>11. Summed(b)'
    <3>1. j + 1 \in From(b) + 1 .. To(b) + 1
          BY <2>3, <2>5, <2>6
    <3> QED BY <1>b, <2>9, <2>10, <3>1 DEF Summed
  <2>12. Parallel!TypeOK'
    <3>1. left' \in [Parallel!Block -> SUBSET (1 .. MaxLength)]
          BY <1>0, <2>1
    <3>2. results' \in [Parallel!Block -> Nat]
          BY <1>0, <2>1, <2>6, <2>7
    <3> QED BY <1>0, <1>a, <2>1, <3>1, <3>2 DEF Parallel!TypeOK
  <2>13. \A c \in Parallel!Block : Given(c)' <=> Given(c)
        BY <1>a, <1>b, <2>1 DEF Given
  <2>14. \A c \in Parallel!Block : /\ Given(c)' => Summed(c)'
                                   /\ ~ Given(c)' => left'[c] = {} /\ results'[c] = 0
    <3> SUFFICES ASSUME NEW c \in Parallel!Block
                 PROVE  /\ Given(c)' => Summed(c)'
                        /\ ~ Given(c)' => left'[c] = {} /\ results'[c] = 0
        OBVIOUS
    <3>1. CASE c = b
          BY <2>2, <2>11, <2>13, <3>1
    <3>2. CASE c # b
          BY <1>e, <2>8, <2>13, <3>2 DEF ParallelInv
    <3> QED BY <3>1, <3>2
  <2>15. \A c \in Parallel!Block : left'[c] # {} => left[c] # {}
        BY <2>1, <2>8
  <2>16. 2 * sum' = SumTo(added)'
        BY <1>c, <2>1 DEF ParallelInv, SumTo
  <2> QED BY <1>a, <1>b, <2>1, <2>12, <2>14, <2>15, <2>16 DEF ParallelInv
<1>5. CASE Parallel!BlockDone \/ Parallel!JoinThread
  <2>1. /\ p_at' = "join" /\ p_threads' \subseteq p_threads
        /\ p_at \in {"block", "join"}
        /\ p_at = "block" => left[Blocks - 1] = {} /\ p_threads' = p_threads
        /\ \A b \in p_threads : b \notin p_threads' => left[b] = {}
        /\ UNCHANGED <<results, left, added, sum>>
        BY <1>5 DEF Parallel!BlockDone, Parallel!JoinThread, Blocks
  <2>2. Parallel!TypeOK'
        BY <1>0, <1>a, <2>1 DEF Parallel!TypeOK
  <2>3. \A b \in Parallel!Block : (Given(b)' <=> Given(b)) /\ (Summed(b)' <=> Summed(b))
        BY <1>a, <1>b, <1>e, <2>1 DEF Given
  <2>4. length # 0 /\ (added # 0 => p_threads' = {}) /\ added < Blocks
        BY <1>d, <2>1 DEF ParallelInv
  <2>5. \A b \in Parallel!Block : left'[b] # {} => b \in p_threads'
        BY <2>1 DEF ParallelInv
  <2>6. 2 * sum' = SumTo(added)'
        BY <1>c, <2>1 DEF ParallelInv, SumTo
  <2> QED BY <1>a, <1>b, <2>1, <2>2, <2>3, <2>4, <2>5, <2>6 DEF ParallelInv
<1>6. CASE Parallel!AddResult
  <2>1. /\ p_at = "join" /\ p_threads = {}
        /\ sum' = sum + results[added] /\ added' = added + 1
        /\ p_at' = IF added' = Blocks THEN "done" ELSE "join"
        /\ UNCHANGED <<p_threads, results, left>>
        BY <1>6 DEF Parallel!AddResult, Blocks
  <2>2. length # 0 /\ added < Blocks
        BY <2>1 DEF ParallelInv
  <2>3. /\ added \in 0 .. Blocks - 1 /\ added \in Parallel!Block
        /\ added + 1 \in 0 .. Parallel!MaxThreads + 1
        BY <1>0, <1>d, <2>2 DEF Parallel!Block
  <2>4. left[added] = {} /\ Summed(added)
        BY <2>1, <2>2, <2>3 DEF ParallelInv, Given
  <2>5. PICK k \in From(added) + 1 .. To(added) + 1 :
           k .. To(added) = {} /\ 2 * results[added] = Tri(k - 1) - Tri(From(added))
        BY <2>4 DEF Summed
  <2>6. /\ From(added) \in Nat /\ To(added) \in Nat
        /\ added # Blocks - 1 => To(added) = From(added + 1)
        BY <1>0, <2>2, <2>3, BlockIs
  <2>7. k - 1 = To(added)
        BY <2>5, <2>6
  <2>8. SumTo(added) = Tri(From(added))
    <3>1. CASE added = 0
      <4>1. From(0) = 0 /\ Tri(0) = 0
        <5>1. Size \in Nat
              BY <1>0, <2>2, BlockBounds
        <5> QED BY <5>1 DEF From, Tri
      <4> QED BY <3>1, <4>1 DEF SumTo
    <3>2. CASE added # 0
          BY <1>d, <2>2, <3>2 DEF SumTo, From
    <3> QED BY <3>1, <3>2
  <2>9. SumTo(added + 1) = Tri(To(added))
    <3>1. CASE added = Blocks - 1
      <4>1. added + 1 = Blocks /\ added + 1 # 0 /\ To(added) = length
            BY <1>0, <1>d, <2>2, <3>1 DEF To
      <4> QED BY <4>1 DEF SumTo
    <3>2. CASE added # Blocks - 1
      <4>1. added + 1 # Blocks /\ added + 1 # 0 /\ To(added) = (added + 1) * Size
            BY <1>0, <1>d, <2>2, <2>6, <3>2 DEF From
      <4> QED BY <4>1 DEF SumTo
    <3> QED BY <3>1, <3>2
  <2>10. 2 * sum' = SumTo(added)'
    <3>1. 2 * sum = Tri(From(added)) /\ 2 * results[added] = Tri(To(added)) - Tri(From(added))
          BY <2>5, <2>7, <2>8 DEF ParallelInv
    <3>2. Tri(From(added)) \in Int /\ Tri(To(added)) \in Int /\ results[added] \in Nat
          BY <1>0, <2>3, <2>6, TriIs
    <3>3. 2 * sum' = SumTo(added + 1)
          BY <1>0, <2>1, <2>9, <3>1, <3>2
    <3>4. SumTo(added)' = SumTo(added + 1)
          BY <1>a, <1>b, <2>1 DEF SumTo
    <3> QED BY <3>3, <3>4
  <2>11. Parallel!TypeOK'
        BY <1>0, <1>a, <2>1, <2>3 DEF Parallel!TypeOK
  <2>12. \A b \in Parallel!Block : (Given(b)' <=> Given(b)) /\ (Summed(b)' <=> Summed(b))
    <3>1. p_at' # "start"
          BY <2>1
    <3> QED BY <1>a, <1>b, <1>e, <2>1, <3>1 DEF Given
  <2>13. \A b \in Parallel!Block : left'[b] = {}
        BY <2>1 DEF ParallelInv
  <2>14. /\ p_at' = "join" => added' < Blocks
         /\ p_at' = "done" => added' = Blocks
        BY <1>0, <1>d, <2>1, <2>2
  <2>15. p_threads' = {} /\ p_at' \in {"join", "done"}
        BY <2>1
  <2>16. \A b \in Parallel!Block : /\ Given(b)' => Summed(b)'
                                   /\ ~ Given(b)' => left'[b] = {} /\ results'[b] = 0
        BY <2>1, <2>12 DEF ParallelInv
  <2> QED BY <1>a, <1>b, <2>2, <2>10, <2>11, <2>13, <2>14, <2>15, <2>16 DEF ParallelInv
<1>7. CASE UNCHANGED Parallel!vars
  <2>1. UNCHANGED <<length, hardware, p_at, p_threads, results, left, added, sum>>
        BY <1>7 DEF Parallel!vars
  <2>2. \A b \in Parallel!Block : (Given(b)' <=> Given(b)) /\ (Summed(b)' <=> Summed(b))
        BY <1>b, <1>e, <2>1 DEF Given
  <2>3. Parallel!TypeOK' /\ SumTo(added)' = SumTo(added)
        BY <1>0, <1>b, <2>1 DEF Parallel!TypeOK, SumTo
  <2> QED BY <1>b, <2>1, <2>2, <2>3 DEF ParallelInv
<1> QED BY <1>1, <1>2, <1>3, <1>4, <1>5, <1>6, <1>7 DEF Parallel!Next, Parallel!caller

LEMMA ParallelSum == ParallelInv => Parallel!SumOfAll
<1> SUFFICES ASSUME ParallelInv PROVE Parallel!TypeOK /\ (p_at = "done" => sum = (length * (length + 1)) \div 2)
    BY DEF Parallel!SumOfAll
<1>1. Parallel!TypeOK /\ length \in Nat /\ sum \in Nat
      BY DEF ParallelInv, Parallel!TypeOK
<1>2. ASSUME p_at = "done" PROVE 2 * sum = length * (length + 1)
  <2>1. CASE length = 0
        BY <1>1, <1>2, <2>1 DEF ParallelInv, SumTo
  <2>2. CASE length # 0
    <3>1. added = Blocks /\ Blocks # 0
          BY <1>1, <1>2, <2>2, BlockBounds DEF ParallelInv
    <3> QED BY <3>1 DEF ParallelInv, SumTo, Tri
  <2> QED BY <2>1, <2>2
<1>3. length * (length + 1) \in Nat
      BY <1>1
<1> QED BY <1>1, <1>2, <1>3, Halved

-----------------------------------------------------------------------------
(* A behaviour of MCPrograms.                                              *)

SharingInv ==
    /\ QueueInv /\ OutputInv /\ StackInv /\ LazyInv /\ ParallelInv /\ GameInv

LEMMA SharingInit == EachInit => SharingInv
BY QueueInit, OutputInit, StackInit, LazyStart, ParallelInit, GameInit
   DEF EachInit, ThreadsInit, SharingInv

\* A step of the whole is a step of each program or leaves it as it is.
LEMMA StepOfEach ==
    [EachNext]_all =>
       /\ [Queue!Next]_(Queue!vars) /\ [Output!Next]_(Output!vars)
       /\ [Stack!Next]_(Stack!vars) /\ [Lazy!Next]_(Lazy!vars)
       /\ [Parallel!Next]_(Parallel!vars) /\ [Game!Next]_(Game!vars)
<1> SUFFICES ASSUME [EachNext]_all
             PROVE  /\ Queue!Next \/ UNCHANGED queue
                    /\ Output!Next \/ UNCHANGED output
                    /\ Stack!Next \/ UNCHANGED stack
                    /\ Lazy!Next \/ UNCHANGED lazy
                    /\ Parallel!Next \/ UNCHANGED parallel
                    /\ Game!Next \/ UNCHANGED game
    BY DEF queue, output, stack, lazy, parallel, game, Queue!vars, Output!vars, Stack!vars,
       Lazy!vars, Parallel!vars, Game!vars
<1>1. CASE ThreadsNext
      BY <1>1 DEF ThreadsNext, OneProgram
<1>2. CASE UNCHANGED threaded
      BY <1>2 DEF threaded
<1>3. CASE LoopsNext \/ UNCHANGED all
  <2>1. UNCHANGED threaded
        BY <1>3 DEF LoopsNext, OneLoop, all
  <2> QED BY <1>2, <2>1
<1> QED BY <1>1, <1>3 DEF EachNext

LEMMA SharingStep == SharingInv /\ [EachNext]_all => SharingInv'
BY StepOfEach, QueueStep, OutputStep, StackStep, LazyStep, ParallelStep, GameStep
   DEF SharingInv

\* What the threads of each program share is as it should be, whatever the number
\* of threads, players, values, characters and elements: condition_variable.cpp,
\* output_alternately.cpp, threadsafe_stack.cpp, code_3_11.cpp and code_3_12.cpp,
\* parallel_accumulate.cpp, FrameSync.cpp and StateSync.cpp.
THEOREM SharedRightly == EachSpec => []ThreadsShareRightly
<1>1. SharingInv => ThreadsShareRightly
      BY QueueHandedOver, OutputInTurn, StackSound, LazyWhole, ParallelSum, GameInOrder
         DEF SharingInv, ThreadsShareRightly
<1> QED BY <1>1, SharingInit, SharingStep, PTL DEF EachSpec
=============================================================================
