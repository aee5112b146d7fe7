--------------------------- MODULE StructureProofs ----------------------------
(***************************************************************************)
(* Theorems about the containers and the types that own something, as they *)
(* are put together in MCStructures: the hierarchical mutexes, the time    *)
(* wheel, the time heap, the owners of threads, the smart pointer, the     *)
(* list and the two queues of the median, of any size.                     *)
(***************************************************************************)
EXTENDS MCStructures, FiniteSetTheorems, SequenceTheorems, WellFoundedInduction, TLAPS

LEMMA Sizes ==
    /\ MaxClock \in Nat /\ MaxDelay \in Nat /\ MaxTimeout \in Nat
    /\ SlotsOfWheel \in Nat \ {0} /\ SI \in Nat \ {0}
BY StructuresAssumption DEF StructuresAssumption

-----------------------------------------------------------------------------
(* code_3_8.cpp: levels are nested, so no set of threads waits for itself.  *)

\* What a thread inside a call knows of its mutex.
Calls ==
    \A t \in Thread :
        /\ call[t] = "outside" <=> wanted[t] = None
        /\ call[t] \in {"locking", "locked"} =>
              this_thread_hierarchy_value[t] > hierarchy_value[wanted[t]]
        /\ call[t] \in {"locked", "unlocking"} => internal_mutex[wanted[t]] = t
        /\ call[t] = "locking" => internal_mutex[wanted[t]] # t

HInv == LevelsNested /\ Calls

LEMMA Constants == /\ ULONG_MAX \in Nat
                   /\ Levels \subseteq Level
                   /\ None \notin Thread /\ None \notin Mutex
BY HierarchyAssumption DEF HierarchyAssumption, Level

USE Constants DEF Level

LEMMA HInvInit == MutexInit => HInv
<1> SUFFICES ASSUME MutexInit PROVE HInv
    OBVIOUS
<1>1. MutexTypeOK
  <2>1. hierarchy_value \in [Mutex -> Level]
        BY DEF MutexInit
  <2>2. /\ previous_hierarchy_value \in [Mutex -> Level]
        /\ this_thread_hierarchy_value \in [Thread -> Level]
        BY DEF MutexInit
  <2> QED BY <2>1, <2>2 DEF MutexInit, MutexTypeOK, Place
<1>2. \A t \in Thread : Held(t) = {}
      BY DEF MutexInit, Held
<1>3. Calls
      BY DEF MutexInit, Calls
<1>4. LevelsNested
      BY <1>1, <1>2 DEF LevelsNested, Lowest, MutexInit
<1> QED BY <1>3, <1>4 DEF HInv

\* The part of LevelsNested that is about one thread.
Nested(t) ==
    /\ Lowest(this_thread_hierarchy_value[t], Held(t))
    /\ \A m \in Held(t) :
          /\ Lowest(previous_hierarchy_value[m], Higher(t, m))
          /\ \A n \in Held(t) : hierarchy_value[m] = hierarchy_value[n] => m = n

LEMMA NestedEach == LevelsNested <=> MutexTypeOK /\ \A t \in Thread : Nested(t)
BY DEF LevelsNested, Nested

\* A step that changes neither what a thread holds nor what it depends on.
LEMMA Untouched ==
    ASSUME NEW t \in Thread, Nested(t),
           hierarchy_value' = hierarchy_value,
           this_thread_hierarchy_value'[t] = this_thread_hierarchy_value[t],
           Held(t)' = Held(t),
           \A m \in Held(t) : previous_hierarchy_value'[m] = previous_hierarchy_value[m]
    PROVE  Nested(t)'
<1>1. \A m \in Held(t) : Higher(t, m)' = Higher(t, m)
      BY DEF Higher
<1> QED BY <1>1 DEF Nested, Lowest

LEMMA lockKeeps ==
    ASSUME HInv, NEW t \in Thread, NEW m \in Mutex, lock(t, m) PROVE HInv'
<1> USE DEF lock, Enter, mutexes, HInv
<1>0. MutexTypeOK /\ \A u \in Thread : Nested(u)
      BY NestedEach
<1>1. MutexTypeOK'
      BY <1>0 DEF MutexTypeOK, Place
<1>2. wanted[t] = None /\ internal_mutex[m] # t
  <2>1. wanted[t] = None
        BY DEF Calls
  <2>2. internal_mutex[m] = t => m \in Held(t)
        BY <2>1 DEF Held
  <2>3. m \in Held(t) => this_thread_hierarchy_value[t] <= hierarchy_value[m]
        BY <1>0 DEF Nested, Lowest
  <2> QED BY <1>0, <2>1, <2>2, <2>3 DEF check_for_hierarchy_violation, MutexTypeOK
<1>3. \A u \in Thread : Held(u)' = Held(u)
      BY <1>0, <1>2 DEF Held, MutexTypeOK
<1>4. \A u \in Thread : Nested(u)'
      BY <1>0, <1>3, Untouched
<1>5. Calls'
      BY <1>0, <1>2 DEF Calls, MutexTypeOK, check_for_hierarchy_violation
<1>6. LevelsNested'
      BY <1>1, <1>4 DEF LevelsNested, Nested
<1> QED BY <1>5, <1>6

LEMMA AcquireKeeps ==
    ASSUME HInv, NEW t \in Thread, Acquire(t) PROVE HInv'
<1> USE DEF Acquire, Take, HInv
<1>0. MutexTypeOK /\ \A u \in Thread : Nested(u)
      BY NestedEach
<1>1. MutexTypeOK'
      BY <1>0 DEF MutexTypeOK, Place
<1>2. \A u \in Thread : Held(u)' = Held(u)
      BY <1>0 DEF Held, MutexTypeOK
<1>3. \A u \in Thread : Nested(u)'
      BY <1>0, <1>2, Untouched
<1>4. Calls'
      BY <1>0 DEF Calls, MutexTypeOK
<1>5. LevelsNested'
      BY <1>1, <1>3 DEF LevelsNested, Nested
<1> QED BY <1>4, <1>5

LEMMA try_lockKeeps ==
    ASSUME HInv, NEW t \in Thread, NEW m \in Mutex, try_lock(t, m) PROVE HInv'
<1> USE DEF try_lock, Take, Enter, HInv
<1>0. MutexTypeOK /\ \A u \in Thread : Nested(u)
      BY NestedEach
<1>1. MutexTypeOK'
      BY <1>0 DEF MutexTypeOK, Place
<1>2. wanted[t] = None
      BY DEF Calls
<1>3. \A u \in Thread : Held(u)' = Held(u)
      BY <1>0, <1>2 DEF Held, MutexTypeOK
<1>4. \A u \in Thread : Nested(u)'
      BY <1>0, <1>3, Untouched
<1>5. Calls'
      BY <1>0 DEF Calls, MutexTypeOK, check_for_hierarchy_violation
<1>6. LevelsNested'
      BY <1>1, <1>4 DEF LevelsNested, Nested
<1> QED BY <1>5, <1>6

LEMMA update_heirarchy_valueKeeps ==
    ASSUME HInv, NEW t \in Thread, update_heirarchy_value(t) PROVE HInv'
<1> USE DEF update_heirarchy_value, Return, HInv
<1>0. MutexTypeOK /\ \A u \in Thread : Nested(u)
      BY NestedEach
<1>a. wanted[t] \in Mutex
      BY <1>0 DEF Calls, MutexTypeOK
<1>b. PICK m \in Mutex : m = wanted[t]
      BY <1>a
<1> USE <1>b
<1>1. /\ internal_mutex[m] = t
      /\ this_thread_hierarchy_value[t] > hierarchy_value[m]
      BY <1>0 DEF Calls, MutexTypeOK
<1>2. MutexTypeOK'
      BY <1>0, <1>1 DEF MutexTypeOK, Place
<1>3. \A u \in Thread \ {t} : Held(u)' = Held(u) /\ m \notin Held(u)
      BY <1>0, <1>1 DEF Held, MutexTypeOK
<1>4. Held(t)' = Held(t) \cup {m} /\ m \notin Held(t)
      BY <1>0, <1>1 DEF Held, MutexTypeOK
<1>5. \A n \in Held(t) : hierarchy_value[n] > hierarchy_value[m]
  <2>1. \A n \in Held(t) : this_thread_hierarchy_value[t] <= hierarchy_value[n]
        BY <1>0 DEF Nested, Lowest
  <2> QED BY <1>0, <1>1, <2>1 DEF MutexTypeOK, Held
<1>6. \A u \in Thread \ {t} : Nested(u)'
  <2> TAKE u \in Thread \ {t}
  <2>1. \A n \in Held(u) : previous_hierarchy_value'[n] = previous_hierarchy_value[n]
        BY <1>0, <1>3 DEF MutexTypeOK, Held
  <2>2. this_thread_hierarchy_value'[u] = this_thread_hierarchy_value[u]
        BY <1>0 DEF MutexTypeOK
  <2> QED BY <1>0, <1>3, <2>1, <2>2, Untouched
<1>7. Nested(t)'
  <2>1. Lowest(this_thread_hierarchy_value[t], Held(t))'
        BY <1>0, <1>1, <1>4, <1>5 DEF Lowest, MutexTypeOK, Held
  <2>2. Higher(t, m)' = Held(t)
        BY <1>0, <1>1, <1>4, <1>5 DEF Higher, MutexTypeOK
  <2>3. Lowest(previous_hierarchy_value[m], Higher(t, m))'
    <3>1. previous_hierarchy_value'[m] = this_thread_hierarchy_value[t]
          BY <1>0, <1>1 DEF MutexTypeOK
    <3> QED BY <1>0, <2>2, <3>1 DEF Nested, Lowest
  <2>4. ASSUME NEW n \in Held(t)
        PROVE  Lowest(previous_hierarchy_value[n], Higher(t, n))'
    <3>1. Higher(t, n)' = Higher(t, n)
          BY <1>0, <1>1, <1>4, <1>5 DEF Higher, MutexTypeOK, Held
    <3>2. previous_hierarchy_value'[n] = previous_hierarchy_value[n]
          BY <1>0, <1>4 DEF MutexTypeOK, Held
    <3> QED BY <1>0, <3>1, <3>2 DEF Nested, Lowest
  <2>5. \A n, o \in Held(t)' : hierarchy_value[n] = hierarchy_value[o] => n = o
    <3>1. \A n, o \in Held(t) : hierarchy_value[n] = hierarchy_value[o] => n = o
          BY <1>0 DEF Nested
    <3>2. \A n \in Held(t) : hierarchy_value[n] # hierarchy_value[m]
          BY <1>0, <1>5 DEF MutexTypeOK, Held
    <3> QED BY <1>4, <3>1, <3>2
  <2>6. \A n \in Held(t)' : Lowest(previous_hierarchy_value[n], Higher(t, n))'
        BY <1>4, <2>3, <2>4
  <2> QED BY <2>1, <2>5, <2>6 DEF Nested
<1>8. Calls'
      BY <1>0, <1>1 DEF Calls, MutexTypeOK
<1>9. LevelsNested'
      BY <1>2, <1>6, <1>7 DEF LevelsNested, Nested
<1> QED BY <1>8, <1>9

LEMMA unlockKeeps ==
    ASSUME HInv, NEW t \in Thread, NEW m \in Mutex, unlock(t, m) PROVE HInv'
<1> USE DEF unlock, LastLocked, Enter, mutexes, HInv
<1>0. MutexTypeOK /\ \A u \in Thread : Nested(u)
      BY NestedEach
<1>1. wanted[t] = None /\ m \in Held(t)
      BY DEF Calls, Held
<1>2. MutexTypeOK'
      BY <1>0 DEF MutexTypeOK, Place
<1>3. \A u \in Thread \ {t} : Held(u)' = Held(u)
      BY <1>0 DEF Held, MutexTypeOK
<1>4. Held(t)' = Held(t) \ {m}
      BY <1>0, <1>1 DEF Held, MutexTypeOK
<1>5. \A u \in Thread \ {t} : Nested(u)'
  <2> TAKE u \in Thread \ {t}
  <2>1. this_thread_hierarchy_value'[u] = this_thread_hierarchy_value[u]
        BY <1>0 DEF MutexTypeOK
  <2> QED BY <1>0, <1>3, <2>1, Untouched
<1>6. Higher(t, m) = Held(t) \ {m}
  <2>1. \A n \in Held(t) \ {m} : hierarchy_value[n] >= hierarchy_value[m]
        BY <1>0 DEF Nested, Lowest
  <2>2. \A n \in Held(t) \ {m} : hierarchy_value[n] # hierarchy_value[m]
        BY <1>0, <1>1 DEF Nested
  <2> QED BY <1>0, <2>1, <2>2 DEF Higher, MutexTypeOK, Held
<1>7. Nested(t)'
  <2>1. Lowest(this_thread_hierarchy_value[t], Held(t))'
    <3>1. this_thread_hierarchy_value'[t] = previous_hierarchy_value[m]
          BY <1>0 DEF MutexTypeOK
    <3>2. Lowest(previous_hierarchy_value[m], Held(t)')
          BY <1>0, <1>1, <1>4, <1>6 DEF Nested
    <3> QED BY <3>1, <3>2 DEF Lowest
  <2>2. ASSUME NEW n \in Held(t) \ {m}
        PROVE  Lowest(previous_hierarchy_value[n], Higher(t, n))'
    <3>1. hierarchy_value[m] < hierarchy_value[n]
          BY <1>0, <1>6, <2>2 DEF Higher, MutexTypeOK
    <3>2. Higher(t, n)' = Higher(t, n)
          BY <1>0, <1>1, <1>4, <3>1 DEF Higher, MutexTypeOK, Held
    <3> QED BY <1>0, <3>2 DEF Nested, Lowest
  <2>3. \A n, o \in Held(t)' : hierarchy_value[n] = hierarchy_value[o] => n = o
        BY <1>0, <1>4 DEF Nested
  <2> QED BY <1>4, <2>1, <2>2, <2>3 DEF Nested
<1>8. Calls'
      BY <1>0 DEF Calls, MutexTypeOK
<1>9. LevelsNested'
      BY <1>2, <1>5, <1>7 DEF LevelsNested, Nested
<1> QED BY <1>8, <1>9

LEMMA ReleaseKeeps ==
    ASSUME HInv, NEW t \in Thread, Release(t) PROVE HInv'
<1> USE DEF Release, Return, HInv
<1>0. MutexTypeOK /\ \A u \in Thread : Nested(u)
      BY NestedEach
<1>1. wanted[t] \in Mutex /\ internal_mutex[wanted[t]] = t
      BY <1>0 DEF Calls, MutexTypeOK
<1>2. MutexTypeOK'
      BY <1>0 DEF MutexTypeOK, Place
<1>3. \A u \in Thread : Held(u)' = Held(u)
      BY <1>0, <1>1 DEF Held, MutexTypeOK
<1>4. \A u \in Thread : Nested(u)'
      BY <1>0, <1>3, Untouched
<1>5. Calls'
      BY <1>0, <1>1 DEF Calls, MutexTypeOK
<1>6. LevelsNested'
      BY <1>2, <1>4 DEF LevelsNested, Nested
<1> QED BY <1>5, <1>6

LEMMA HInvStep == HInv /\ [MutexNext]_mutexvars => HInv'
<1> SUFFICES ASSUME HInv, [MutexNext]_mutexvars PROVE HInv'
    OBVIOUS
<1>1. ASSUME NEW t \in Thread, Acquire(t) PROVE HInv'
      BY <1>1, AcquireKeeps
<1>2. ASSUME NEW t \in Thread, update_heirarchy_value(t) PROVE HInv'
      BY <1>2, update_heirarchy_valueKeeps
<1>3. ASSUME NEW t \in Thread, Release(t) PROVE HInv'
      BY <1>3, ReleaseKeeps
<1>4. ASSUME NEW t \in Thread, NEW m \in Mutex, lock(t, m) PROVE HInv'
      BY <1>4, lockKeeps
<1>5. ASSUME NEW t \in Thread, NEW m \in Mutex, try_lock(t, m) PROVE HInv'
      BY <1>5, try_lockKeeps
<1>6. ASSUME NEW t \in Thread, NEW m \in Mutex, unlock(t, m) PROVE HInv'
      BY <1>6, unlockKeeps
<1>7. CASE UNCHANGED mutexvars
      BY <1>7 DEF mutexvars, mutexes, threads, HInv, LevelsNested, Lowest, Held, Higher, Calls,
                  MutexTypeOK
<1> QED BY <1>1, <1>2, <1>3, <1>4, <1>5, <1>6, <1>7 DEF MutexNext

LEMMA AlwaysHInv == MutexSpec => []HInv
BY HInvInit, HInvStep, PTL DEF MutexSpec

\* A thread's level is that of the lowest mutex it holds, and each mutex
\* remembers the next higher one, for any number of threads and mutexes and
\* any levels (check, update and restore in lines 63-98).
THEOREM LevelsAreNested == MutexSpec => []LevelsNested
<1>1. HInv => LevelsNested
      BY DEF HInv
<1> QED BY <1>1, AlwaysHInv, PTL

-----------------------------------------------------------------------------
\* Who waits for a thread that waits wants a higher mutex than that thread does.
LEMMA Descends ==
    ASSUME HInv, NEW t \in Thread, NEW u \in Thread,
           WaitsWithin(t, {u}), call[u] = "locking"
    PROVE  hierarchy_value[wanted[u]] < hierarchy_value[wanted[t]]
<1> USE DEF HInv, WaitsWithin
<1>0. MutexTypeOK /\ Nested(u)
      BY NestedEach
<1>1. wanted[t] \in Mutex /\ wanted[u] \in Mutex /\ internal_mutex[wanted[t]] = u
      BY <1>0 DEF Calls, MutexTypeOK
<1>2. wanted[t] \in Held(u)
      BY <1>1 DEF Calls, Held
<1>3. this_thread_hierarchy_value[u] <= hierarchy_value[wanted[t]]
      BY <1>0, <1>2 DEF Nested, Lowest
<1>4. this_thread_hierarchy_value[u] > hierarchy_value[wanted[u]]
      BY DEF Calls
<1> QED BY <1>0, <1>1, <1>3, <1>4 DEF MutexTypeOK

LEMMA HasSmallest ==
    ASSUME NEW S \in SUBSET Nat, S # {} PROVE \E x \in S : \A y \in S : ~(y < x)
<1>1. \E x \in S : \A y \in S : <<y, x>> \notin OpToRel(<, Nat)
      BY NatLessThanWellFounded, WFMin
<1> QED BY <1>1 DEF OpToRel

\* No set of threads waits for itself: the hierarchy excludes deadlock, however
\* many threads and mutexes there are.
THEOREM NoDeadlock == MutexSpec => []NoCircularWait
<1>1. ASSUME HInv PROVE NoCircularWait
  <2> SUFFICES ASSUME NEW S \in SUBSET Thread, S # {}, \A t \in S : WaitsWithin(t, S)
               PROVE  FALSE
      BY DEF NoCircularWait
  <2> DEFINE levels == {hierarchy_value[wanted[t]] : t \in S}
  <2>1. MutexTypeOK
        BY <1>1 DEF HInv, LevelsNested
  <2>2. \A t \in S : wanted[t] \in Mutex
    <3> TAKE t \in S
    <3>1. t \in Thread /\ call[t] # "outside"
          BY DEF WaitsWithin
    <3> QED BY <1>1, <2>1, <3>1 DEF HInv, Calls, MutexTypeOK
  <2>3. levels \in SUBSET Nat /\ levels # {}
        BY <2>1, <2>2 DEF MutexTypeOK
  <2>4. PICK x \in levels : \A y \in levels : ~(y < x)
        BY <2>3, HasSmallest
  <2>5. PICK t \in S : x = hierarchy_value[wanted[t]]
        OBVIOUS
  <2>6. PICK u \in S : internal_mutex[wanted[t]] = u
        BY DEF WaitsWithin
  <2>7. hierarchy_value[wanted[u]] < x
        BY <1>1, <2>5, <2>6, Descends DEF WaitsWithin
  <2> QED BY <2>4, <2>7
<1> QED BY <1>1, AlwaysHInv, PTL

-----------------------------------------------------------------------------
(* time_wheel.h.                                                           *)

LEMMA Modulo ==
    ASSUME NEW N \in Nat \ {0}
    PROVE  /\ \A x \in 0 .. N - 1 : x % N = x
           /\ \A x \in N .. 2 * N - 1 : x % N = x - N
           /\ \A x \in -N .. -1 : x % N = x + N
           /\ \A x \in Int : x % N \in 0 .. N - 1
<1>1. \A x \in 0 .. N - 1 : x % N = x
      OBVIOUS
<1>2. \A x \in N .. 2 * N - 1 : x % N = x - N
      OBVIOUS
<1>3. \A x \in -N .. -1 : x % N = x + N
      OBVIOUS
<1>4. \A x \in Int : x % N \in 0 .. N - 1
      OBVIOUS
<1> QED BY <1>1, <1>2, <1>3, <1>4

LEMMA Divided ==
    ASSUME NEW N \in Nat \ {0}, NEW x \in Nat
    PROVE  /\ x \div N \in Nat /\ N * (x \div N) \in Nat
           /\ x % N = x - N * (x \div N) /\ x % N \in 0 .. N - 1
<1>1. x \div N \in Nat
      OBVIOUS
<1>2. N * (x \div N) \in Nat
      BY <1>1
<1>3. x % N = x - N * (x \div N)
      OBVIOUS
<1>4. x % N \in 0 .. N - 1
      OBVIOUS
<1> QED BY <1>1, <1>2, <1>3, <1>4

\* The slots that are a number of ticks away.
Away(s, c) == (s - c) % SlotsOfWheel

LEMMA AwayIs ==
    ASSUME NEW c \in 0 .. SlotsOfWheel - 1, NEW s \in 0 .. SlotsOfWheel - 1
    PROVE  /\ Away(s, c) \in 0 .. SlotsOfWheel - 1
           /\ Away(s, c) = 0 <=> s = c
           /\ (c + 1) % SlotsOfWheel \in 0 .. SlotsOfWheel - 1
           /\ Away(s, (c + 1) % SlotsOfWheel) =
                 IF s = c THEN SlotsOfWheel - 1 ELSE Away(s, c) - 1
<1> DEFINE N == SlotsOfWheel
<1>1. N \in Nat \ {0} /\ c \in 0 .. N - 1 /\ s \in 0 .. N - 1
      BY Sizes
<1> HIDE DEF N
<1>2. /\ \A x \in 0 .. N - 1 : x % N = x
      /\ \A x \in N .. 2 * N - 1 : x % N = x - N
      /\ \A x \in -N .. -1 : x % N = x + N
      BY <1>1, Modulo
<1>3. (s - c) % N = IF s < c THEN s - c + N ELSE s - c
  <2>1. CASE s < c
    <3>1. s - c \in -N .. -1
          BY <1>1, <2>1
    <3> QED BY <1>2, <2>1, <3>1
  <2>2. CASE ~ (s < c)
    <3>1. s - c \in 0 .. N - 1
          BY <1>1, <2>2
    <3> QED BY <1>2, <2>2, <3>1
  <2> QED BY <2>1, <2>2
<1>4. (c + 1) % N = IF c = N - 1 THEN 0 ELSE c + 1
  <2>1. CASE c = N - 1
    <3>1. c + 1 \in N .. 2 * N - 1 /\ (c + 1) - N = 0
          BY <1>1, <2>1
    <3> QED BY <1>2, <2>1, <3>1
  <2>2. CASE c # N - 1
    <3>1. c + 1 \in 0 .. N - 1
          BY <1>1, <2>2
    <3> QED BY <1>2, <2>2, <3>1
  <2> QED BY <2>1, <2>2
<1>5. ASSUME NEW e \in 0 .. N - 1, e = (c + 1) % N
      PROVE  (s - e) % N = IF s = c THEN N - 1 ELSE ((s - c) % N) - 1
  <2>1. (s - e) % N = IF s < e THEN s - e + N ELSE s - e
    <3>1. CASE s < e
      <4>1. s - e \in -N .. -1
            BY <1>1, <3>1
      <4> QED BY <1>2, <3>1, <4>1
    <3>2. CASE ~ (s < e)
      <4>1. s - e \in 0 .. N - 1
            BY <1>1, <3>2
      <4> QED BY <1>2, <3>2, <4>1
    <3> QED BY <3>1, <3>2
  <2> HIDE DEF N
  <2>2. e = IF c = N - 1 THEN 0 ELSE c + 1
        BY <1>4, <1>5
  <2>3. /\ s = c => IF s < e THEN s - e + N = N - 1 ELSE s - e = N - 1
        /\ s # c /\ s < c => IF s < e THEN s - e + N = (s - c + N) - 1
                                      ELSE s - e = (s - c + N) - 1
        /\ s # c /\ ~ (s < c) => IF s < e THEN s - e + N = (s - c) - 1
                                          ELSE s - e = (s - c) - 1
        BY <1>1, <2>2
  <2> QED BY <1>3, <2>1, <2>3
<1>6. (c + 1) % N \in 0 .. N - 1
      BY <1>1, <1>4
<1>7. (s - c) % N \in 0 .. N - 1 /\ ((s - c) % N = 0 <=> s = c)
      BY <1>1, <1>3
<1> QED BY <1>5, <1>6, <1>7 DEF Away, N

\* Where addTimer puts a timer of so many ticks.
LEMMA SlotFor ==
    ASSUME NEW c \in 0 .. SlotsOfWheel - 1, NEW r \in 0 .. SlotsOfWheel - 1
    PROVE  /\ (c + r) % SlotsOfWheel \in 0 .. SlotsOfWheel - 1
           /\ Away((c + r) % SlotsOfWheel, c) = r
<1> DEFINE N == SlotsOfWheel
<1>1. N \in Nat \ {0} /\ c \in 0 .. N - 1 /\ r \in 0 .. N - 1
      BY Sizes
<1> HIDE DEF N
<1>2. /\ \A x \in 0 .. N - 1 : x % N = x
      /\ \A x \in N .. 2 * N - 1 : x % N = x - N
      /\ \A x \in -N .. -1 : x % N = x + N
      BY <1>1, Modulo
<1>3. CASE c + r < N
  <2>1. c + r \in 0 .. N - 1 /\ (c + r) - c = r
        BY <1>1, <1>3
  <2>2. (c + r) % N = c + r
        BY <1>2, <2>1
  <2>3. r % N = r
        BY <1>1, <1>2
  <2> QED BY <2>1, <2>2, <2>3 DEF Away, N
<1>4. CASE ~ (c + r < N)
  <2>1. /\ c + r \in N .. 2 * N - 1 /\ ((c + r) - N) - c = r - N /\ r - N \in -N .. -1
        /\ (c + r) - N \in 0 .. N - 1 /\ (r - N) + N = r
        BY <1>1, <1>4
  <2>2. (c + r) % N = (c + r) - N
    <3>1. PICK x \in N .. 2 * N - 1 : x = c + r
          BY <2>1
    <3>2. x % N = x - N
          BY <1>2
    <3> QED BY <3>1, <3>2, Zenon
  <2>3. (r - N) % N = r
        BY <1>2, <2>1
  <2> QED BY <2>1, <2>2, <2>3 DEF Away, N
<1> QED BY <1>3, <1>4

LEMMA TicksAre ==
    ASSUME NEW timeout \in 0 .. MaxTimeout
    PROVE  Wheel!Ticks(timeout) \in Nat
BY Sizes, Divided DEF Wheel!Ticks

LEMMA WheelInit == Wheel!Init => Wheel!OnSchedule
BY Sizes DEF Wheel!Init, Wheel!OnSchedule

LEMMA WheelAdds ==
    ASSUME Wheel!OnSchedule, NEW t \in Timer, NEW timeout \in 0 .. MaxTimeout,
           Wheel!addTimer(t, timeout)
    PROVE  Wheel!OnSchedule'
<1> DEFINE ticks == Wheel!Ticks(timeout)
           ts == (cur_slot + (ticks % SlotsOfWheel)) % SlotsOfWheel
<1>0. /\ cur_slot \in 0 .. SlotsOfWheel - 1
      /\ rotation \in [Timer -> Nat] /\ time_slot \in [Timer -> 0 .. SlotsOfWheel - 1]
      /\ wait \in [Timer -> Nat]
      /\ slots \in [0 .. SlotsOfWheel - 1 -> SUBSET Timer]
      BY DEF Wheel!OnSchedule
<1>1. /\ t \notin Wheel!Live
      /\ rotation' = [rotation EXCEPT ![t] = ticks \div SlotsOfWheel]
      /\ time_slot' = [time_slot EXCEPT ![t] = ts]
      /\ slots' = [slots EXCEPT ![ts] = @ \cup {t}]
      /\ wait' = [wait EXCEPT ![t] = ticks]
      /\ UNCHANGED cur_slot
      BY DEF Wheel!addTimer, Wheel!Turns
<1>2. /\ ticks \in Nat /\ ticks \div SlotsOfWheel \in Nat
      /\ SlotsOfWheel * (ticks \div SlotsOfWheel) \in Nat
      /\ ticks % SlotsOfWheel = ticks - SlotsOfWheel * (ticks \div SlotsOfWheel)
      /\ ticks % SlotsOfWheel \in 0 .. SlotsOfWheel - 1
      BY Sizes, TicksAre, Divided
<1>3. ts \in 0 .. SlotsOfWheel - 1 /\ (ts - cur_slot) % SlotsOfWheel = ticks % SlotsOfWheel
      BY <1>0, <1>2, SlotFor DEF Away
<1> HIDE DEF ticks, ts
<1>4. ticks = ((ts - cur_slot) % SlotsOfWheel) + SlotsOfWheel * (ticks \div SlotsOfWheel)
      BY <1>2, <1>3
<1>5. \A s \in 0 .. SlotsOfWheel - 1 : t \notin slots[s]
      BY <1>1 DEF Wheel!Live
<1>6. \A s \in 0 .. SlotsOfWheel - 1 : \A u \in slots'[s] :
         /\ time_slot'[u] = s
         /\ wait'[u] = ((s - cur_slot) % SlotsOfWheel) + SlotsOfWheel * rotation'[u]
  <2> SUFFICES ASSUME NEW s \in 0 .. SlotsOfWheel - 1, NEW u \in slots'[s]
               PROVE  /\ time_slot'[u] = s
                      /\ wait'[u] = ((s - cur_slot) % SlotsOfWheel) + SlotsOfWheel * rotation'[u]
      OBVIOUS
  <2>1. CASE u = t
    <3>1. s = ts
          BY <1>0, <1>1, <1>3, <1>5, <2>1
    <3>2. time_slot'[t] = ts /\ wait'[t] = ticks /\ rotation'[t] = ticks \div SlotsOfWheel
          BY <1>0, <1>1
    <3> QED BY <1>4, <2>1, <3>1, <3>2
  <2>2. CASE u # t
    <3>1. u \in slots[s] /\ u \in Timer
          BY <1>0, <1>1, <1>3, <2>2
    <3>2. time_slot'[u] = time_slot[u] /\ wait'[u] = wait[u] /\ rotation'[u] = rotation[u]
          BY <1>0, <1>1, <2>2, <3>1
    <3> QED BY <3>1, <3>2 DEF Wheel!OnSchedule
  <2> QED BY <2>1, <2>2
<1>7. /\ rotation' \in [Timer -> Nat] /\ time_slot' \in [Timer -> 0 .. SlotsOfWheel - 1]
      /\ wait' \in [Timer -> Nat]
      /\ slots' \in [0 .. SlotsOfWheel - 1 -> SUBSET Timer]
      BY <1>0, <1>1, <1>2, <1>3
<1> QED BY <1>0, <1>1, <1>6, <1>7 DEF Wheel!OnSchedule

LEMMA WheelDeletes ==
    ASSUME Wheel!OnSchedule, NEW t \in Timer, Wheel!delTimer(t)
    PROVE  Wheel!OnSchedule'
<1>0. /\ cur_slot \in 0 .. SlotsOfWheel - 1
      /\ rotation \in [Timer -> Nat] /\ time_slot \in [Timer -> 0 .. SlotsOfWheel - 1]
      /\ wait \in [Timer -> Nat]
      /\ slots \in [0 .. SlotsOfWheel - 1 -> SUBSET Timer]
      BY DEF Wheel!OnSchedule
<1>1. /\ slots' = [slots EXCEPT ![time_slot[t]] = @ \ {t}]
      /\ rotation' = [rotation EXCEPT ![t] = 0]
      /\ time_slot' = [time_slot EXCEPT ![t] = 0]
      /\ wait' = [wait EXCEPT ![t] = 0]
      /\ UNCHANGED cur_slot
      BY DEF Wheel!delTimer
<1>2. \A s \in 0 .. SlotsOfWheel - 1 : \A u \in slots'[s] :
         /\ u # t /\ u \in slots[s] /\ u \in Timer
         /\ time_slot'[u] = time_slot[u] /\ wait'[u] = wait[u] /\ rotation'[u] = rotation[u]
  <2> SUFFICES ASSUME NEW s \in 0 .. SlotsOfWheel - 1, NEW u \in slots'[s]
               PROVE  /\ u # t /\ u \in slots[s] /\ u \in Timer
                      /\ time_slot'[u] = time_slot[u] /\ wait'[u] = wait[u]
                      /\ rotation'[u] = rotation[u]
      OBVIOUS
  <2>1. u \in slots[s] /\ u \in Timer
        BY <1>0, <1>1
  <2>2. time_slot[u] = s
        BY <2>1 DEF Wheel!OnSchedule
  <2>3. u # t
        BY <1>0, <1>1, <2>2
  <2> QED BY <1>0, <1>1, <2>1, <2>3
<1>3. \A s \in 0 .. SlotsOfWheel - 1 : \A u \in slots'[s] :
         /\ time_slot'[u] = s
         /\ wait'[u] = ((s - cur_slot) % SlotsOfWheel) + SlotsOfWheel * rotation'[u]
      BY <1>2 DEF Wheel!OnSchedule
<1>4. /\ rotation' \in [Timer -> Nat] /\ time_slot' \in [Timer -> 0 .. SlotsOfWheel - 1]
      /\ wait' \in [Timer -> Nat]
      /\ slots' \in [0 .. SlotsOfWheel - 1 -> SUBSET Timer]
      BY <1>0, <1>1, Sizes
<1> QED BY <1>0, <1>1, <1>3, <1>4 DEF Wheel!OnSchedule

\* The timers that fire, and how the others wait.
Fired == {t \in slots[cur_slot] : rotation[t] = 0}

LEMMA FiredAre ==
    ASSUME Wheel!OnSchedule
    PROVE  /\ Fired = {t \in Wheel!Live : ~ (wait[t] > 0)} /\ Fired \subseteq slots[cur_slot]
           /\ \A s \in 0 .. SlotsOfWheel - 1 : \A t \in slots[s] :
                 t \in Fired <=> s = cur_slot /\ rotation[t] = 0
<1>0. /\ cur_slot \in 0 .. SlotsOfWheel - 1
      /\ rotation \in [Timer -> Nat] /\ wait \in [Timer -> Nat]
      /\ slots \in [0 .. SlotsOfWheel - 1 -> SUBSET Timer]
      BY DEF Wheel!OnSchedule
<1>1. ASSUME NEW s \in 0 .. SlotsOfWheel - 1, NEW t \in slots[s]
      PROVE  /\ t \in Fired <=> s = cur_slot /\ rotation[t] = 0
             /\ wait[t] > 0 <=> ~ (s = cur_slot /\ rotation[t] = 0)
  <2>1. time_slot[t] = s /\ wait[t] = Away(s, cur_slot) + SlotsOfWheel * rotation[t]
        BY DEF Wheel!OnSchedule, Away
  <2>2. /\ Away(s, cur_slot) \in 0 .. SlotsOfWheel - 1
        /\ Away(s, cur_slot) = 0 <=> s = cur_slot
        BY <1>0, AwayIs
  <2>3. t \in Timer /\ rotation[t] \in Nat
        BY <1>0
  <2>4. /\ SlotsOfWheel * rotation[t] \in Nat
        /\ SlotsOfWheel * rotation[t] = 0 <=> rotation[t] = 0
        BY <2>3, Sizes
  <2>5. wait[t] > 0 <=> ~ (s = cur_slot /\ rotation[t] = 0)
        BY <2>1, <2>2, <2>4
  <2>6. t \in Fired => s = cur_slot
    <3>1. ASSUME t \in slots[cur_slot] PROVE time_slot[t] = cur_slot
          BY <1>0, <3>1 DEF Wheel!OnSchedule
    <3> QED BY <2>1, <3>1 DEF Fired
  <2> QED BY <2>5, <2>6 DEF Fired
<1> QED BY <1>0, <1>1 DEF Fired, Wheel!Live

LEMMA WheelTurns ==
    ASSUME Wheel!OnSchedule, Wheel!tick
    PROVE  Wheel!OnSchedule' /\ Wheel!Live' = Wheel!Live \ Fired
<1>0. /\ cur_slot \in 0 .. SlotsOfWheel - 1
      /\ rotation \in [Timer -> Nat] /\ time_slot \in [Timer -> 0 .. SlotsOfWheel - 1]
      /\ wait \in [Timer -> Nat]
      /\ slots \in [0 .. SlotsOfWheel - 1 -> SUBSET Timer]
      BY DEF Wheel!OnSchedule
<1>1. /\ slots' = [slots EXCEPT ![cur_slot] = @ \ Fired]
      /\ rotation' = [t \in Timer |-> IF t \in slots[cur_slot] \ Fired THEN rotation[t] - 1
                                      ELSE IF t \in Fired THEN 0 ELSE rotation[t]]
      /\ time_slot' = [t \in Timer |-> IF t \in Fired THEN 0 ELSE time_slot[t]]
      /\ wait' = [t \in Timer |-> IF t \in Wheel!Live \ Fired THEN wait[t] - 1 ELSE 0]
      /\ cur_slot' = (cur_slot + 1) % SlotsOfWheel
      BY DEF Wheel!tick, Wheel!LastTurn, Fired
<1>2. /\ Fired = {t \in Wheel!Live : ~ (wait[t] > 0)} /\ Fired \subseteq slots[cur_slot]
      /\ \A s \in 0 .. SlotsOfWheel - 1 : \A t \in slots[s] :
            t \in Fired <=> s = cur_slot /\ rotation[t] = 0
      BY FiredAre
<1>3. \A s \in 0 .. SlotsOfWheel - 1 : slots'[s] = slots[s] \ Fired
      BY <1>0, <1>1, <1>2
<1>4. Wheel!Live' = Wheel!Live \ Fired
      BY <1>3 DEF Wheel!Live
<1>5. cur_slot' \in 0 .. SlotsOfWheel - 1
      BY <1>0, <1>1, AwayIs
<1>6. /\ rotation' \in [Timer -> Nat] /\ wait' \in [Timer -> Nat]
  <2>1. ASSUME NEW t \in Timer
        PROVE  /\ (t \in slots[cur_slot] \ Fired => rotation[t] - 1 \in Nat)
               /\ (t \in Wheel!Live \ Fired => wait[t] - 1 \in Nat)
    <3>1. rotation[t] \in Nat /\ wait[t] \in Nat
          BY <1>0
    <3>2. t \in slots[cur_slot] \ Fired => rotation[t] # 0
          BY <1>0, <1>2
    <3>3. t \in Wheel!Live \ Fired => wait[t] > 0
          BY <1>2
    <3> QED BY <3>1, <3>2, <3>3
  <2> QED BY <1>0, <1>1, <2>1
<1>7. /\ time_slot' \in [Timer -> 0 .. SlotsOfWheel - 1]
      /\ slots' \in [0 .. SlotsOfWheel - 1 -> SUBSET Timer]
      BY <1>0, <1>1, Sizes
<1>8. \A s \in 0 .. SlotsOfWheel - 1 : \A t \in slots'[s] :
         /\ time_slot'[t] = s
         /\ wait'[t] = ((s - cur_slot') % SlotsOfWheel) + SlotsOfWheel * rotation'[t]
  <2> SUFFICES ASSUME NEW s \in 0 .. SlotsOfWheel - 1, NEW t \in slots'[s]
               PROVE  /\ time_slot'[t] = s
                      /\ wait'[t] = Away(s, cur_slot') + SlotsOfWheel * rotation'[t]
      BY DEF Away
  <2>1. t \in slots[s] /\ t \notin Fired /\ t \in Timer /\ t \in Wheel!Live
        BY <1>0, <1>3 DEF Wheel!Live
  <2>2. time_slot[t] = s /\ wait[t] = Away(s, cur_slot) + SlotsOfWheel * rotation[t]
        BY <2>1 DEF Wheel!OnSchedule, Away
  <2>3. t \in slots[cur_slot] <=> s = cur_slot
    <3>1. t \in slots[cur_slot] => time_slot[t] = cur_slot
          BY <1>0 DEF Wheel!OnSchedule
    <3> QED BY <2>1, <2>2, <3>1
  <2>4. /\ time_slot'[t] = s /\ wait'[t] = wait[t] - 1
        /\ rotation'[t] = IF s = cur_slot THEN rotation[t] - 1 ELSE rotation[t]
        BY <1>1, <2>1, <2>2, <2>3
  <2>5. /\ Away(s, cur_slot') =
              IF s = cur_slot THEN SlotsOfWheel - 1 ELSE Away(s, cur_slot) - 1
        /\ Away(s, cur_slot) \in Int /\ (s = cur_slot => Away(s, cur_slot) = 0)
        BY <1>0, <1>1, AwayIs
  <2>6. rotation[t] \in Nat /\ SlotsOfWheel \in Nat
        BY <1>0, <2>1, Sizes
  <2>7. CASE s = cur_slot
    <3>1. /\ wait'[t] = (0 + SlotsOfWheel * rotation[t]) - 1
          /\ Away(s, cur_slot') = SlotsOfWheel - 1 /\ rotation'[t] = rotation[t] - 1
      <4>1. Away(s, cur_slot) = 0
            BY <2>5, <2>7
      <4>2. wait'[t] = (0 + SlotsOfWheel * rotation[t]) - 1
            BY <2>2, <2>4, <4>1, Zenon
      <4> QED BY <2>4, <2>5, <2>7, <4>2, Zenon
    <3>2. SlotsOfWheel * (rotation[t] - 1) = SlotsOfWheel * rotation[t] - SlotsOfWheel
          BY <2>6
    <3>3. SlotsOfWheel * rotation[t] \in Int
          BY <2>6
    <3> QED BY <2>4, <2>6, <3>1, <3>2, <3>3
  <2>8. CASE s # cur_slot
    <3>1. /\ wait'[t] = (Away(s, cur_slot) + SlotsOfWheel * rotation[t]) - 1
          /\ Away(s, cur_slot') = Away(s, cur_slot) - 1 /\ rotation'[t] = rotation[t]
          BY <2>2, <2>4, <2>5, <2>8, Zenon
    <3>2. SlotsOfWheel * rotation[t] \in Int
          BY <2>6
    <3> QED BY <2>4, <2>5, <3>1, <3>2
  <2> QED BY <2>7, <2>8
<1> QED BY <1>4, <1>5, <1>6, <1>7, <1>8 DEF Wheel!OnSchedule

LEMMA WheelStep == Wheel!OnSchedule /\ [Wheel!Next]_(Wheel!vars) => Wheel!OnSchedule'
<1> SUFFICES ASSUME Wheel!OnSchedule, [Wheel!Next]_(Wheel!vars) PROVE Wheel!OnSchedule'
    OBVIOUS
<1>1. CASE UNCHANGED Wheel!vars
      BY <1>1 DEF Wheel!vars, Wheel!OnSchedule
<1> QED BY <1>1, WheelAdds, WheelDeletes, WheelTurns DEF Wheel!Next

LEMMA WheelFires ==
    Wheel!OnSchedule /\ [Wheel!Next]_(Wheel!vars)
       => (cur_slot' # cur_slot => Wheel!Live' = {t \in Wheel!Live : wait[t] > 0})
<1> SUFFICES ASSUME Wheel!OnSchedule, Wheel!Next, cur_slot' # cur_slot
             PROVE  Wheel!Live' = {t \in Wheel!Live : wait[t] > 0}
    BY DEF Wheel!vars
<1>1. Wheel!tick
      BY DEF Wheel!Next, Wheel!addTimer, Wheel!delTimer
<1>2. Wheel!Live' = Wheel!Live \ Fired
      BY <1>1, WheelTurns
<1> QED BY <1>2, FiredAre

LEMMA WheelOfEach ==
    /\ EachInit => Wheel!Init
    /\ [EachNext]_all => [Wheel!Next]_(Wheel!vars)
BY DEF EachInit, EachNext, Step, all, wheel, Wheel!vars

\* A timer's slot and rotation say when it is due, for a wheel of any size and
\* timeouts of any length: addTimer, delTimer and tick keep the two in step.
THEOREM DueAsScheduled == EachSpec => []WheelOnSchedule
<1>1. EachInit => Wheel!OnSchedule
      BY WheelOfEach, WheelInit
<1>2. Wheel!OnSchedule /\ [EachNext]_all => Wheel!OnSchedule'
      BY WheelOfEach, WheelStep
<1> QED BY <1>1, <1>2, PTL DEF EachSpec, WheelOnSchedule

\* tick fires what is due and nothing else.
THEOREM FiredWhenDue == EachSpec => WheelFiresOnTime
<1>1. EachInit => Wheel!OnSchedule
      BY WheelOfEach, WheelInit
<1>2. Wheel!OnSchedule /\ [EachNext]_all => Wheel!OnSchedule'
      BY WheelOfEach, WheelStep
<1>3. Wheel!OnSchedule /\ [EachNext]_all
         => [cur_slot' # cur_slot => Wheel!Live' = {t \in Wheel!Live : wait[t] > 0}]_(Wheel!vars)
      BY WheelOfEach, WheelFires
<1> QED BY <1>1, <1>2, <1>3, PTL DEF EachSpec, WheelFiresOnTime, Wheel!FiresOnTime

-----------------------------------------------------------------------------
(* time_heap.h.                                                            *)

Bounded == MaxClock \in Nat /\ MaxDelay \in Nat

\* A timer with a callback is in the set, which is all that has to be known of
\* deletion.
HeapInv ==
    /\ array \subseteq Timer /\ armed \subseteq array
    /\ delay \in [Timer -> Heap!Time]
    /\ ticking \in BOOLEAN /\ started \in Heap!Time /\ clock \in 0 .. MaxClock

LEMMA Instants == ASSUME Bounded
                  PROVE  /\ Heap!Time \subseteq Nat /\ 0 \in Heap!Time
                         /\ 0 .. MaxClock \subseteq Heap!Time
                         /\ \A i \in 0 .. MaxClock, d \in 0 .. MaxDelay : i + d \in Heap!Time
BY DEF Bounded, Heap!Time

LEMMA HeapInvInit == ASSUME Bounded, Heap!Init PROVE HeapInv
<1>1. 0 \in Heap!Time /\ 0 \in 0 .. MaxClock
      BY Instants DEF Bounded
<1> QED BY <1>1 DEF Heap!Init, HeapInv

LEMMA HeapInvKept == ASSUME Bounded, HeapInv, [Heap!Next]_(Heap!vars) PROVE HeapInv'
<1>1. ASSUME NEW t \in Timer, NEW d \in 0 .. MaxDelay, Heap!addTimer(t, d) PROVE HeapInv'
  <2>1. clock + d \in Heap!Time
        BY Instants DEF HeapInv
  <2> QED BY <1>1, <2>1 DEF Heap!addTimer, HeapInv
<1>2. ASSUME NEW t \in Timer, Heap!delTimer(t) PROVE HeapInv'
      BY <1>2 DEF Heap!delTimer, HeapInv
<1>3. CASE Heap!tick
      BY <1>3, Instants DEF Heap!tick, HeapInv
<1>4. ASSUME NEW t \in Timer, Heap!Pop(t) PROVE HeapInv'
      BY <1>4, Instants DEF Heap!Pop, HeapInv
<1>5. CASE Heap!TickEnds
      BY <1>5, Instants DEF Heap!TickEnds, HeapInv
<1>6. CASE Heap!Clock
      BY <1>6 DEF Bounded, Heap!Clock, HeapInv
<1>7. CASE UNCHANGED Heap!vars
      BY <1>7 DEF Heap!vars, HeapInv
<1> QED BY <1>1, <1>2, <1>3, <1>4, <1>5, <1>6, <1>7 DEF Heap!Next

-----------------------------------------------------------------------------
\* array.begin() exists, and everything in the set is due no earlier.
LEMMA TopExists == ASSUME Bounded, HeapInv, NEW u \in array
                   PROVE  \E t \in Heap!Top : delay[t] <= delay[u]
<1> DEFINE due == {delay[t] : t \in array}
<1>1. \A t \in array : delay[t] \in Nat
      BY Instants DEF HeapInv
<1>2. due \in SUBSET Nat /\ due # {}
      BY <1>1
<1>3. PICK x \in due : \A y \in due : ~(y < x)
      BY <1>2, HasSmallest
<1>4. PICK t \in array : x = delay[t]
      OBVIOUS
<1>5. \A v \in array : delay[t] <= delay[v]
      BY <1>1, <1>3, <1>4
<1> QED BY <1>4, <1>5 DEF Heap!Top

Armed == [t \in armed |-> delay[t]]

LEMMA HeapInitMaps == ASSUME Bounded, Heap!Init PROVE Heap!Contents!Init
BY Instants DEF Heap!Init, Heap!Contents!Init

LEMMA AddMaps ==
    ASSUME Bounded, HeapInv, NEW t \in Timer, NEW d \in 0 .. MaxDelay, Heap!addTimer(t, d)
    PROVE  \E e \in Heap!Time : Heap!Contents!Arm(t, e)
<1>1. PICK e \in Heap!Time : e = clock + d
      BY Instants DEF HeapInv
<1>2. t \notin armed /\ armed' = armed \cup {t} /\ delay' = [delay EXCEPT ![t] = e]
      BY <1>1 DEF Heap!addTimer, HeapInv
<1>3. Armed' = [u \in armed \cup {t} |-> IF u = t THEN e ELSE Armed[u]]
      BY <1>2 DEF Armed, HeapInv
<1>4. Heap!Contents!Arm(t, e)
      BY <1>2, <1>3 DEF Heap!Contents!Arm, Heap!addTimer, Armed
<1> QED BY <1>4

LEMMA DelMaps == ASSUME HeapInv, NEW t \in Timer, Heap!delTimer(t) PROVE Heap!Contents!Cancel(t)
<1>1. Armed' = [u \in armed \ {t} |-> Armed[u]]
      BY DEF Heap!delTimer, Armed, HeapInv
<1> QED BY <1>1 DEF Heap!delTimer, Heap!Contents!Cancel, Heap!Contents!Without, Armed

\* Popping calls the callback, if there is one; a deleted timer leaves unseen.
LEMMA PopMaps ==
    ASSUME Bounded, HeapInv, NEW t \in Timer, Heap!Pop(t)
    PROVE  Heap!Contents!Fire(t) \/ UNCHANGED Heap!Contents!vars
<1>1. Armed' = [u \in armed \ {t} |-> Armed[u]]
      BY DEF Heap!Pop, Armed, HeapInv
<1>2. CASE t \in armed
  <2>1. delay[t] <= started
        BY Instants DEF Heap!Pop, Heap!NotYet, HeapInv
  <2>2. \A u \in armed : delay[t] <= delay[u]
        BY DEF Heap!Pop, Heap!Top, HeapInv
  <2> QED BY <1>1, <1>2, <2>1, <2>2 DEF Heap!Pop, Heap!Contents!Fire, Heap!Contents!Without, Armed
<1>3. CASE t \notin armed
  <2>1. armed \ {t} = armed
        BY <1>3
  <2>2. Armed' = Armed
        BY <1>1, <2>1 DEF Armed
  <2> QED BY <2>2 DEF Heap!Pop, Heap!Contents!vars, Armed
<1> QED BY <1>2, <1>3

LEMMA TickEndsMaps == ASSUME Bounded, HeapInv, Heap!TickEnds PROVE Heap!Contents!Finish
<1>1. ASSUME NEW u \in armed PROVE delay[u] > started
  <2>1. u \in array
        BY DEF HeapInv
  <2>2. PICK t \in Heap!Top : delay[t] <= delay[u]
        BY <2>1, TopExists
  <2>3. started < delay[t]
        BY DEF Heap!TickEnds, Heap!NotYet
  <2>4. {delay[t], delay[u], started} \subseteq Nat
        BY <2>1, Instants DEF Heap!Top, HeapInv
  <2> QED BY <2>2, <2>3, <2>4
<1>2. Armed' = Armed /\ DOMAIN Armed = armed
      BY DEF Heap!TickEnds, Armed
<1> QED BY <1>1, <1>2, Instants DEF Heap!TickEnds, Heap!Contents!Finish, Armed

LEMMA HeapNextMaps == ASSUME Bounded, HeapInv, [Heap!Next]_(Heap!vars) PROVE [Heap!Contents!Next]_(Heap!Contents!vars)
<1>1. ASSUME NEW t \in Timer, NEW d \in 0 .. MaxDelay, Heap!addTimer(t, d)
      PROVE  Heap!Contents!Next
      BY <1>1, AddMaps DEF Heap!Contents!Next
<1>2. ASSUME NEW t \in Timer, Heap!delTimer(t) PROVE Heap!Contents!Next
      BY <1>2, DelMaps DEF Heap!Contents!Next
<1>3. CASE Heap!tick
      BY <1>3 DEF Heap!tick, Heap!Contents!Start, Heap!Contents!Next
<1>4. ASSUME NEW t \in Timer, Heap!Pop(t) PROVE [Heap!Contents!Next]_(Heap!Contents!vars)
      BY <1>4, PopMaps DEF Heap!Contents!Next
<1>5. CASE Heap!TickEnds
      BY <1>5, TickEndsMaps DEF Heap!Contents!Next
<1>6. CASE Heap!Clock
      BY <1>6 DEF Heap!Clock, Heap!Contents!Advance, Heap!Contents!Next
<1>7. CASE UNCHANGED Heap!vars
      BY <1>7 DEF Heap!vars, Heap!Contents!vars
<1> QED BY <1>1, <1>2, <1>3, <1>4, <1>5, <1>6, <1>7 DEF Heap!Next

LEMMA HeapOfEach ==
    /\ EachInit => Heap!Init
    /\ [EachNext]_all => [Heap!Next]_(Heap!vars)
BY DEF EachInit, EachNext, Step, all, heap, Heap!vars

\* The time heap of time_heap.h keeps the promise of Timers: a timer is lost only
\* when it is deleted or its callback is called, and tick calls the callbacks that
\* are due, the earliest first, whatever deleted timers stand before them.
THEOREM HeapRefinesTimers == EachSpec => HeapImplementsTimers
<1>1. Bounded
      BY Sizes DEF Bounded
<1>2. EachInit => HeapInv /\ Heap!Contents!Init
      BY <1>1, HeapOfEach, HeapInvInit, HeapInitMaps
<1>3. HeapInv /\ [EachNext]_all => HeapInv' /\ [Heap!Contents!Next]_(Heap!Contents!vars)
      BY <1>1, HeapOfEach, HeapInvKept, HeapNextMaps
<1> QED BY <1>2, <1>3, PTL
        DEF EachSpec, HeapImplementsTimers, Heap!ImplementsTimers, Heap!Contents!Spec

-----------------------------------------------------------------------------
(* joining_thread.cpp, scoped_thread.cpp, code_2_2.cpp and code_2_5.cpp.   *)

\* A variable in scope owns what was started and not given up, and no two
\* variables own the same thread.
OwnedOnce(lv, o, rn, jn, dt) ==
    /\ lv \subseteq Owner!Handle /\ o \in [Owner!Handle -> Started \cup {None}]
    /\ rn \in [Started -> {"new", "running", "returned"}]
    /\ jn \subseteq Started /\ dt \subseteq Started
    /\ \A h \in Owner!Handle : o[h] # None =>
          h \in lv /\ rn[o[h]] # "new" /\ o[h] \notin jn \cup dt
    /\ \A h, g \in Owner!Handle : o[h] = o[g] /\ o[h] # None => h = g
    /\ \A t \in Started : rn[t] # "new" /\ t \notin jn \cup dt => \E h \in Owner!Handle : o[h] = t
    /\ \A t \in jn : rn[t] = "returned"
    /\ \A t \in dt : rn[t] # "new"

\* Once std::terminate was called nothing is promised but that no class of ch2 did.
OwnerInv ==
    /\ Owner!TypeOK
    /\ terminated \in Raw \cup {None}
    /\ terminated = None => OwnedOnce(handles, owns, run, joined, detached)

LEMMA OwnerNone ==
    /\ None \notin Started /\ None \notin Owner!Handle
    /\ \A h \in Owner!Handle : h \in Raw <=> ~ Owner!Joins(h)
BY StructuresAssumption DEF StructuresAssumption, Owner!Handle, Owner!Joins

\* join and detach take the thread from its variable.
LEMMA GivenUp ==
    ASSUME NEW lv, NEW o, NEW rn, NEW jn, NEW dt, OwnedOnce(lv, o, rn, jn, dt),
           NEW h \in Owner!Handle, o[h] # None, NEW jx, NEW dx,
           \/ jx = jn \cup {o[h]} /\ dx = dt /\ rn[o[h]] = "returned"
           \/ jx = jn /\ dx = dt \cup {o[h]}
    PROVE  OwnedOnce(lv, [o EXCEPT ![h] = None], rn, jx, dx)
<1> DEFINE p == [o EXCEPT ![h] = None]
<1>1. /\ o \in [Owner!Handle -> Started \cup {None}] /\ o[h] \in Started /\ rn[o[h]] # "new"
      /\ None \notin Started
      BY OwnerNone DEF OwnedOnce
<1>2. /\ p \in [Owner!Handle -> Started \cup {None}] /\ p[h] = None
      /\ \A g \in Owner!Handle : g # h => p[g] = o[g]
      BY <1>1
<1> HIDE DEF p
<1>3. ASSUME NEW g \in Owner!Handle, p[g] # None
      PROVE  /\ g # h /\ p[g] = o[g] /\ g \in lv /\ rn[p[g]] # "new"
             /\ p[g] \notin jx \cup dx
  <2>1. g # h /\ p[g] = o[g]
        BY <1>2, <1>3
  <2>2. o[g] # o[h] /\ g \in lv /\ rn[o[g]] # "new" /\ o[g] \notin jn \cup dt
        BY <1>3, <2>1 DEF OwnedOnce
  <2> QED BY <2>1, <2>2
<1>4. \A f, g \in Owner!Handle : p[f] = p[g] /\ p[f] # None => f = g
      BY <1>3 DEF OwnedOnce
<1>5. ASSUME NEW t \in Started, rn[t] # "new", t \notin jx \cup dx
      PROVE  \E g \in Owner!Handle : p[g] = t
  <2>1. t # o[h] /\ t \notin jn \cup dt
        BY <1>5
  <2>2. PICK g \in Owner!Handle : o[g] = t
        BY <1>5, <2>1 DEF OwnedOnce
  <2> QED BY <1>2, <2>1, <2>2
<1>6. /\ \A t \in jx : rn[t] = "returned"
      /\ \A t \in dx : rn[t] # "new"
      /\ jx \subseteq Started /\ dx \subseteq Started
      BY <1>1 DEF OwnedOnce
<1>7. lv \subseteq Owner!Handle /\ rn \in [Started -> {"new", "running", "returned"}]
      BY DEF OwnedOnce
<1> QED BY <1>2, <1>3, <1>4, <1>5, <1>6, <1>7 DEF OwnedOnce, p

\* A new thread goes to a variable that owns none.
LEMMA Acquired ==
    ASSUME NEW lv, NEW o, NEW rn, NEW jn, NEW dt, OwnedOnce(lv, o, rn, jn, dt),
           NEW h \in lv, o[h] = None, NEW t \in Started, rn[t] = "new"
    PROVE  OwnedOnce(lv, [o EXCEPT ![h] = t], [rn EXCEPT ![t] = "running"], jn, dt)
<1> DEFINE p == [o EXCEPT ![h] = t]
           r == [rn EXCEPT ![t] = "running"]
<1>1. /\ o \in [Owner!Handle -> Started \cup {None}] /\ h \in Owner!Handle /\ lv \subseteq Owner!Handle
      /\ None \notin Started /\ rn \in [Started -> {"new", "running", "returned"}]
      /\ jn \subseteq Started /\ dt \subseteq Started /\ t # None
      BY OwnerNone DEF OwnedOnce
<1>2. /\ p \in [Owner!Handle -> Started \cup {None}] /\ p[h] = t
      /\ \A g \in Owner!Handle : g # h => p[g] = o[g]
      /\ r \in [Started -> {"new", "running", "returned"}] /\ r[t] = "running"
      /\ \A u \in Started : u # t => r[u] = rn[u]
      BY <1>1
<1> HIDE DEF p, r
<1>3. t \notin jn \cup dt
      BY DEF OwnedOnce
<1>4. ASSUME NEW g \in Owner!Handle, p[g] # None
      PROVE  /\ g \in lv /\ r[p[g]] # "new" /\ p[g] \notin jn \cup dt
             /\ p[g] = t => g = h
  <2>1. CASE g = h
        BY <1>2, <1>3, <2>1
  <2>2. CASE g # h
    <3>1. p[g] = o[g] /\ o[g] # None /\ o[g] \in Started
          BY <1>1, <1>2, <1>4, <2>2
    <3>2. g \in lv /\ rn[o[g]] # "new" /\ o[g] \notin jn \cup dt
          BY <3>1 DEF OwnedOnce
    <3>3. o[g] # t
          BY <3>2
    <3> QED BY <1>2, <3>1, <3>2, <3>3
  <2> QED BY <2>1, <2>2
<1>5. \A f, g \in Owner!Handle : p[f] = p[g] /\ p[f] # None => f = g
  <2> SUFFICES ASSUME NEW f \in Owner!Handle, NEW g \in Owner!Handle, p[f] = p[g], p[f] # None
               PROVE  f = g
      OBVIOUS
  <2>1. CASE p[f] = t
        BY <1>1, <1>4, <2>1
  <2>2. CASE p[f] # t
    <3>1. f # h /\ g # h /\ o[f] = o[g] /\ o[f] # None
          BY <1>2, <2>2
    <3> QED BY <3>1 DEF OwnedOnce
  <2> QED BY <2>1, <2>2
<1>6. ASSUME NEW u \in Started, r[u] # "new", u \notin jn \cup dt
      PROVE  \E g \in Owner!Handle : p[g] = u
  <2>1. CASE u = t
        BY <1>1, <1>2, <2>1
  <2>2. CASE u # t
    <3>1. rn[u] # "new"
          BY <1>2, <1>6, <2>2
    <3>2. PICK g \in Owner!Handle : o[g] = u
          BY <1>6, <3>1 DEF OwnedOnce
    <3>3. g # h
          BY <1>1, <3>2
    <3> QED BY <1>2, <3>2, <3>3
  <2> QED BY <2>1, <2>2
<1>7. /\ \A u \in jn : r[u] = "returned"
      /\ \A u \in dt : r[u] # "new"
      BY <1>1, <1>2, <1>3 DEF OwnedOnce
<1> QED BY <1>1, <1>2, <1>4, <1>5, <1>6, <1>7 DEF OwnedOnce, p, r

\* A move: to a variable that owns nothing.
LEMMA Moved ==
    ASSUME NEW lv, NEW o, NEW rn, NEW jn, NEW dt, OwnedOnce(lv, o, rn, jn, dt),
           NEW g \in Owner!Handle, NEW h \in Owner!Handle, o[h] = None,
           NEW lx, lv \subseteq lx, h \in lx, lx \subseteq Owner!Handle
    PROVE  OwnedOnce(lx, [[o EXCEPT ![g] = None] EXCEPT ![h] = o[g]], rn, jn, dt)
<1> DEFINE p == [[o EXCEPT ![g] = None] EXCEPT ![h] = o[g]]
           Was(f) == IF f = h THEN g ELSE f
<1>1. o \in [Owner!Handle -> Started \cup {None}]
      BY DEF OwnedOnce
<1>2. /\ p \in [Owner!Handle -> Started \cup {None}] /\ p[h] = o[g]
      /\ \A f \in Owner!Handle : f # h => p[f] = IF f = g THEN None ELSE o[f]
      BY <1>1
<1> HIDE DEF p
<1>3. ASSUME NEW f \in Owner!Handle, p[f] # None
      PROVE  /\ p[f] = o[Was(f)] /\ Was(f) \in Owner!Handle /\ f \in lx
             /\ Was(f) # h /\ (f # h => f # g)
  <2>1. CASE f = h
        BY <1>2, <1>3, <2>1
  <2>2. CASE f # h
    <3>1. f # g /\ p[f] = o[f]
          BY <1>2, <1>3, <2>2
    <3>2. f \in lv
          BY <1>3, <3>1 DEF OwnedOnce
    <3> QED BY <2>2, <3>1, <3>2
  <2> QED BY <2>1, <2>2
<1>4. ASSUME NEW f \in Owner!Handle, p[f] # None
      PROVE  f \in lx /\ rn[p[f]] # "new" /\ p[f] \notin jn \cup dt
      BY <1>3, <1>4 DEF OwnedOnce
<1>5. \A e, f \in Owner!Handle : p[e] = p[f] /\ p[e] # None => e = f
  <2> SUFFICES ASSUME NEW e \in Owner!Handle, NEW f \in Owner!Handle, p[e] = p[f], p[e] # None
               PROVE  e = f
      OBVIOUS
  <2>1. o[Was(e)] = o[Was(f)] /\ o[Was(e)] # None
        BY <1>3
  <2>2. Was(e) \in Owner!Handle /\ Was(f) \in Owner!Handle
        BY <1>3
  <2>3. Was(e) = Was(f)
        BY <2>1, <2>2 DEF OwnedOnce
  <2> QED BY <1>3, <2>3
<1>6. ASSUME NEW t \in Started, rn[t] # "new", t \notin jn \cup dt
      PROVE  \E f \in Owner!Handle : p[f] = t
  <2>1. PICK f \in Owner!Handle : o[f] = t
        BY <1>6 DEF OwnedOnce
  <2>2. f # h
        BY <2>1, OwnerNone
  <2>3. CASE f = g
        BY <1>2, <2>1, <2>3
  <2>4. CASE f # g
        BY <1>2, <2>1, <2>2, <2>4
  <2> QED BY <2>3, <2>4
<1>7. /\ \A t \in jn : rn[t] = "returned"
      /\ \A t \in dt : rn[t] # "new"
      /\ jn \subseteq Started /\ dt \subseteq Started
      /\ rn \in [Started -> {"new", "running", "returned"}]
      BY DEF OwnedOnce
<1> QED BY <1>2, <1>4, <1>5, <1>6, <1>7 DEF OwnedOnce, p

LEMMA Swapped ==
    ASSUME NEW lv, NEW o, NEW rn, NEW jn, NEW dt, OwnedOnce(lv, o, rn, jn, dt),
           NEW g \in lv, NEW h \in lv
    PROVE  OwnedOnce(lv, [o EXCEPT ![h] = o[g], ![g] = o[h]], rn, jn, dt)
<1> DEFINE p == [o EXCEPT ![h] = o[g], ![g] = o[h]]
           Was(f) == IF f = h THEN g ELSE IF f = g THEN h ELSE f
<1>1. /\ o \in [Owner!Handle -> Started \cup {None}]
      /\ lv \subseteq Owner!Handle /\ g \in Owner!Handle /\ h \in Owner!Handle
      BY DEF OwnedOnce
<1>2. /\ p \in [Owner!Handle -> Started \cup {None}]
      /\ \A f \in Owner!Handle : p[f] = o[Was(f)] /\ Was(f) \in Owner!Handle /\ Was(Was(f)) = f
      BY <1>1
<1> HIDE DEF p
<1>3. ASSUME NEW f \in Owner!Handle, p[f] # None
      PROVE  f \in lv /\ rn[p[f]] # "new" /\ p[f] \notin jn \cup dt
  <2>1. /\ o[Was(f)] # None /\ Was(f) \in Owner!Handle /\ p[f] = o[Was(f)]
        BY <1>2, <1>3
  <2>2. Was(f) \in lv /\ rn[p[f]] # "new" /\ p[f] \notin jn \cup dt
        BY <2>1 DEF OwnedOnce
  <2> QED BY <2>2
<1>4. \A e, f \in Owner!Handle : p[e] = p[f] /\ p[e] # None => e = f
  <2> SUFFICES ASSUME NEW e \in Owner!Handle, NEW f \in Owner!Handle, p[e] = p[f], p[e] # None
               PROVE  e = f
      OBVIOUS
  <2>1. o[Was(e)] = o[Was(f)] /\ o[Was(e)] # None /\ Was(e) \in Owner!Handle /\ Was(f) \in Owner!Handle
        BY <1>2
  <2>2. Was(e) = Was(f)
        BY <2>1 DEF OwnedOnce
  <2> QED BY <2>2
<1>5. ASSUME NEW t \in Started, rn[t] # "new", t \notin jn \cup dt
      PROVE  \E f \in Owner!Handle : p[f] = t
  <2>1. PICK f \in Owner!Handle : o[f] = t
        BY <1>5 DEF OwnedOnce
  <2>2. p[Was(f)] = t /\ Was(f) \in Owner!Handle
        BY <1>2, <2>1
  <2> QED BY <2>2
<1>6. /\ \A t \in jn : rn[t] = "returned"
      /\ \A t \in dt : rn[t] # "new"
      /\ jn \subseteq Started /\ dt \subseteq Started
      /\ rn \in [Started -> {"new", "running", "returned"}]
      BY DEF OwnedOnce
<1> QED BY <1>1, <1>2, <1>3, <1>4, <1>5, <1>6 DEF OwnedOnce, p

\* The step may have been the last, if it was of a std::thread.
LEMMA OwnerStep ==
    ASSUME guarded' \subseteq Raw, terminated' \in Raw \cup {None},
           \/ OwnedOnce(handles', owns', run', joined', detached')
           \/ /\ terminated' # None /\ handles' \subseteq Owner!Handle
              /\ owns' \in [Owner!Handle -> Started \cup {None}]
              /\ run' \in [Started -> {"new", "running", "returned"}]
              /\ joined' \subseteq Started /\ detached' \subseteq Started
    PROVE  OwnerInv'
<1>1. /\ handles' \subseteq Owner!Handle
      /\ owns' \in [Owner!Handle -> Started \cup {None}]
      /\ run' \in [Started -> {"new", "running", "returned"}]
      /\ joined' \subseteq Started /\ detached' \subseteq Started
      BY DEF OwnedOnce
<1>2. Owner!TypeOK'
      BY <1>1 DEF Owner!TypeOK, Owner!Handle
<1>3. terminated' = None => OwnedOnce(handles', owns', run', joined', detached')
      OBVIOUS
<1> QED BY <1>2, <1>3 DEF OwnerInv, OwnedOnce

\* What assigning to a variable, or destroying it, does first.
LEMMA JoinsFirst ==
    ASSUME OwnerInv, Owner!Running, NEW h \in Owner!Handle,
           Owner!Joins(h) => Owner!CanJoin(h)
    PROVE  /\ OwnedOnce(handles, Owner!Before(h), run, Owner!JoinedAt(h), detached)
           /\ Owner!Before(h)[h] # None => h \in Raw
<1>1. OwnedOnce(handles, owns, run, joined, detached)
      BY DEF OwnerInv, Owner!Running
<1>2. owns \in [Owner!Handle -> Started \cup {None}]
      BY <1>1 DEF OwnedOnce
<1>3. CASE Owner!Joins(h) /\ owns[h] # None
  <2>1. /\ Owner!Before(h) = [owns EXCEPT ![h] = None] /\ run[owns[h]] = "returned"
        /\ Owner!JoinedAt(h) = joined \cup {owns[h]}
        BY <1>3 DEF Owner!Before, Owner!AfterJoin, Owner!JoinedAt, Owner!joinable, Owner!CanJoin
  <2>2. OwnedOnce(handles, [owns EXCEPT ![h] = None], run, joined \cup {owns[h]}, detached)
        BY <1>1, <1>3, <2>1, GivenUp
  <2>3. [owns EXCEPT ![h] = None][h] = None
        BY <1>2
  <2> QED BY <2>1, <2>2, <2>3
<1>4. CASE ~ (Owner!Joins(h) /\ owns[h] # None)
  <2>1. Owner!Before(h) = owns
        BY <1>2, <1>4 DEF Owner!Before, Owner!AfterJoin
  <2>2. Owner!JoinedAt(h) = joined
        BY <1>4 DEF Owner!JoinedAt, Owner!joinable
  <2> QED BY <1>1, <1>4, <2>1, <2>2, OwnerNone
<1> QED BY <1>3, <1>4

LEMMA StartOwned ==
    ASSUME OwnerInv, NEW h \in Owner!Handle, NEW t \in Started, Owner!Start(h, t)
    PROVE  OwnerInv'
<1> DEFINE own == Owner!Before(h)
<1>1. /\ Owner!Running /\ h \in handles /\ run[t] = "new"
      /\ run' = [run EXCEPT ![t] = "running"] /\ joined' = Owner!JoinedAt(h)
      /\ Owner!StdAssign(h, own, t) /\ UNCHANGED <<handles, guarded, detached>>
      BY DEF Owner!Start
<1>2. OwnedOnce(handles, own, run, joined', detached) /\ (own[h] # None => h \in Raw)
      BY <1>1, JoinsFirst DEF Owner!Start
<1>3. guarded' \subseteq Raw /\ terminated \in Raw \cup {None} /\ terminated = None
      BY <1>1 DEF OwnerInv, Owner!TypeOK, Owner!Running
<1> HIDE DEF own
<1>4. CASE own[h] # None
  <2>1. terminated' = h /\ owns' = own
        BY <1>1, <1>4 DEF Owner!StdAssign, Owner!StdTerminates
  <2>2. run' \in [Started -> {"new", "running", "returned"}]
        BY <1>1, <1>2 DEF OwnedOnce
  <2>3. h # None
        BY OwnerNone
  <2> QED BY <1>1, <1>2, <1>3, <1>4, <2>1, <2>2, <2>3, OwnerStep DEF OwnedOnce
<1>5. CASE own[h] = None
  <2>1. terminated' = terminated /\ owns' = [own EXCEPT ![h] = t]
        BY <1>1, <1>5 DEF Owner!StdAssign, Owner!StdTerminates
  <2>2. OwnedOnce(handles, owns', run', joined', detached)
        BY <1>1, <1>2, <1>5, <2>1, Acquired
  <2> QED BY <1>1, <1>3, <2>1, <2>2, OwnerStep
<1> QED BY <1>4, <1>5

LEMMA MoveAssignOwned ==
    ASSUME OwnerInv, NEW h \in Owner!Handle, NEW g \in Owner!Handle, Owner!MoveAssign(h, g)
    PROVE  OwnerInv'
<1> DEFINE own == Owner!Before(h)
           rest == [own EXCEPT ![g] = IF own[h] # None THEN @ ELSE None]
<1>1. /\ Owner!Running /\ {h, g} \subseteq handles /\ joined' = Owner!JoinedAt(h)
      /\ Owner!StdAssign(h, rest, own[g]) /\ UNCHANGED <<handles, guarded, run, detached>>
      BY DEF Owner!MoveAssign, Owner!StdTerminates
<1>2. OwnedOnce(handles, own, run, joined', detached) /\ (own[h] # None => h \in Raw)
      BY <1>1, JoinsFirst DEF Owner!MoveAssign
<1>3. guarded' \subseteq Raw /\ terminated = None /\ h # None
      BY <1>1, OwnerNone DEF OwnerInv, Owner!TypeOK, Owner!Running
<1>4. own \in [Owner!Handle -> Started \cup {None}]
      BY <1>2 DEF OwnedOnce
<1> HIDE DEF own
<1>5. CASE own[h] # None
  <2>1. rest = own
        BY <1>4, <1>5
  <2>2. terminated' = h /\ owns' = own
        BY <1>1, <1>5, <2>1 DEF Owner!StdAssign, Owner!StdTerminates
  <2> QED BY <1>1, <1>2, <1>3, <1>5, <2>2, OwnerStep
<1>6. CASE own[h] = None
  <2>1. rest = [own EXCEPT ![g] = None] /\ rest[h] = None
        BY <1>4, <1>6
  <2>2. terminated' = terminated /\ owns' = [rest EXCEPT ![h] = own[g]]
        BY <1>1, <2>1 DEF Owner!StdAssign, Owner!StdTerminates
  <2>3. OwnedOnce(handles, [[own EXCEPT ![g] = None] EXCEPT ![h] = own[g]], run, joined', detached)
        BY <1>1, <1>2, <1>6, Moved DEF OwnedOnce
  <2> QED BY <1>1, <1>3, <2>1, <2>2, <2>3, OwnerStep
<1> QED BY <1>5, <1>6

LEMMA MoveConstructOwned ==
    ASSUME OwnerInv, NEW h \in Owner!Handle, NEW g \in Owner!Handle,
           Owner!MoveConstruct(h, g) \/ Owner!ConstructScoped(h, g)
    PROVE  OwnerInv'
<1>1. /\ Owner!Running /\ h \notin handles /\ g \in handles /\ handles' = handles \cup {h}
      /\ owns' = [owns EXCEPT ![h] = owns[g], ![g] = None]
      /\ UNCHANGED <<guarded, run, joined, detached, terminated>>
      BY DEF Owner!MoveConstruct, Owner!ConstructScoped
<1>2. OwnedOnce(handles, owns, run, joined, detached)
      BY <1>1 DEF OwnerInv, Owner!Running
<1>3. owns[h] = None /\ h # g /\ handles \subseteq Owner!Handle
      /\ owns \in [Owner!Handle -> Started \cup {None}]
      BY <1>1, <1>2 DEF OwnedOnce
<1>4. owns' = [[owns EXCEPT ![g] = None] EXCEPT ![h] = owns[g]]
      BY <1>1, <1>3
<1>5. OwnedOnce(handles \cup {h}, [[owns EXCEPT ![g] = None] EXCEPT ![h] = owns[g]],
                run, joined, detached)
  <2>1. /\ handles \subseteq handles \cup {h} /\ h \in handles \cup {h}
        /\ handles \cup {h} \subseteq Owner!Handle
        BY <1>3
  <2> QED BY <1>2, <1>3, <2>1, Moved
<1> QED BY <1>1, <1>4, <1>5, OwnerStep DEF OwnerInv, Owner!TypeOK

LEMMA SwapOwned ==
    ASSUME OwnerInv, NEW h \in Owner!Handle, NEW g \in Owner!Handle, Owner!Swap(h, g)
    PROVE  OwnerInv'
<1>1. OwnedOnce(handles, owns, run, joined, detached)
      BY DEF OwnerInv, Owner!Swap, Owner!Running
<1>2. OwnedOnce(handles, owns', run, joined, detached)
      BY <1>1, Swapped DEF Owner!Swap
<1> QED BY <1>2, OwnerStep DEF Owner!Swap, OwnerInv, Owner!TypeOK

\* join and detach, by name or by a guard.
LEMMA GivesUpOwned ==
    ASSUME OwnerInv, NEW h \in Owner!Handle,
           Owner!Join(h) \/ Owner!Detach(h) \/ Owner!Unguard(h)
    PROVE  OwnerInv'
<1>1. OwnedOnce(handles, owns, run, joined, detached) /\ terminated = None
      BY DEF OwnerInv, Owner!Join, Owner!Detach, Owner!Unguard, Owner!Running
<1>2. owns \in [Owner!Handle -> Started \cup {None}]
      BY <1>1 DEF OwnedOnce
<1>3. /\ guarded' \subseteq Raw
      /\ UNCHANGED <<handles, run, terminated>> /\ owns' = [owns EXCEPT ![h] = None]
      BY DEF OwnerInv, Owner!TypeOK, Owner!Join, Owner!Detach, Owner!Unguard, Owner!AfterJoin
<1>4. CASE owns[h] # None
  <2>1. \/ joined' = joined \cup {owns[h]} /\ detached' = detached /\ run[owns[h]] = "returned"
        \/ joined' = joined /\ detached' = detached \cup {owns[h]}
        BY <1>4 DEF Owner!Join, Owner!Detach, Owner!Unguard, Owner!joinable, Owner!CanJoin
  <2>2. OwnedOnce(handles, [owns EXCEPT ![h] = None], run, joined', detached')
        BY <1>1, <1>4, <2>1, GivenUp
  <2> QED BY <1>1, <1>3, <2>2, OwnerStep
<1>5. CASE owns[h] = None
  <2>1. joined' = joined /\ detached' = detached
        BY <1>5 DEF Owner!Join, Owner!Detach, Owner!Unguard, Owner!joinable
  <2>2. owns' = owns
        BY <1>2, <1>3, <1>5
  <2> QED BY <1>1, <1>3, <2>1, <2>2, OwnerStep
<1> QED BY <1>4, <1>5

LEMMA DestroyOwned ==
    ASSUME OwnerInv, NEW h \in Owner!Handle, Owner!Destroy(h)
    PROVE  OwnerInv'
<1> DEFINE own == Owner!Before(h)
<1>1. /\ Owner!Running /\ joined' = Owner!JoinedAt(h) /\ Owner!StdDestroy(h, own)
      /\ UNCHANGED <<guarded, run, detached>>
      BY DEF Owner!Destroy
<1>2. OwnedOnce(handles, own, run, joined', detached) /\ (own[h] # None => h \in Raw)
      BY <1>1, JoinsFirst DEF Owner!Destroy
<1>3. guarded' \subseteq Raw /\ terminated = None /\ h # None
      BY <1>1, OwnerNone DEF OwnerInv, Owner!TypeOK, Owner!Running
<1>4. /\ handles' = handles \ {h} /\ owns' = own
      /\ terminated' = IF own[h] # None THEN h ELSE terminated
      BY <1>1 DEF Owner!StdDestroy, Owner!StdTerminates
<1> HIDE DEF own
<1>5. CASE own[h] # None
      BY <1>1, <1>2, <1>3, <1>4, <1>5, OwnerStep DEF OwnedOnce
<1>6. CASE own[h] = None
  <2>1. OwnedOnce(handles \ {h}, own, run, joined', detached)
        BY <1>2, <1>6 DEF OwnedOnce
  <2> QED BY <1>1, <1>3, <1>4, <1>6, <2>1, OwnerStep
<1> QED BY <1>5, <1>6

LEMMA ReturnOwned ==
    ASSUME OwnerInv, NEW t \in Started, Owner!Returns(t)
    PROVE  OwnerInv'
<1>1. OwnedOnce(handles, owns, run, joined, detached) /\ run[t] = "running"
      /\ run' = [run EXCEPT ![t] = "returned"]
      BY DEF OwnerInv, Owner!Returns, Owner!Running
<1>2. run \in [Started -> {"new", "running", "returned"}]
      BY <1>1 DEF OwnedOnce
<1>3. /\ run' \in [Started -> {"new", "running", "returned"}]
      /\ \A u \in Started : (run'[u] = "new" <=> run[u] = "new")
      /\ \A u \in Started : run[u] = "returned" => run'[u] = "returned"
      BY <1>1, <1>2
<1>4. OwnedOnce(handles, owns, run', joined, detached)
  <2>1. \A h \in Owner!Handle : owns[h] # None => owns[h] \in Started
        BY <1>1 DEF OwnedOnce
  <2> QED BY <1>1, <1>3, <2>1 DEF OwnedOnce
<1> QED BY <1>4, OwnerStep DEF Owner!Returns, OwnerInv, Owner!TypeOK

LEMMA OwnerInvInit == Owner!Init => OwnerInv
BY OwnerNone DEF Owner!Init, OwnerInv, OwnedOnce, Owner!TypeOK, Owner!Handle

LEMMA OwnerInvKept == OwnerInv /\ [Owner!Next]_(Owner!vars) => OwnerInv'
<1> SUFFICES ASSUME OwnerInv, [Owner!Next]_(Owner!vars) PROVE OwnerInv'
    OBVIOUS
<1>1. ASSUME NEW h \in Owner!Handle, Owner!Construct(h) PROVE OwnerInv'
  <2>1. OwnedOnce(handles, owns, run, joined, detached)
        BY <1>1 DEF OwnerInv, Owner!Construct, Owner!Running
  <2>2. OwnedOnce(handles \cup {h}, owns, run, joined, detached)
        BY <2>1 DEF OwnedOnce
  <2> QED BY <1>1, <2>2, OwnerStep DEF Owner!Construct, OwnerInv, Owner!TypeOK
<1>2. ASSUME NEW h \in Owner!Handle, Owner!Guard(h) PROVE OwnerInv'
      BY <1>2 DEF Owner!Guard, OwnerInv, Owner!TypeOK
<1>3. CASE UNCHANGED Owner!vars
      BY <1>3 DEF Owner!vars, OwnerInv, Owner!TypeOK
<1>4. ASSUME NEW h \in Owner!Handle, NEW g \in Owner!Handle,
             \/ Owner!MoveAssign(h, g) \/ Owner!MoveConstruct(h, g)
             \/ Owner!ConstructScoped(h, g) \/ Owner!Swap(h, g)
      PROVE  OwnerInv'
      BY <1>4, MoveAssignOwned, MoveConstructOwned, SwapOwned
<1> QED BY <1>1, <1>2, <1>3, <1>4, StartOwned, GivesUpOwned, DestroyOwned, ReturnOwned
        DEF Owner!Next, Owner!main

LEMMA OwnerOfEach ==
    /\ EachInit => Owner!Init
    /\ [EachNext]_all => [Owner!Next]_(Owner!vars)
BY DEF EachInit, EachNext, Step, all, owner, Owner!vars

\* Whatever calls main makes, in whatever order: a thread that was started is owned
\* once, until it is joined, when it has returned, or detached; and none of the
\* classes that join ever calls std::terminate.
THEOREM OwnedByOne == EachSpec => []OneOwnerEach
<1>1. EachInit => OwnerInv
      BY OwnerOfEach, OwnerInvInit
<1>2. OwnerInv /\ [EachNext]_all => OwnerInv'
      BY OwnerOfEach, OwnerInvKept
<1>3. ASSUME OwnerInv PROVE Owner!OneOwnerEach
  <2>1. ASSUME terminated = None, NEW t \in Started, run[t] # "new", t \notin joined \cup detached
        PROVE  Owner!Cardinality({h \in handles : owns[h] = t}) = 1
    <3>1. OwnedOnce(handles, owns, run, joined, detached) /\ t # None
          BY <1>3, <2>1, OwnerNone DEF OwnerInv
    <3>2. PICK h \in Owner!Handle : owns[h] = t
          BY <2>1, <3>1 DEF OwnedOnce
    <3>3. {g \in handles : owns[g] = t} = {h}
          BY <3>1, <3>2 DEF OwnedOnce
    <3>4. Owner!Cardinality({h}) = Cardinality({h})
          BY Zenon DEF Owner!Cardinality, Cardinality
    <3>5. Cardinality({h}) = 1
          BY FS_Singleton
    <3> QED BY <3>3, <3>4, <3>5
  <2>2. ASSUME terminated = None, NEW t \in Started
        PROVE  /\ t \in joined => run[t] = "returned"
               /\ handles = {} /\ run[t] = "running" => t \in detached
        BY <1>3, <2>2, OwnerNone DEF OwnerInv, OwnedOnce
  <2> QED BY <1>3, <2>1, <2>2 DEF Owner!OneOwnerEach, OwnerInv, Owner!Running
<1> QED BY <1>1, <1>2, <1>3, PTL DEF EachSpec, OneOwnerEach

-----------------------------------------------------------------------------
(* smart_ptr.cpp.                                                          *)

Finite == IsFiniteSet(Ptr) /\ nullptr \notin Object

Number(o) == Cardinality(Owners(o))

\* A count may fall behind the number of owners, by moves, and then never gets
\* ahead of it again; a deleted object keeps the count 0.
Counted ==
    /\ scope \subseteq Ptr
    /\ ptr_ \in [Ptr -> Object \cup {nullptr}] /\ cnt_ = ptr_
    /\ count \in [Object -> Nat] /\ deleted \subseteq Object /\ moved \in BOOLEAN
    /\ \A o \in Object : count[o] <= Number(o)
    /\ ~moved => \A o \in Object : count[o] = Number(o)
    /\ \A o \in deleted : count[o] = 0

\* 1 if p is one of the owners of o.
Counts(p, o) == IF p \in scope /\ cnt_[p] = o THEN 1 ELSE 0

LEMMA OwnersFinite ==
    ASSUME Finite, Counted, NEW o
    PROVE  IsFiniteSet(Owners(o)) /\ Number(o) \in Nat /\ Number(o) <= Cardinality(Ptr)
<1>1. Owners(o) \subseteq Ptr
      BY DEF Owners, Counted
<1> QED BY <1>1, FS_Subset, FS_CardinalityType DEF Finite, Number

\* p becomes, or stops being, an owner: of all others nothing changes.
LEMMA PointTo ==
    ASSUME Finite, Counted, NEW p \in Ptr, NEW v \in Object \cup {nullptr},
           scope' = scope \cup {p}, cnt_' = [cnt_ EXCEPT ![p] = v], NEW o \in Object
    PROVE  Number(o)' = Number(o) - Counts(p, o) + (IF v = o THEN 1 ELSE 0)
<1>1. cnt_ \in [Ptr -> Object \cup {nullptr}] /\ scope \subseteq Ptr
      BY DEF Counted
<1>2. IsFiniteSet(Owners(o)) /\ Number(o) \in Nat
      BY OwnersFinite
<1>3. CASE v = o
  <2>1. Owners(o)' = Owners(o) \cup {p}
        BY <1>1, <1>3 DEF Owners
  <2>2. p \in Owners(o) <=> p \in scope /\ cnt_[p] = o
        BY DEF Owners
  <2>3. Number(o)' = IF p \in Owners(o) THEN Number(o) ELSE Number(o) + 1
        BY <1>2, <2>1, FS_AddElement DEF Number
  <2> QED BY <1>2, <1>3, <2>2, <2>3 DEF Counts
<1>4. CASE v # o
  <2>1. Owners(o)' = Owners(o) \ {p}
        BY <1>1, <1>4 DEF Owners
  <2>2. p \in Owners(o) <=> p \in scope /\ cnt_[p] = o
        BY DEF Owners
  <2>3. Number(o)' = IF p \in Owners(o) THEN Number(o) - 1 ELSE Number(o)
        BY <1>2, <2>1, FS_RemoveElement DEF Number
  <2> QED BY <1>2, <1>4, <2>2, <2>3 DEF Counts
<1> QED BY <1>3, <1>4

LEMMA LeaveScope ==
    ASSUME Finite, Counted, NEW p \in Ptr, scope' = scope \ {p},
           cnt_' = [cnt_ EXCEPT ![p] = nullptr], NEW o \in Object
    PROVE  Number(o)' = Number(o) - Counts(p, o)
<1>1. cnt_ \in [Ptr -> Object \cup {nullptr}] /\ scope \subseteq Ptr
      BY DEF Counted
<1>2. IsFiniteSet(Owners(o)) /\ Number(o) \in Nat
      BY OwnersFinite
<1>3. Owners(o)' = Owners(o) \ {p}
      BY <1>1 DEF Owners
<1>4. p \in Owners(o) <=> p \in scope /\ cnt_[p] = o
      BY DEF Owners
<1>5. Number(o)' = IF p \in Owners(o) THEN Number(o) - 1 ELSE Number(o)
      BY <1>2, <1>3, FS_RemoveElement DEF Number
<1> QED BY <1>2, <1>4, <1>5 DEF Counts

\* release gives up the count that p stands for.
LEMMA ReleaseCounts ==
    ASSUME Finite, Counted, NEW p \in scope, CanRelease(p)
    PROVE  /\ Released(p) \in [Object -> Nat]
           /\ \A o \in Object : Released(p)[o] = count[o] - Counts(p, o)
           /\ Deletes(p) \subseteq Object
           /\ \A o \in Deletes(p) : Released(p)[o] = 0
           /\ \A o \in Object : count[o] = 0 => Released(p)[o] = 0
<1>1. /\ cnt_[p] \in Object \cup {nullptr} /\ count \in [Object -> Nat] /\ p \in Ptr
      BY DEF Counted
<1>2. CASE cnt_[p] = nullptr
  <2>1. Released(p) = count /\ Deletes(p) = {} /\ \A o \in Object : Counts(p, o) = 0
        BY <1>2 DEF Released, Deletes, Counts, Finite
  <2> QED BY <1>1, <2>1
<1>3. CASE cnt_[p] # nullptr
  <2>1. cnt_[p] \in Object /\ count[cnt_[p]] > 0
        BY <1>1, <1>3 DEF CanRelease
  <2>2. Released(p) = [count EXCEPT ![cnt_[p]] = @ - 1]
        BY <1>3 DEF Released
  <2>3. \A o \in Object : Counts(p, o) = IF o = cnt_[p] THEN 1 ELSE 0
        BY DEF Counts
  <2>4. Deletes(p) = IF count[cnt_[p]] = 1 THEN {cnt_[p]} ELSE {}
        BY <1>3 DEF Deletes
  <2> QED BY <1>1, <2>1, <2>2, <2>3, <2>4
<1> QED BY <1>2, <1>3

-----------------------------------------------------------------------------
LEMMA CountedInit == ASSUME Finite, PtrInit PROVE Counted
<1>1. \A o : Owners(o) = {}
      BY DEF PtrInit, Owners
<1>2. \A o : Number(o) = 0
      BY <1>1, FS_EmptySet DEF Number
<1>3. /\ count \in [Object -> Nat] /\ \A o \in Object : count[o] = 0
      /\ ptr_ \in [Ptr -> Object \cup {nullptr}] /\ cnt_ = ptr_
      /\ scope = {} /\ deleted = {} /\ moved = FALSE
      BY DEF PtrInit
<1>4. \A o \in Object : count[o] = Number(o) /\ count[o] <= Number(o)
      BY <1>2, <1>3
<1> QED BY <1>3, <1>4 DEF Counted

LEMMA ConstructKeeps ==
    ASSUME Finite, Counted, NEW p \in Ptr,
           ConstructEmpty(p) \/ \E o \in Object : ConstructNew(p, o)
    PROVE  Counted'
<1>1. \A o \in Object : Counts(p, o) = 0 /\ Number(o) \in Nat
      BY OwnersFinite DEF Counts, ConstructEmpty, ConstructNew
<1>2. CASE ConstructEmpty(p)
  <2>1. nullptr \in Object \cup {nullptr} /\ scope' = scope \cup {p}
        /\ cnt_' = [cnt_ EXCEPT ![p] = nullptr]
        BY <1>2 DEF ConstructEmpty
  <2>2. \A o \in Object : Number(o)' = Number(o) - 0 + 0
        BY <1>1, <2>1, PointTo DEF Finite
  <2>3. \A o \in Object : Number(o)' = Number(o)
        BY <1>1, <2>2
  <2> QED BY <1>2, <2>3 DEF ConstructEmpty, Counted
<1>3. ASSUME NEW o \in Object, ConstructNew(p, o) PROVE Counted'
  <2>a. \A x \in Object : Number(x)' = Number(x) - Counts(p, x) + (IF o = x THEN 1 ELSE 0)
        BY <1>3, PointTo DEF ConstructNew
  <2>1. \A x \in Object : Number(x)' = Number(x) + (IF o = x THEN 1 ELSE 0)
        BY <1>1, <2>a
  <2>2. \A x \in Object : count'[x] = count[x] + (IF o = x THEN 1 ELSE 0)
        BY <1>3 DEF ConstructNew, Counted
  <2> QED BY <1>1, <1>3, <2>1, <2>2 DEF ConstructNew, Counted
<1> QED BY <1>2, <1>3

LEMMA CopyConstructKeeps ==
    ASSUME Finite, Counted, NEW p \in Ptr, NEW q \in Ptr, CopyConstruct(p, q)
    PROVE  Counted'
<1> DEFINE v == cnt_[q]
<1>1. v \in Object /\ count[v] > 0
      BY DEF CopyConstruct, CanCopy, Counted
<1>2. \A o \in Object : Counts(p, o) = 0 /\ Number(o) \in Nat
      BY OwnersFinite DEF Counts, CopyConstruct
<1>a. \A o \in Object : Number(o)' = Number(o) - Counts(p, o) + (IF v = o THEN 1 ELSE 0)
      BY <1>1, PointTo DEF CopyConstruct
<1>3. \A o \in Object : Number(o)' = Number(o) + (IF v = o THEN 1 ELSE 0)
      BY <1>2, <1>a
<1>4. \A o \in Object : count'[o] = count[o] + (IF v = o THEN 1 ELSE 0)
      BY <1>1 DEF CopyConstruct, Counted
<1> QED BY <1>1, <1>2, <1>3, <1>4 DEF CopyConstruct, Counted

LEMMA CopyAssignKeeps ==
    ASSUME Finite, Counted, NEW p \in Ptr, NEW q \in Ptr, CopyAssign(p, q)
    PROVE  Counted'
<1> DEFINE v == cnt_[q]
<1>1. v \in Object /\ count[v] > 0 /\ p \in scope /\ scope \cup {p} = scope /\ cnt_[p] # v
      BY DEF CopyAssign, CanCopy, Differs, Counted
<1>2. Counts(p, v) = 0 /\ \A o \in Object : Counts(p, o) \in {0, 1} /\ Number(o) \in Nat
      BY <1>1, OwnersFinite DEF Counts
<1>3. \A o \in Object : Number(o)' = Number(o) - Counts(p, o) + (IF v = o THEN 1 ELSE 0)
      BY <1>1, PointTo DEF CopyAssign
<1>4. \A o \in Object : count'[o] = count[o] - Counts(p, o) + (IF v = o THEN 1 ELSE 0)
      BY <1>1, <1>2, ReleaseCounts DEF CopyAssign, Counted
<1>5. \A o \in deleted' : count'[o] = 0
  <2>1. ASSUME NEW o \in deleted' PROVE o # v /\ Released(p)[o] = 0 /\ o \in Object
    <3>1. CASE o \in deleted
          BY <1>1, <3>1, ReleaseCounts DEF CopyAssign, Counted
    <3>2. CASE o \in Deletes(p)
          BY <1>1, <3>2, ReleaseCounts DEF CopyAssign, Deletes
    <3> QED BY <2>1, <3>1, <3>2 DEF CopyAssign
  <2> QED BY <2>1 DEF CopyAssign
<1>6. count' \in [Object -> Nat] /\ deleted' \subseteq Object
      BY <1>1, ReleaseCounts DEF CopyAssign, Counted
<1> QED BY <1>1, <1>2, <1>3, <1>4, <1>5, <1>6 DEF CopyAssign, Counted

\* Here the number of owners gets ahead of the count.
LEMMA MoveConstructKeeps ==
    ASSUME Finite, Counted, NEW p \in Ptr, NEW q \in Ptr, MoveConstruct(p, q)
    PROVE  Counted'
<1> DEFINE v == cnt_[q]
<1>1. v \in Object
      BY DEF MoveConstruct, CanCopy, Counted
<1>2. \A o \in Object : Counts(p, o) = 0 /\ Number(o) \in Nat
      BY OwnersFinite DEF Counts, MoveConstruct
<1>a. \A o \in Object : Number(o)' = Number(o) - Counts(p, o) + (IF v = o THEN 1 ELSE 0)
      BY <1>1, PointTo DEF MoveConstruct
<1>3. \A o \in Object : Number(o)' = Number(o) + (IF v = o THEN 1 ELSE 0)
      BY <1>2, <1>a
<1> QED BY <1>1, <1>2, <1>3 DEF MoveConstruct, Counted

LEMMA MoveAssignKeeps ==
    ASSUME Finite, Counted, NEW p \in Ptr, NEW q \in Ptr, MoveAssign(p, q)
    PROVE  Counted'
<1> DEFINE v == cnt_[q]
<1>1. v \in Object /\ p \in scope /\ scope \cup {p} = scope
      BY DEF MoveAssign, CanCopy, Counted
<1>2. \A o \in Object : Counts(p, o) \in {0, 1} /\ Number(o) \in Nat
      BY OwnersFinite DEF Counts
<1>3. \A o \in Object : Number(o)' = Number(o) - Counts(p, o) + (IF v = o THEN 1 ELSE 0)
      BY <1>1, PointTo DEF MoveAssign
<1>4. /\ count' \in [Object -> Nat] /\ \A o \in Object : count'[o] = count[o] - Counts(p, o)
      /\ deleted' \subseteq Object /\ \A o \in deleted' : count'[o] = 0
      BY <1>1, ReleaseCounts DEF MoveAssign, Counted
<1> QED BY <1>1, <1>2, <1>3, <1>4 DEF MoveAssign, Counted

LEMMA DestroyKeeps ==
    ASSUME Finite, Counted, NEW p \in Ptr, Destroy(p)
    PROVE  Counted'
<1>1. p \in scope
      BY DEF Destroy
<1>2. \A o \in Object : Counts(p, o) \in {0, 1} /\ Number(o) \in Nat
      BY OwnersFinite DEF Counts
<1>3. \A o \in Object : Number(o)' = Number(o) - Counts(p, o)
      BY LeaveScope DEF Destroy
<1>4. /\ count' \in [Object -> Nat] /\ \A o \in Object : count'[o] = count[o] - Counts(p, o)
      /\ deleted' \subseteq Object /\ \A o \in deleted' : count'[o] = 0
      BY <1>1, ReleaseCounts DEF Destroy, Counted
<1> QED BY <1>1, <1>2, <1>3, <1>4 DEF Destroy, Counted

LEMMA CountedKept == ASSUME Finite, Counted, [PtrNext]_ptrvars PROVE Counted'
<1>1. ASSUME NEW p \in Ptr, NEW q \in Ptr, CopyConstruct(p, q) \/ CopyAssign(p, q)
      PROVE  Counted'
      BY <1>1, CopyConstructKeeps, CopyAssignKeeps
<1>2. ASSUME NEW p \in Ptr, NEW q \in Ptr, MoveConstruct(p, q) \/ MoveAssign(p, q)
      PROVE  Counted'
      BY <1>2, MoveConstructKeeps, MoveAssignKeeps
<1>3. CASE UNCHANGED ptrvars
  <2>1. \A o : Number(o)' = Number(o)
        BY <1>3 DEF ptrvars, Number, Owners
  <2> QED BY <1>3, <2>1 DEF ptrvars, Counted
<1> QED BY <1>1, <1>2, <1>3, ConstructKeeps, DestroyKeeps DEF PtrNext, Copies, Moves

\* Until something is moved, the counter of smart_ptr.cpp is the number of owners,
\* and so an object that was deleted has none.
THEOREM CountIsOwners ==
    ASSUME IsFiniteSet(Ptr), nullptr \notin Object
    PROVE  PtrSpec => []CountsOwners
<1>1. Finite
      BY DEF Finite
<1>2. PtrInit => Counted
      BY <1>1, CountedInit
<1>3. Counted /\ [PtrNext]_ptrvars => Counted'
      BY <1>1, CountedKept
<1>4. ASSUME Counted PROVE CountsOwners
  <2>1. \A o \in Object : count[o] \in 0 .. Cardinality(Ptr)
    <3> TAKE o \in Object
    <3>1. Number(o) \in Nat /\ Number(o) <= Cardinality(Ptr) /\ count[o] <= Number(o)
          BY <1>1, <1>4, OwnersFinite DEF Counted
    <3>2. count[o] \in Nat /\ Cardinality(Ptr) \in Nat
          BY <1>1, <1>4, FS_CardinalityType DEF Counted, Finite
    <3> QED BY <3>1, <3>2
  <2>2. PtrTypeOK
        BY <1>4, <2>1 DEF Counted, PtrTypeOK
  <2>3. ASSUME ~moved, NEW o \in Object
        PROVE  count[o] = Cardinality(Owners(o)) /\ (o \in deleted => Owners(o) = {})
    <3>1. IsFiniteSet(Owners(o)) /\ count[o] = Number(o)
          BY <1>1, <1>4, <2>3, OwnersFinite DEF Counted
    <3>2. o \in deleted => Cardinality(Owners(o)) = 0
          BY <1>4, <3>1 DEF Counted, Number
    <3> QED BY <3>1, <3>2, FS_EmptySet DEF Number
  <2> QED BY <2>2, <2>3 DEF CountsOwners
<1> QED BY <1>2, <1>3, <1>4, PTL DEF PtrSpec

-----------------------------------------------------------------------------
(* List.cc: the nodes between the dummy nodes are strung along a sequence of   *)
(* addresses, which both kinds of link follow.                             *)

LEMMA ListConstants ==
    /\ IsFiniteSet(Nodes) /\ dummy_head \notin Nodes /\ dummy_tail \notin Nodes /\ nullptr \notin Nodes
    /\ dummy_head # dummy_tail /\ nullptr # dummy_head /\ nullptr # dummy_tail
    /\ Garbage \subseteq Int
BY StructuresAssumption DEF StructuresAssumption

LEMMA ListCounts == ASSUME NEW S PROVE List!Cardinality(S) = Cardinality(S)
BY DEF List!Cardinality, Cardinality

Address == List!Address
Steps   == List!Cardinality(Address)

LEMMA Addresses ==
    /\ Address = Nodes \cup {dummy_head, dummy_tail} /\ nullptr \notin Address
    /\ IsFiniteSet(Address) /\ Steps = Cardinality(Address) /\ Steps \in Nat
<1>1. Address = Nodes \cup {dummy_head, dummy_tail}
      BY DEF Address, List!Address
<1>2. IsFiniteSet(Nodes \cup {dummy_head}) /\ IsFiniteSet((Nodes \cup {dummy_head}) \cup {dummy_tail})
      BY ListConstants, FS_AddElement
<1>3. Address = (Nodes \cup {dummy_head}) \cup {dummy_tail}
      BY <1>1
<1> QED BY <1>1, <1>2, <1>3, ListConstants, ListCounts, FS_CardinalityType DEF Steps

(* What Walk finds. *)
Path(f, from, link, to) ==
    f = [k \in 1 .. Steps |-> LET before == IF k = 1 THEN from ELSE f[k - 1]
                              IN  IF before = to THEN to ELSE link[before]]

\* pos goes through n nodes from one address to another.
Leads(pos, n, from, link, to) ==
    /\ pos \in [0 .. n + 1 -> Address] /\ pos[0] = from /\ pos[n + 1] = to
    /\ \A k \in 0 .. n : link[pos[k]] = pos[k + 1] /\ pos[k] # to

Ended(pos, n) == [k \in 1 .. Steps |-> IF k <= n THEN pos[k] ELSE pos[n + 1]]

LEMMA EndedIsPath ==
    ASSUME NEW n \in Nat, NEW pos, NEW from, NEW link, NEW to, Leads(pos, n, from, link, to)
    PROVE  Path(Ended(pos, n), from, link, to)
<1> DEFINE f == Ended(pos, n)
<1>1. ASSUME NEW k \in 1 .. Steps
      PROVE  f[k] = LET before == IF k = 1 THEN from ELSE f[k - 1]
                    IN  IF before = to THEN to ELSE link[before]
  <2>1. f[k] = IF k <= n THEN pos[k] ELSE pos[n + 1]
        BY DEF Ended
  <2>2. k # 1 => f[k - 1] = IF k - 1 <= n THEN pos[k - 1] ELSE pos[n + 1]
    <3>1. k # 1 => k - 1 \in 1 .. Steps
          BY Addresses
    <3> QED BY <3>1 DEF Ended
  <2> HIDE DEF f
  <2> DEFINE before == IF k = 1 THEN from ELSE f[k - 1]
  <2>3. CASE k <= n + 1
    <3>1. k - 1 \in 0 .. n /\ (k - 1) + 1 = k
          BY <2>3
    <3>2. before = pos[k - 1]
          BY <2>2, <3>1 DEF Leads
    <3>3. before # to /\ link[before] = pos[k]
          BY <3>1, <3>2 DEF Leads
    <3>4. f[k] = pos[k]
          BY <2>1, <2>3, <3>1
    <3> QED BY <3>3, <3>4
  <2>4. CASE k > n + 1
    <3>1. before = to /\ f[k] = to
          BY <2>1, <2>2, <2>4 DEF Leads
    <3> QED BY <3>1
  <2> QED BY <2>3, <2>4
<1>2. f = [k \in 1 .. Steps |-> f[k]]
      BY DEF Ended
<1> HIDE DEF f
<1> QED BY <1>1, <1>2 DEF Path, f

LEMMA OnePath ==
    ASSUME NEW from, NEW link, NEW to, NEW f, NEW g, Path(f, from, link, to), Path(g, from, link, to)
    PROVE  f = g
<1>1. f = [k \in 1 .. Steps |-> f[k]] /\ g = [k \in 1 .. Steps |-> g[k]]
      BY DEF Path
<1>2. \A k \in 1 .. Steps : /\ f[k] = LET before == IF k = 1 THEN from ELSE f[k - 1]
                                      IN  IF before = to THEN to ELSE link[before]
                            /\ g[k] = LET before == IF k = 1 THEN from ELSE g[k - 1]
                                      IN  IF before = to THEN to ELSE link[before]
      BY DEF Path
<1> DEFINE differ == {k \in 1 .. Steps : f[k] # g[k]}
<1>3. SUFFICES ASSUME differ # {} PROVE FALSE
      BY <1>1
<1>4. PICK k \in differ : \A i \in differ : ~(i < k)
  <2>1. differ \in SUBSET Nat
        OBVIOUS
  <2> QED BY <1>3, <2>1, HasSmallest
<1>5. k = 1 \/ (k - 1 \in 1 .. Steps /\ k - 1 < k)
      BY Addresses
<1>6. k = 1 \/ f[k - 1] = g[k - 1]
      BY <1>4, <1>5
<1>7. f[k] = g[k]
      BY <1>2, <1>6
<1> QED BY <1>7

LEMMA WalkIs ==
    ASSUME NEW n \in Nat, NEW pos, NEW from, NEW link, NEW to, Leads(pos, n, from, link, to), n <= Steps
    PROVE  List!Walk(from, link, to) = [k \in 1 .. n |-> pos[k]]
<1> DEFINE path == CHOOSE f : Path(f, from, link, to)
           there == {k \in DOMAIN path : path[k] = to}
<1>1. path = Ended(pos, n)
  <2>1. Path(Ended(pos, n), from, link, to)
        BY EndedIsPath
  <2> QED BY <2>1, OnePath
<1>2. List!Walk(from, link, to) = [k \in 1 .. List!Cardinality(DOMAIN path \ there) |-> path[k]]
      BY DEF List!Walk, Path, Steps, Address
<1> HIDE DEF path
<1>3. DOMAIN path = 1 .. Steps /\ \A k \in 1 .. Steps : path[k] = IF k <= n THEN pos[k] ELSE to
      BY <1>1 DEF Ended, Leads
<1>4. DOMAIN path \ there = 1 .. n
  <2>1. \A k \in 1 .. n : pos[k] # to /\ k \in 1 .. Steps
        BY Addresses DEF Leads
  <2>2. ASSUME NEW k \in 1 .. Steps PROVE path[k] # to <=> k \in 1 .. n
    <3>1. CASE k <= n
      <4>1. k \in 1 .. n
            BY <3>1
      <4> QED BY <1>3, <2>1, <3>1, <4>1
    <3>2. CASE ~(k <= n)
          BY <1>3, <3>2
    <3> QED BY <3>1, <3>2
  <2>3. \A k : k \in DOMAIN path \ there <=> k \in 1 .. Steps /\ path[k] # to
        BY <1>3
  <2> HIDE DEF there
  <2>4. \A k : k \in DOMAIN path \ there <=> k \in 1 .. n
        BY <2>1, <2>2, <2>3
  <2> QED BY <2>4
<1>5. List!Cardinality(1 .. n) = n
      BY FS_Interval, ListCounts
<1>6. \A k \in 1 .. n : path[k] = pos[k]
  <2> TAKE k \in 1 .. n
  <2>1. k \in 1 .. Steps /\ k <= n
        BY Addresses
  <2> QED BY <1>3, <2>1
<1> HIDE DEF there
<1> QED BY <1>2, <1>4, <1>5, <1>6

-----------------------------------------------------------------------------
(* Pushing and removing.                                                   *)

\* pos goes from the one dummy node to the other, and both kinds of link go along it.
Strung(pos, n, nx, pv) ==
    /\ pos \in [0 .. n + 1 -> Address] /\ pos[0] = dummy_head /\ pos[n + 1] = dummy_tail
    /\ \A k, l \in 0 .. n + 1 : pos[k] = pos[l] => k = l
    /\ nx \in [Address -> Address \cup {nullptr}] /\ pv \in [Address -> Address \cup {nullptr}]
    /\ \A k \in 0 .. n : nx[pos[k]] = pos[k + 1] /\ pv[pos[k + 1]] = pos[k]
    /\ \A x \in Nodes : nx[x] = nullptr <=> \A k \in 0 .. n + 1 : pos[k] # x

LEMMA StrungNodes ==
    ASSUME NEW n \in Nat, NEW pos, NEW nx, NEW pv, Strung(pos, n, nx, pv)
    PROVE  /\ \A k \in 1 .. n : pos[k] \in Nodes
           /\ n <= Steps
<1>1. ASSUME NEW k \in 1 .. n PROVE pos[k] \in Nodes
  <2>1. k \in 0 .. n + 1 /\ 0 \in 0 .. n + 1 /\ n + 1 \in 0 .. n + 1 /\ k # 0 /\ k # n + 1
        OBVIOUS
  <2>2. pos[k] \in Address /\ pos[k] # dummy_head /\ pos[k] # dummy_tail
        BY <2>1 DEF Strung
  <2> QED BY <2>2, Addresses
<1>2. n <= Steps
  <2>1. pos \in Injection(0 .. n + 1, Address)
        BY DEF Strung, Injection, IsInjective
  <2>2. Cardinality(0 .. n + 1) = n + 2 /\ Cardinality(0 .. n + 1) <= Cardinality(Address)
        BY <2>1, Addresses, FS_Injection, FS_Interval
  <2> QED BY <2>2, Addresses
<1> QED BY <1>1, <1>2

Inserted(pos, n, k, x) ==
    [i \in 0 .. n + 2 |-> IF i <= k THEN pos[i] ELSE IF i = k + 1 THEN x ELSE pos[i - 1]]

LEMMA InsertStrings ==
    ASSUME NEW n \in Nat, NEW pos, NEW nx, NEW pv, Strung(pos, n, nx, pv),
           NEW k \in 0 .. n, NEW x \in Nodes, nx[x] = nullptr
    PROVE  Strung(Inserted(pos, n, k, x), n + 1,
                  [nx EXCEPT ![x] = nx[pos[k]], ![pos[k]] = x],
                  [pv EXCEPT ![x] = pos[k], ![nx[pos[k]]] = x])
<1> DEFINE a == Inserted(pos, n, k, x)
           nx2 == [nx EXCEPT ![x] = nx[pos[k]], ![pos[k]] = x]
           pv2 == [pv EXCEPT ![x] = pos[k], ![nx[pos[k]]] = x]
<1>1. /\ pos \in [0 .. n + 1 -> Address] /\ pos[0] = dummy_head /\ pos[n + 1] = dummy_tail
      /\ \A i, l \in 0 .. n + 1 : pos[i] = pos[l] => i = l
      /\ nx \in [Address -> Address \cup {nullptr}] /\ pv \in [Address -> Address \cup {nullptr}]
      /\ \A i \in 0 .. n : nx[pos[i]] = pos[i + 1] /\ pv[pos[i + 1]] = pos[i]
      /\ \A y \in Nodes : nx[y] = nullptr <=> \A i \in 0 .. n + 1 : pos[i] # y
      BY DEF Strung
<1>2. x \in Address /\ x # dummy_head /\ x # dummy_tail /\ \A i \in 0 .. n + 1 : pos[i] # x
      BY <1>1, Addresses, ListConstants
<1>3. k \in 0 .. n + 1 /\ k + 1 \in 0 .. n + 1 /\ nx[pos[k]] = pos[k + 1] /\ (n + 1) + 1 = n + 2
      BY <1>1
<1>4. \A i \in 0 .. n + 2 : /\ i <= k => a[i] = pos[i] /\ i \in 0 .. n + 1
                            /\ i = k + 1 => a[i] = x
                            /\ i > k + 1 => a[i] = pos[i - 1] /\ i - 1 \in 0 .. n + 1
      BY DEF Inserted
<1>5. /\ DOMAIN a = 0 .. n + 2 /\ a = [i \in 0 .. n + 2 |-> a[i]]
      BY DEF Inserted
<1>6. \A y \in Address : /\ nx2[y] = IF y = pos[k] THEN x ELSE IF y = x THEN pos[k + 1] ELSE nx[y]
                         /\ pv2[y] = IF y = pos[k + 1] THEN x ELSE IF y = x THEN pos[k] ELSE pv[y]
      BY <1>1, <1>2, <1>3
<1>7. nx2 \in [Address -> Address \cup {nullptr}] /\ pv2 \in [Address -> Address \cup {nullptr}]
      BY <1>1, <1>2, <1>3
<1> HIDE DEF a, nx2, pv2
<1>8. \A i \in 0 .. n + 2 : i <= k \/ i = k + 1 \/ i > k + 1
      OBVIOUS
<1>9. \A i \in 0 .. n + 2 : a[i] \in Address
      BY <1>1, <1>2, <1>4, <1>8
<1>10. a \in [0 .. n + 2 -> Address]
       BY <1>5, <1>9
<1>11. a[0] = dummy_head /\ a[n + 2] = dummy_tail
  <2>1. 0 \in 0 .. n + 2 /\ 0 <= k
        OBVIOUS
  <2>2. n + 2 \in 0 .. n + 2 /\ n + 2 > k + 1 /\ (n + 2) - 1 = n + 1
        OBVIOUS
  <2> QED BY <1>1, <1>4, <2>1, <2>2
<1>12. ASSUME NEW i \in 0 .. n + 2, NEW l \in 0 .. n + 2, a[i] = a[l] PROVE i = l
       BY <1>1, <1>2, <1>4, <1>8, <1>12
<1>13. ASSUME NEW i \in 0 .. n + 1 PROVE nx2[a[i]] = a[i + 1] /\ pv2[a[i + 1]] = a[i]
  <2>1. i \in 0 .. n + 2 /\ i + 1 \in 0 .. n + 2
        OBVIOUS
  <2>2. CASE i < k
    <3>1. a[i] = pos[i] /\ a[i + 1] = pos[i + 1] /\ i \in 0 .. n /\ i + 1 \in 0 .. n + 1
          BY <1>4, <2>1, <2>2
    <3>2. pos[i] # pos[k] /\ pos[i] # x /\ pos[i + 1] # pos[k + 1] /\ pos[i + 1] # x
      <4>1. i # k /\ i + 1 # k + 1 /\ i \in 0 .. n + 1
            BY <2>2
      <4> QED BY <1>1, <1>2, <1>3, <3>1, <4>1
    <3>3. pos[i] \in Address /\ pos[i + 1] \in Address
          BY <1>1, <3>1
    <3> QED BY <1>1, <1>6, <3>1, <3>2, <3>3
  <2>3. CASE i = k
    <3>1. a[i] = pos[k] /\ a[i + 1] = x
          BY <1>4, <2>1, <2>3
    <3>2. pos[k] \in Address /\ x # pos[k + 1]
          BY <1>1, <1>2, <1>3
    <3> QED BY <1>2, <1>6, <3>1, <3>2
  <2>4. CASE i = k + 1
    <3>1. a[i] = x /\ a[i + 1] = pos[k + 1]
      <4>1. (i + 1) - 1 = k + 1 /\ i + 1 > k + 1
            BY <2>4
      <4> QED BY <1>4, <2>1, <2>4, <4>1
    <3>2. pos[k + 1] \in Address /\ x # pos[k]
          BY <1>1, <1>2, <1>3
    <3> QED BY <1>2, <1>6, <3>1, <3>2
  <2>5. CASE i > k + 1
    <3>1. a[i] = pos[i - 1] /\ a[i + 1] = pos[i] /\ i - 1 \in 0 .. n /\ i \in 0 .. n + 1 /\ (i - 1) + 1 = i
      <4>1. (i + 1) - 1 = i /\ i + 1 > k + 1
            BY <2>5
      <4> QED BY <1>4, <2>1, <2>5, <4>1
    <3>2. pos[i - 1] # pos[k] /\ pos[i - 1] # x /\ pos[i] # pos[k + 1] /\ pos[i] # x
      <4>1. i - 1 # k /\ i # k + 1 /\ i - 1 \in 0 .. n + 1
            BY <2>5
      <4> QED BY <1>1, <1>2, <1>3, <3>1, <4>1
    <3>3. pos[i - 1] \in Address /\ pos[i] \in Address
          BY <1>1, <3>1
    <3> QED BY <1>1, <1>6, <3>1, <3>2, <3>3
  <2> QED BY <2>2, <2>3, <2>4, <2>5
<1>14. ASSUME NEW y \in Nodes PROVE nx2[y] = nullptr <=> \A i \in 0 .. n + 2 : a[i] # y
  <2>0. y \in Address /\ x # nullptr /\ pos[k + 1] # nullptr
        BY <1>1, <1>2, <1>3, Addresses
  <2>1. CASE y = x
    <3>1. nx2[y] # nullptr
          BY <1>2, <1>3, <1>6, <2>0, <2>1
    <3>2. k + 1 \in 0 .. n + 2 /\ a[k + 1] = y
          BY <1>4, <2>1
    <3> QED BY <3>1, <3>2
  <2>2. CASE y # x /\ \E i \in 0 .. n + 1 : pos[i] = y
    <3>1. PICK i \in 0 .. n + 1 : pos[i] = y
          BY <2>2
    <3>2. nx2[y] # nullptr
          BY <1>1, <1>6, <2>0, <2>2
    <3>3. \E l \in 0 .. n + 2 : a[l] = y
      <4>1. CASE i <= k
            BY <1>4, <3>1, <4>1
      <4>2. CASE i > k
        <5>1. i + 1 \in 0 .. n + 2 /\ i + 1 > k + 1 /\ (i + 1) - 1 = i
              BY <4>2
        <5> QED BY <1>4, <3>1, <5>1
      <4> QED BY <4>1, <4>2
    <3> QED BY <3>2, <3>3
  <2>3. CASE y # x /\ \A i \in 0 .. n + 1 : pos[i] # y
    <3>1. nx2[y] = nullptr
          BY <1>1, <1>3, <1>6, <2>0, <2>3
    <3>2. \A i \in 0 .. n + 2 : a[i] # y
          BY <1>4, <1>8, <2>3
    <3> QED BY <3>1, <3>2
  <2> QED BY <2>1, <2>2, <2>3
<1>15. Strung(a, n + 1, nx2, pv2)
       BY <1>3, <1>7, <1>10, <1>11, <1>12, <1>13, <1>14 DEF Strung
<1> QED BY <1>15 DEF a, nx2, pv2

Removed(pos, n, k) == [i \in 0 .. n |-> IF i < k THEN pos[i] ELSE pos[i + 1]]

LEMMA RemoveStrings ==
    ASSUME NEW n \in Nat, NEW pos, NEW nx, NEW pv, Strung(pos, n, nx, pv), NEW k \in 1 .. n
    PROVE  Strung(Removed(pos, n, k), n - 1,
                  [nx EXCEPT ![pv[pos[k]]] = nx[pos[k]], ![pos[k]] = nullptr],
                  [pv EXCEPT ![nx[pos[k]]] = pv[pos[k]], ![pos[k]] = nullptr])
<1> DEFINE x == pos[k]
           a == Removed(pos, n, k)
           nx2 == [nx EXCEPT ![pv[x]] = nx[x], ![x] = nullptr]
           pv2 == [pv EXCEPT ![nx[x]] = pv[x], ![x] = nullptr]
<1>1. /\ pos \in [0 .. n + 1 -> Address] /\ pos[0] = dummy_head /\ pos[n + 1] = dummy_tail
      /\ \A i, l \in 0 .. n + 1 : pos[i] = pos[l] => i = l
      /\ nx \in [Address -> Address \cup {nullptr}] /\ pv \in [Address -> Address \cup {nullptr}]
      /\ \A i \in 0 .. n : nx[pos[i]] = pos[i + 1] /\ pv[pos[i + 1]] = pos[i]
      /\ \A y \in Nodes : nx[y] = nullptr <=> \A i \in 0 .. n + 1 : pos[i] # y
      BY DEF Strung
<1>2. x \in Address /\ x \in Nodes
      BY StrungNodes, Addresses
<1>3. /\ k \in 0 .. n /\ k - 1 \in 0 .. n /\ k \in 0 .. n + 1 /\ k - 1 \in 0 .. n + 1 /\ k + 1 \in 0 .. n + 1
      /\ (k - 1) + 1 = k /\ (n - 1) + 1 = n
      OBVIOUS
<1>4. nx[x] = pos[k + 1] /\ pv[x] = pos[k - 1]
      BY <1>1, <1>3
<1>5. \A i \in 0 .. n : /\ i < k => a[i] = pos[i] /\ i \in 0 .. n + 1
                        /\ i >= k => a[i] = pos[i + 1] /\ i + 1 \in 0 .. n + 1
      BY DEF Removed
<1>6. a = [i \in 0 .. n |-> a[i]]
      BY DEF Removed
<1>7. pos[k - 1] \in Address /\ pos[k + 1] \in Address /\ pos[k - 1] # x /\ pos[k + 1] # x
      BY <1>1, <1>3
<1>8. \A y \in Address :
         /\ nx2[y] = IF y = x THEN nullptr ELSE IF y = pos[k - 1] THEN pos[k + 1] ELSE nx[y]
         /\ pv2[y] = IF y = x THEN nullptr ELSE IF y = pos[k + 1] THEN pos[k - 1] ELSE pv[y]
      BY <1>1, <1>2, <1>4, <1>7
<1>9. nx2 \in [Address -> Address \cup {nullptr}] /\ pv2 \in [Address -> Address \cup {nullptr}]
      BY <1>1, <1>2, <1>4, <1>7
<1> HIDE DEF a, nx2, pv2, x
<1>10. a \in [0 .. n -> Address]
  <2>1. \A i \in 0 .. n : a[i] \in Address
        BY <1>1, <1>5
  <2> QED BY <1>6, <2>1
<1>11. a[0] = dummy_head /\ a[n] = dummy_tail
  <2>1. 0 \in 0 .. n /\ 0 < k /\ n \in 0 .. n /\ n >= k
        OBVIOUS
  <2> QED BY <1>1, <1>5, <2>1
<1>12. ASSUME NEW i \in 0 .. n, NEW l \in 0 .. n, a[i] = a[l] PROVE i = l
  <2>1. CASE i < k /\ l < k
        BY <1>1, <1>5, <1>12, <2>1
  <2>2. CASE i >= k /\ l >= k
    <3>1. i + 1 = l + 1
          BY <1>1, <1>5, <1>12, <2>2
    <3> QED BY <3>1
  <2>3. CASE i < k /\ l >= k
    <3>1. i = l + 1
          BY <1>1, <1>5, <1>12, <2>3
    <3> QED BY <2>3, <3>1
  <2>4. CASE i >= k /\ l < k
    <3>1. i + 1 = l
          BY <1>1, <1>5, <1>12, <2>4
    <3> QED BY <2>4, <3>1
  <2> QED BY <2>1, <2>2, <2>3, <2>4
<1>13. ASSUME NEW i \in 0 .. n - 1 PROVE nx2[a[i]] = a[i + 1] /\ pv2[a[i + 1]] = a[i]
  <2>1. i \in 0 .. n /\ i + 1 \in 0 .. n
        OBVIOUS
  <2>2. CASE i < k - 1
    <3>1. a[i] = pos[i] /\ a[i + 1] = pos[i + 1] /\ i \in 0 .. n + 1 /\ i + 1 \in 0 .. n + 1
      <4>1. i < k /\ i + 1 < k
            BY <2>2
      <4> QED BY <1>5, <2>1, <4>1
    <3>2. i # k /\ i # k - 1 /\ i + 1 # k /\ i + 1 # k + 1
          BY <2>2
    <3>3. pos[i] # x /\ pos[i] # pos[k - 1] /\ pos[i + 1] # x /\ pos[i + 1] # pos[k + 1]
          BY <1>1, <1>3, <3>1, <3>2 DEF x
    <3>4. pos[i] \in Address /\ pos[i + 1] \in Address
          BY <1>1, <3>1
    <3> QED BY <1>1, <1>8, <2>1, <3>1, <3>3, <3>4
  <2>3. CASE i = k - 1
    <3>1. a[i] = pos[k - 1] /\ a[i + 1] = pos[k + 1]
      <4>1. i < k /\ i + 1 = k
            BY <2>3
      <4> QED BY <1>5, <2>1, <2>3, <4>1
    <3> QED BY <1>7, <1>8, <3>1
  <2>4. CASE i >= k
    <3>1. a[i] = pos[i + 1] /\ a[i + 1] = pos[(i + 1) + 1]
      <4>1. i >= k /\ i + 1 >= k
            BY <2>4
      <4> QED BY <1>5, <2>1, <4>1
    <3>2. i + 1 \in 0 .. n + 1 /\ (i + 1) + 1 \in 0 .. n + 1 /\ i + 1 \in 0 .. n
          OBVIOUS
    <3>3. i + 1 # k /\ i + 1 # k - 1 /\ (i + 1) + 1 # k /\ (i + 1) + 1 # k + 1
          BY <2>4
    <3>4. pos[i + 1] # x /\ pos[i + 1] # pos[k - 1] /\ pos[(i + 1) + 1] # x /\ pos[(i + 1) + 1] # pos[k + 1]
          BY <1>1, <1>3, <3>2, <3>3 DEF x
    <3>5. pos[i + 1] \in Address /\ pos[(i + 1) + 1] \in Address
          BY <1>1, <3>2
    <3>6. nx[pos[i + 1]] = pos[(i + 1) + 1] /\ pv[pos[(i + 1) + 1]] = pos[i + 1]
          BY <1>1, <3>2
    <3> QED BY <1>8, <3>1, <3>4, <3>5, <3>6
  <2> QED BY <2>2, <2>3, <2>4
<1>14. ASSUME NEW y \in Nodes PROVE nx2[y] = nullptr <=> \A i \in 0 .. n : a[i] # y
  <2>0. y \in Address /\ pos[k + 1] # nullptr
        BY <1>7, Addresses
  <2>1. CASE y = x
    <3>1. nx2[y] = nullptr
          BY <1>8, <2>0, <2>1
    <3>2. \A i \in 0 .. n : a[i] # y
      <4> TAKE i \in 0 .. n
      <4>1. CASE i < k
            BY <1>1, <1>3, <1>5, <2>1, <4>1 DEF x
      <4>2. CASE i >= k
        <5>1. i + 1 # k
              BY <4>2
        <5> QED BY <1>1, <1>3, <1>5, <2>1, <4>2, <5>1 DEF x
      <4> QED BY <4>1, <4>2
    <3> QED BY <3>1, <3>2
  <2>2. CASE y # x /\ \E i \in 0 .. n + 1 : pos[i] = y
    <3>1. PICK i \in 0 .. n + 1 : pos[i] = y
          BY <2>2
    <3>2. nx2[y] # nullptr
          BY <1>1, <1>8, <2>0, <2>2
    <3>3. i # k
          BY <2>2, <3>1 DEF x
    <3>4. \E l \in 0 .. n : a[l] = y
      <4>1. CASE i < k
        <5>1. i \in 0 .. n
              BY <4>1
        <5> QED BY <1>5, <3>1, <4>1, <5>1
      <4>2. CASE i > k
        <5>1. i - 1 \in 0 .. n /\ i - 1 >= k /\ (i - 1) + 1 = i
              BY <4>2
        <5> QED BY <1>5, <3>1, <5>1
      <4> QED BY <3>3, <4>1, <4>2
    <3> QED BY <3>2, <3>4
  <2>3. CASE y # x /\ \A i \in 0 .. n + 1 : pos[i] # y
    <3>1. nx2[y] = nullptr
      <4>1. nx[y] = nullptr /\ y # pos[k - 1]
            BY <1>1, <1>3, <2>3
      <4> QED BY <1>8, <2>0, <2>3, <4>1
    <3>2. \A i \in 0 .. n : a[i] # y
          BY <1>5, <2>3
    <3> QED BY <3>1, <3>2
  <2> QED BY <2>1, <2>2, <2>3
<1>15. Strung(a, n - 1, nx2, pv2)
       BY <1>3, <1>9, <1>10, <1>11, <1>12, <1>13, <1>14 DEF Strung
<1> QED BY <1>15 DEF a, nx2, pv2, x

Before(c, k, v) == [i \in 1 .. Len(c) + 1 |-> IF i <= k THEN c[i] ELSE IF i = k + 1 THEN v ELSE c[i - 1]]

LEMMA FrontAndBack ==
    ASSUME NEW S, NEW c \in Seq(S), NEW v \in S
    PROVE  /\ <<v>> \o c = Before(c, 0, v) /\ <<v>> \o c \in Seq(S) /\ Len(<<v>> \o c) = Len(c) + 1
           /\ Append(c, v) = Before(c, Len(c), v) /\ Append(c, v) \in Seq(S) /\ Len(Append(c, v)) = Len(c) + 1
<1>0. Len(c) \in Nat /\ <<v>> \in Seq(S) /\ Len(<<v>>) = 1 /\ <<v>>[1] = v
      BY LenProperties
<1>1. /\ <<v>> \o c \in Seq(S) /\ Len(<<v>> \o c) = Len(c) + 1
      /\ \A i \in 1 .. 1 + Len(c) : (<<v>> \o c)[i] = IF i <= 1 THEN <<v>>[i] ELSE c[i - 1]
      BY <1>0, ConcatProperties
<1>2. /\ Append(c, v) \in Seq(S) /\ Len(Append(c, v)) = Len(c) + 1
      /\ \A i \in 1 .. Len(c) + 1 : Append(c, v)[i] = IF i <= Len(c) THEN c[i] ELSE v
      BY <1>0
<1> DEFINE f == <<v>> \o c
           b == Append(c, v)
<1>3. f = [i \in 1 .. Len(c) + 1 |-> f[i]] /\ b = [i \in 1 .. Len(c) + 1 |-> b[i]]
      BY <1>1, <1>2, LenProperties
<1>4. \A i \in 1 .. Len(c) + 1 : f[i] = IF i <= 0 THEN c[i] ELSE IF i = 0 + 1 THEN v ELSE c[i - 1]
      BY <1>0, <1>1
<1>5. \A i \in 1 .. Len(c) + 1 : b[i] = IF i <= Len(c) THEN c[i] ELSE IF i = Len(c) + 1 THEN v ELSE c[i - 1]
      BY <1>0, <1>2
<1> HIDE DEF f, b
<1>6. f = Before(c, 0, v)
      BY <1>3, <1>4 DEF Before
<1>7. b = Before(c, Len(c), v)
      BY <1>3, <1>5 DEF Before
<1> QED BY <1>1, <1>2, <1>6, <1>7 DEF f, b

LEMMA Without ==
    ASSUME NEW S, NEW c \in Seq(S), NEW k \in 1 .. Len(c)
    PROVE  /\ List!RemoveAt(c, k) \in Seq(S) /\ Len(List!RemoveAt(c, k)) = Len(c) - 1
           /\ \A i \in 1 .. Len(c) - 1 : List!RemoveAt(c, k)[i] = IF i < k THEN c[i] ELSE c[i + 1]
<1>0. Len(c) \in Nat /\ \A i \in 1 .. Len(c) : c[i] \in S
      BY LenProperties, ElementOfSeq
<1> DEFINE p == SubSeq(c, 1, k - 1)
           q == SubSeq(c, k + 1, Len(c))
<1>1. p \in Seq(S) /\ Len(p) = k - 1 /\ \A i \in 1 .. k - 1 : p[i] = c[i]
  <2>1. \A i \in 1 .. k - 1 : c[i] \in S
        BY <1>0
  <2>2. /\ p \in Seq(S) /\ Len(p) = IF 1 <= k - 1 THEN (k - 1) - 1 + 1 ELSE 0
        /\ \A i \in 1 .. (k - 1) - 1 + 1 : p[i] = c[1 + i - 1]
        BY <1>0, <2>1, SubSeqProperties
  <2> QED BY <1>0, <2>2
<1>2. q \in Seq(S) /\ Len(q) = Len(c) - k /\ \A i \in 1 .. Len(c) - k : q[i] = c[k + i]
  <2>1. \A i \in k + 1 .. Len(c) : c[i] \in S
        BY <1>0
  <2>2. /\ q \in Seq(S) /\ Len(q) = IF k + 1 <= Len(c) THEN Len(c) - (k + 1) + 1 ELSE 0
        /\ \A i \in 1 .. Len(c) - (k + 1) + 1 : q[i] = c[k + 1 + i - 1]
        BY <1>0, <2>1, SubSeqProperties
  <2> QED BY <1>0, <2>2
<1>3. List!RemoveAt(c, k) = p \o q
      BY DEF List!RemoveAt
<1> HIDE DEF p, q
<1>4. /\ p \o q \in Seq(S) /\ Len(p \o q) = Len(p) + Len(q)
      /\ \A i \in 1 .. Len(p) + Len(q) : (p \o q)[i] = IF i <= Len(p) THEN p[i] ELSE q[i - Len(p)]
      BY <1>1, <1>2, ConcatProperties
<1>5. ASSUME NEW i \in 1 .. Len(c) - 1 PROVE (p \o q)[i] = IF i < k THEN c[i] ELSE c[i + 1]
  <2>1. CASE i < k
        BY <1>0, <1>1, <1>2, <1>4, <2>1
  <2>2. CASE i >= k
    <3>1. (p \o q)[i] = q[i - (k - 1)]
          BY <1>0, <1>1, <1>2, <1>4, <2>2
    <3>2. i - (k - 1) \in 1 .. Len(c) - k /\ k + (i - (k - 1)) = i + 1
          BY <1>0, <2>2
    <3> QED BY <1>2, <2>2, <3>1, <3>2
  <2>3. i < k \/ i >= k
        BY <1>0
  <2> QED BY <2>1, <2>2, <2>3
<1> QED BY <1>0, <1>1, <1>2, <1>3, <1>4, <1>5

\* The nodes of the list are strung along pos, and hold the contents.
Holds(pos) ==
    /\ Strung(pos, Len(contents), node_next, node_prev)
    /\ \A k \in 1 .. Len(contents) : val[pos[k]] = contents[k]

ListInv ==
    /\ contents \in Seq(Val)
    /\ val = [x \in Nodes |-> val[x]]
    /\ size \in Int /\ first_size \in Int /\ size - first_size = Len(contents)
    /\ \E pos : Holds(pos)

LEMMA ListStart == List!Init => ListInv
<1> SUFFICES ASSUME List!Init PROVE ListInv
    OBVIOUS
<1> DEFINE pos == [k \in 0 .. 1 |-> IF k = 0 THEN dummy_head ELSE dummy_tail]
<1>0. contents = <<>> /\ Len(contents) = 0 /\ contents \in Seq(Val)
      BY DEF List!Init
<1>1. /\ node_next = [x \in Address |-> IF x = dummy_head THEN dummy_tail ELSE nullptr]
      /\ node_prev = [x \in Address |-> IF x = dummy_tail THEN dummy_head ELSE nullptr]
      BY DEF List!Init, Address, List!Address
<1>2. pos \in [0 .. 1 -> Address] /\ pos[0] = dummy_head /\ pos[1] = dummy_tail
      BY Addresses
<1> HIDE DEF pos
<1>3. \A k \in 0 .. 1 : k = 0 \/ k = 1
      OBVIOUS
<1>4. \A k \in 0 .. 0 : k = 0
      OBVIOUS
<1>5. \A k, l \in 0 .. 1 : pos[k] = pos[l] => k = l
      BY <1>2, <1>3, ListConstants
<1>6. /\ node_next \in [Address -> Address \cup {nullptr}]
      /\ node_prev \in [Address -> Address \cup {nullptr}]
      BY <1>1, Addresses
<1>7. \A k \in 0 .. 0 : node_next[pos[k]] = pos[k + 1] /\ node_prev[pos[k + 1]] = pos[k]
  <2>1. node_next[pos[0]] = pos[1] /\ node_prev[pos[1]] = pos[0]
        BY <1>1, <1>2, Addresses
  <2> QED BY <1>4, <2>1
<1>8. \A x \in Nodes : node_next[x] = nullptr <=> \A k \in 0 .. 1 : pos[k] # x
  <2>1. \A x \in Nodes : x \in Address /\ x # dummy_head /\ x # dummy_tail
        BY Addresses, ListConstants
  <2> QED BY <1>1, <1>2, <1>3, <2>1
<1>9. Strung(pos, 0, node_next, node_prev)
      BY <1>2, <1>5, <1>6, <1>7, <1>8 DEF Strung
<1>10. Holds(pos)
       BY <1>0, <1>9 DEF Holds
<1>11. val = [x \in Nodes |-> val[x]] /\ size \in Int /\ first_size \in Int /\ size - first_size = 0
       BY ListConstants DEF List!Init
<1> QED BY <1>0, <1>10, <1>11 DEF ListInv

\* A node is put behind the one at place k.
LEMMA ListPush ==
    ASSUME ListInv, NEW pos, Holds(pos), NEW k \in 0 .. Len(contents), NEW v \in Val,
           List!Push(pos[k], v), contents' = Before(contents, k, v),
           contents' \in Seq(Val), Len(contents') = Len(contents) + 1, first_size' = first_size
    PROVE  ListInv'
<1> DEFINE n == Len(contents)
<1>0. n \in Nat /\ contents \in Seq(Val)
      BY LenProperties DEF ListInv
<1>1. Strung(pos, n, node_next, node_prev) /\ \A i \in 1 .. n : val[pos[i]] = contents[i]
      BY DEF Holds
<1>2. PICK x \in Nodes : /\ node_next[x] = nullptr /\ val' = [val EXCEPT ![x] = v]
                         /\ List!insert(pos[k], x)
      BY DEF List!Push, List!Free
<1>3. /\ node_prev' = [node_prev EXCEPT ![x] = pos[k], ![node_next[pos[k]]] = x]
      /\ node_next' = [node_next EXCEPT ![x] = node_next[pos[k]], ![pos[k]] = x]
      /\ size' = size + 1
      BY <1>2 DEF List!insert, List!PrevOf
<1> DEFINE a == Inserted(pos, n, k, x)
<1>4. Strung(a, n + 1, node_next', node_prev')
  <2> HIDE DEF n, a
  <2>1. Strung(Inserted(pos, n, k, x), n + 1,
               [node_next EXCEPT ![x] = node_next[pos[k]], ![pos[k]] = x],
               [node_prev EXCEPT ![x] = pos[k], ![node_next[pos[k]]] = x])
        BY <1>0, <1>1, <1>2, InsertStrings DEF n
  <2> QED BY <1>3, <2>1 DEF a
<1>5. ASSUME NEW i \in 1 .. n + 1 PROVE val'[a[i]] = contents'[i]
  <2>1. /\ contents'[i] = IF i <= k THEN contents[i] ELSE IF i = k + 1 THEN v ELSE contents[i - 1]
        /\ a[i] = IF i <= k THEN pos[i] ELSE IF i = k + 1 THEN x ELSE pos[i - 1]
        BY <1>0 DEF Before, Inserted
  <2>2. /\ \A y \in Nodes : val'[y] = IF y = x THEN v ELSE val[y]
        /\ \A l \in 1 .. n : pos[l] \in Nodes /\ pos[l] # x
    <3>1. \A y \in Nodes : val'[y] = IF y = x THEN v ELSE val[y]
          BY <1>2 DEF ListInv
    <3>2. \A l \in 1 .. n : pos[l] \in Nodes
          BY <1>0, <1>1, StrungNodes
    <3>3. \A l \in 0 .. n + 1 : pos[l] # x
          BY <1>1, <1>2 DEF Strung
    <3> QED BY <1>0, <3>1, <3>2, <3>3
  <2> HIDE DEF a
  <2>3. CASE i <= k
    <3>1. i \in 1 .. n
          BY <1>0, <2>3
    <3> QED BY <1>1, <2>1, <2>2, <2>3, <3>1
  <2>4. CASE i = k + 1
        BY <2>1, <2>2, <2>4
  <2>5. CASE i > k + 1
    <3>1. i - 1 \in 1 .. n
          BY <1>0, <2>5
    <3> QED BY <1>1, <2>1, <2>2, <2>5, <3>1
  <2> QED BY <2>3, <2>4, <2>5
<1>6. PICK b : b = a
      OBVIOUS
<1>9. Holds(b)'
  <2> HIDE DEF a
  <2>1. Strung(b, Len(contents'), node_next', node_prev')
        BY <1>4, <1>6
  <2>2. \A i \in 1 .. Len(contents') : val'[b[i]] = contents'[i]
        BY <1>5, <1>6
  <2> QED BY <2>1, <2>2 DEF Holds
<1>7. val' = [y \in Nodes |-> val'[y]]
      BY <1>2 DEF ListInv
<1>8. size' \in Int /\ first_size' \in Int /\ size' - first_size' = Len(contents')
  <2>1. size \in Int /\ first_size \in Int /\ size - first_size = n
        BY DEF ListInv
  <2>2. size' = size + 1 /\ first_size' = first_size /\ Len(contents') = n + 1
        BY <1>3
  <2> HIDE DEF n
  <2> QED BY <1>0, <2>1, <2>2
<1> QED BY <1>7, <1>8, <1>9 DEF ListInv

Backwards(pos, n) == [k \in 0 .. n + 1 |-> pos[(n + 1) - k]]

LEMMA StrungLeads ==
    ASSUME NEW n \in Nat, NEW pos, NEW nx, NEW pv, Strung(pos, n, nx, pv)
    PROVE  /\ List!Walk(dummy_head, nx, dummy_tail) = [k \in 1 .. n |-> pos[k]]
           /\ List!Walk(dummy_tail, pv, dummy_head) = [k \in 1 .. n |-> pos[(n + 1) - k]]
<1> DEFINE b == Backwards(pos, n)
<1>0. n <= Steps /\ 0 \in 0 .. n + 1 /\ n + 1 \in 0 .. n + 1
      BY StrungNodes
<1>1. Leads(pos, n, dummy_head, nx, dummy_tail)
  <2>1. \A k \in 0 .. n : k \in 0 .. n + 1 /\ k # n + 1
        OBVIOUS
  <2>2. \A k \in 0 .. n : pos[k] # dummy_tail
        BY <1>0, <2>1 DEF Strung
  <2> QED BY <2>2 DEF Strung, Leads
<1>2. Leads(b, n, dummy_tail, pv, dummy_head)
  <2>1. \A k \in 0 .. n + 1 : (n + 1) - k \in 0 .. n + 1 /\ b[k] = pos[(n + 1) - k]
        BY DEF Backwards
  <2>2. b \in [0 .. n + 1 -> Address]
        BY <2>1 DEF Backwards, Strung
  <2>3. b[0] = dummy_tail /\ b[n + 1] = dummy_head
    <3>1. (n + 1) - 0 = n + 1 /\ (n + 1) - (n + 1) = 0
          OBVIOUS
    <3> QED BY <1>0, <2>1, <3>1 DEF Strung
  <2> HIDE DEF b
  <2>4. ASSUME NEW k \in 0 .. n PROVE pv[b[k]] = b[k + 1] /\ b[k] # dummy_head
    <3>1. /\ k \in 0 .. n + 1 /\ k + 1 \in 0 .. n + 1 /\ (n + 1) - (k + 1) = n - k
          /\ n - k \in 0 .. n /\ (n - k) + 1 = (n + 1) - k /\ (n + 1) - k # 0 /\ (n + 1) - k \in 0 .. n + 1
          OBVIOUS
    <3>2. pv[pos[(n - k) + 1]] = pos[n - k]
          BY <3>1 DEF Strung
    <3>3. pos[(n + 1) - k] # dummy_head
          BY <1>0, <3>1 DEF Strung
    <3>4. b[k] = pos[(n + 1) - k] /\ b[k + 1] = pos[n - k]
          BY <2>1, <3>1
    <3> QED BY <3>1, <3>2, <3>3, <3>4
  <2> QED BY <2>2, <2>3, <2>4 DEF Leads
<1>3. List!Walk(dummy_head, nx, dummy_tail) = [k \in 1 .. n |-> pos[k]]
      BY <1>0, <1>1, WalkIs
<1>4. List!Walk(dummy_tail, pv, dummy_head) = [k \in 1 .. n |-> b[k]]
      BY <1>0, <1>2, WalkIs
<1>5. \A k \in 1 .. n : b[k] = pos[(n + 1) - k]
      BY DEF Backwards
<1> HIDE DEF b
<1> QED BY <1>3, <1>4, <1>5

\* Where a value is found.
LEMMA Finds ==
    ASSUME ListInv, NEW pos, Holds(pos), NEW v,
           NEW found, found = {k \in 1 .. Len(contents) : contents[k] = v}
    PROVE  /\ found = {} => List!findListNode(v) = nullptr
           /\ found # {} => List!findListNode(v) = pos[List!Min(found)] /\ List!Min(found) \in found
           /\ List!findListNode(v) # nullptr <=> found # {}
<1> DEFINE n == Len(contents)
           right == List!Walk(dummy_head, node_next, dummy_tail)
<1>0. n \in Nat
      BY LenProperties DEF ListInv
<1>1. Strung(pos, n, node_next, node_prev) /\ \A k \in 1 .. n : val[pos[k]] = contents[k]
      BY DEF Holds
<1>2. right = [k \in 1 .. n |-> pos[k]] /\ \A k \in 1 .. n : pos[k] \in Nodes
  <2> HIDE DEF n
  <2> QED BY <1>0, <1>1, StrungLeads, StrungNodes
<1>3. Len(right) = n
      BY <1>0, <1>2
<1>4. {k \in 1 .. Len(right) : val[right[k]] = v} = found
  <2> HIDE DEF right
  <2> QED BY <1>1, <1>2, <1>3
<1>5. List!findListNode(v) = IF found = {} THEN nullptr ELSE right[List!Min(found)]
      BY <1>4 DEF List!findListNode
<1> HIDE DEF right, n
<1>6. found # {} => List!Min(found) \in found
  <2> SUFFICES ASSUME found # {} PROVE List!Min(found) \in found
      OBVIOUS
  <2>1. found \in SUBSET Nat
        BY <1>0 DEF n
  <2>2. PICK x \in found : \A y \in found : ~(y < x)
        BY <2>1, HasSmallest
  <2>3. \A y \in found : x <= y
        BY <2>1, <2>2
  <2> QED BY <2>2, <2>3 DEF List!Min
<1>7. found # {} => List!findListNode(v) = pos[List!Min(found)]
  <2> SUFFICES ASSUME found # {} PROVE List!findListNode(v) = pos[List!Min(found)]
      OBVIOUS
  <2>1. List!Min(found) \in 1 .. n
        BY <1>6 DEF n
  <2> QED BY <1>2, <1>5, <2>1
<1>8. found # {} => List!findListNode(v) # nullptr
  <2>1. found # {} => List!Min(found) \in 1 .. n
        BY <1>6 DEF n
  <2> QED BY <1>2, <1>7, <2>1, ListConstants
<1> QED BY <1>5, <1>6, <1>7, <1>8

LEMMA ListRemove ==
    ASSUME ListInv, NEW pos, Holds(pos), NEW v \in Val, List!FindAndRemove(v)
    PROVE  ListInv'
<1>0. PICK n \in Nat : n = Len(contents)
      BY LenProperties DEF ListInv
<1> DEFINE found == {i \in 1 .. Len(contents) : contents[i] = v}
<1>1. /\ found = {} => List!findListNode(v) = nullptr
      /\ found # {} => List!findListNode(v) = pos[List!Min(found)] /\ List!Min(found) \in found
  <2>1. PICK f : f = {i \in 1 .. Len(contents) : contents[i] = v}
        OBVIOUS
  <2>2. /\ f = {} => List!findListNode(v) = nullptr
        /\ f # {} => List!findListNode(v) = pos[List!Min(f)] /\ List!Min(f) \in f
        BY <2>1, Finds
  <2>3. f = found
        BY <2>1
  <2> HIDE DEF found
  <2> QED BY <2>2, <2>3
<1>2. PICK k \in 1 .. n : k = List!Min(found) /\ List!findListNode(v) = pos[k]
  <2>1. List!findListNode(v) # nullptr
        BY DEF List!FindAndRemove
  <2> QED BY <1>0, <1>1, <2>1
<1>3. PICK x : x = pos[k]
      OBVIOUS
<1>4. /\ node_prev' = [node_prev EXCEPT ![node_next[x]] = node_prev[x], ![x] = nullptr]
      /\ node_next' = [node_next EXCEPT ![node_prev[x]] = node_next[x], ![x] = nullptr]
      /\ val' = [val EXCEPT ![x] = 0]
      /\ size' = size - 1 /\ first_size' = first_size
      /\ contents' = List!RemoveAt(contents, k)
      BY <1>2, <1>3 DEF List!FindAndRemove
<1>5. /\ contents' \in Seq(Val) /\ Len(contents') = n - 1
      /\ \A i \in 1 .. n - 1 : contents'[i] = IF i < k THEN contents[i] ELSE contents[i + 1]
  <2>1. contents \in Seq(Val) /\ k \in 1 .. Len(contents)
        BY <1>0 DEF ListInv
  <2> QED BY <1>0, <1>4, <2>1, Without
<1>6. Strung(pos, n, node_next, node_prev) /\ \A i \in 1 .. n : val[pos[i]] = contents[i]
      BY <1>0 DEF Holds
<1>7. PICK b : b = Removed(pos, n, k)
      OBVIOUS
<1>8. Strung(b, n - 1, node_next', node_prev')
      BY <1>3, <1>4, <1>6, <1>7, RemoveStrings
<1>9. ASSUME NEW i \in 1 .. n - 1 PROVE val'[b[i]] = contents'[i]
  <2>1. b[i] = IF i < k THEN pos[i] ELSE pos[i + 1]
        BY <1>7 DEF Removed
  <2>2. x \in Nodes /\ \A y \in Nodes : val'[y] = IF y = x THEN 0 ELSE val[y]
    <3>1. x \in Nodes
          BY <1>3, <1>6, StrungNodes
    <3> QED BY <1>4, <3>1 DEF ListInv
  <2>3. \A l \in 1 .. n : pos[l] \in Nodes /\ (l # k => pos[l] # x)
    <3>1. \A l \in 1 .. n : pos[l] \in Nodes
          BY <1>6, StrungNodes
    <3>2. \A l \in 1 .. n : l \in 0 .. n + 1
          OBVIOUS
    <3>3. \A l, m \in 0 .. n + 1 : pos[l] = pos[m] => l = m
          BY <1>6 DEF Strung
    <3> QED BY <1>3, <3>1, <3>2, <3>3
  <2>4. CASE i < k
    <3>1. i \in 1 .. n /\ i # k
          BY <2>4
    <3> QED BY <1>5, <1>6, <2>1, <2>2, <2>3, <2>4, <3>1
  <2>5. CASE i >= k
    <3>1. i + 1 \in 1 .. n /\ i + 1 # k /\ ~(i < k)
          BY <2>5
    <3> QED BY <1>5, <1>6, <2>1, <2>2, <2>3, <3>1
  <2> QED BY <2>4, <2>5
<1>10. Holds(b)'
       BY <1>5, <1>8, <1>9 DEF Holds
<1>11. val' = [y \in Nodes |-> val'[y]]
       BY <1>4 DEF ListInv
<1>12. size' \in Int /\ first_size' \in Int /\ size' - first_size' = Len(contents')
  <2>1. size \in Int /\ first_size \in Int /\ size - first_size = n
        BY <1>0 DEF ListInv
  <2>2. size' = size - 1 /\ first_size' = first_size /\ Len(contents') = n - 1
        BY <1>4, <1>5
  <2> QED BY <2>1, <2>2
<1> QED BY <1>5, <1>10, <1>11, <1>12 DEF ListInv

LEMMA ListStep == ListInv /\ [List!Next]_nodes => ListInv'
<1> SUFFICES ASSUME ListInv, [List!Next]_nodes PROVE ListInv'
    OBVIOUS
<1>0. PICK pos : Holds(pos)
      BY DEF ListInv
<1>1. Len(contents) \in Nat /\ contents \in Seq(Val)
      BY LenProperties DEF ListInv
<1>2. Strung(pos, Len(contents), node_next, node_prev)
      BY <1>0 DEF Holds
<1>3. ASSUME NEW v \in Val, List!pushFront(v) PROVE ListInv'
  <2>1. /\ List!Push(dummy_head, v) /\ contents' = <<v>> \o contents /\ first_size' = first_size
        BY <1>3 DEF List!pushFront
  <2>2. pos[0] = dummy_head /\ 0 \in 0 .. Len(contents)
        BY <1>1, <1>2 DEF Strung
  <2>3. /\ contents' = Before(contents, 0, v) /\ contents' \in Seq(Val)
        /\ Len(contents') = Len(contents) + 1
        BY <1>1, <2>1, FrontAndBack
  <2> QED BY <1>0, <2>1, <2>2, <2>3, ListPush
<1>4. ASSUME NEW v \in Val, List!pushBack(v) PROVE ListInv'
  <2>1. /\ List!Push(node_prev[dummy_tail], v) /\ contents' = Append(contents, v)
        /\ first_size' = first_size
        BY <1>4 DEF List!pushBack
  <2>2. pos[Len(contents)] = node_prev[dummy_tail] /\ Len(contents) \in 0 .. Len(contents)
        BY <1>1, <1>2 DEF Strung
  <2>3. /\ contents' = Before(contents, Len(contents), v) /\ contents' \in Seq(Val)
        /\ Len(contents') = Len(contents) + 1
        BY <1>1, <2>1, FrontAndBack
  <2> QED BY <1>0, <2>1, <2>2, <2>3, ListPush
<1>5. ASSUME NEW v \in Val, List!FindAndRemove(v) PROVE ListInv'
      BY <1>0, <1>5, ListRemove
<1>6. CASE UNCHANGED nodes
      BY <1>6 DEF ListInv, Holds, nodes
<1> QED BY <1>3, <1>4, <1>5, <1>6 DEF List!Next

LEMMA ListAnswers == ListInv => List!KeepsContents
<1> SUFFICES ASSUME ListInv PROVE List!KeepsContents
    OBVIOUS
<1>0. PICK pos : Holds(pos)
      BY DEF ListInv
<1>1. PICK n \in Nat : n = Len(contents)
      BY LenProperties DEF ListInv
<1> DEFINE right == List!Walk(dummy_head, node_next, dummy_tail)
           left  == List!Walk(dummy_tail, node_prev, dummy_head)
<1>2. Strung(pos, n, node_next, node_prev) /\ \A k \in 1 .. n : val[pos[k]] = contents[k]
      BY <1>0, <1>1 DEF Holds
<1>3. right = [k \in 1 .. n |-> pos[k]] /\ left = [k \in 1 .. n |-> pos[(n + 1) - k]]
      BY <1>2, StrungLeads
<1>4. contents = [k \in 1 .. n |-> contents[k]]
      BY <1>1, LenProperties DEF ListInv
<1>5. DOMAIN contents = 1 .. n
      BY <1>1, LenProperties DEF ListInv
<1> HIDE DEF right, left
<1>6. Len(right) = n
      BY <1>3
<1>7. [k \in 1 .. Len(right) |-> val[right[k]]] = contents
      BY <1>2, <1>3, <1>4, <1>6
<1>8. left = List!Reverse(right)
  <2>1. \A k \in 1 .. n : (n - k) + 1 \in 1 .. n /\ (n - k) + 1 = (n + 1) - k
        OBVIOUS
  <2>2. \A k \in 1 .. n : right[(n - k) + 1] = pos[(n + 1) - k]
        BY <1>3, <2>1
  <2> QED BY <1>3, <1>6, <2>2 DEF List!Reverse
<1>9. ASSUME NEW v \in Val PROVE (List!findListNode(v) # nullptr) <=> (v \in List!ToSet(contents))
  <2>1. PICK f : f = {k \in 1 .. Len(contents) : contents[k] = v}
        OBVIOUS
  <2>2. List!findListNode(v) # nullptr <=> f # {}
        BY <1>0, <2>1, Finds
  <2>3. f # {} <=> \E k \in 1 .. n : contents[k] = v
        BY <1>1, <2>1
  <2> QED BY <1>5, <2>2, <2>3 DEF List!ToSet
<1>10. size - first_size = Len(contents)
       BY DEF ListInv
<1> QED BY <1>7, <1>8, <1>9, <1>10 DEF List!KeepsContents, right, left

-----------------------------------------------------------------------------
(* priority_queue.cpp: the larger half of the numbers and the smaller half.    *)

LEMMA NumsAre == Num \subseteq Int
BY StructuresAssumption DEF StructuresAssumption

LEMMA MedianCounts ==
    ASSUME NEW S
    PROVE  Median!Cardinality(S) = Cardinality(S) /\ Median!size(S) = Cardinality(S)
BY DEF Median!size, Median!Cardinality, Cardinality

Entry == Num \X Nat

LEMMA Entries == \A e \in Entry : e[1] \in Int /\ e[1] \in Num
BY NumsAre DEF Entry

Below(S, x) == {e \in S : e[1] < x}
Above(S, x) == {e \in S : e[1] > x}
UpTo(S, x)  == {e \in S : e[1] <= x}

LEMMA Parts ==
    ASSUME NEW S, IsFiniteSet(S), NEW x
    PROVE  /\ IsFiniteSet(Below(S, x)) /\ Cardinality(Below(S, x)) \in Nat
           /\ IsFiniteSet(Above(S, x)) /\ Cardinality(Above(S, x)) \in Nat
           /\ IsFiniteSet(UpTo(S, x)) /\ Cardinality(UpTo(S, x)) \in Nat
<1>1. Below(S, x) \in SUBSET S /\ Above(S, x) \in SUBSET S /\ UpTo(S, x) \in SUBSET S
      BY DEF Below, Above, UpTo
<1> QED BY <1>1, FS_Subset, FS_CardinalityType

LEMMA Proper ==
    ASSUME NEW T, IsFiniteSet(T), NEW U \in SUBSET T, NEW e \in T, e \notin U
    PROVE  Cardinality(U) < Cardinality(T)
<1>1. Cardinality(U) <= Cardinality(T) /\ Cardinality(U) # Cardinality(T)
      BY FS_Subset
<1>2. Cardinality(U) \in Nat /\ Cardinality(T) \in Nat
      BY FS_Subset, FS_CardinalityType
<1> QED BY <1>1, <1>2

LEMMA PartsGrow ==
    ASSUME NEW S \in SUBSET Entry, IsFiniteSet(S), NEW a \in S, NEW b \in S, a[1] < b[1]
    PROVE  /\ Cardinality(Below(S, a[1])) < Cardinality(Below(S, b[1]))
           /\ Cardinality(Above(S, b[1])) < Cardinality(Above(S, a[1]))
<1>1. \A e \in S : e[1] \in Int
      BY Entries
<1>2. /\ Below(S, a[1]) \in SUBSET Below(S, b[1])
      /\ a \in Below(S, b[1]) /\ a \notin Below(S, a[1])
      BY <1>1 DEF Below
<1>3. /\ Above(S, b[1]) \in SUBSET Above(S, a[1])
      /\ b \in Above(S, a[1]) /\ b \notin Above(S, b[1])
      BY <1>1 DEF Above
<1> QED BY <1>2, <1>3, Parts, Proper

\* A finite set of entries has one with the least number, and one with the greatest.
LEMMA Extremes ==
    ASSUME NEW S \in SUBSET Entry, IsFiniteSet(S), S # {}
    PROVE  /\ Median!top1(S) \in S /\ \A f \in S : Median!top1(S)[1] <= f[1]
           /\ Median!top2(S) \in S /\ \A f \in S : Median!top2(S)[1] >= f[1]
<1>1. \A e \in S : e[1] \in Int
      BY Entries
<1>2. \E e \in S : \A f \in S : e[1] <= f[1]
  <2> DEFINE C == {Cardinality(Below(S, e[1])) : e \in S}
  <2>1. C \in SUBSET Nat /\ C # {}
        BY Parts
  <2>2. PICK e \in S : \A f \in S : ~(Cardinality(Below(S, f[1])) < Cardinality(Below(S, e[1])))
    <3>1. PICK c \in C : \A d \in C : ~(d < c)
          BY <2>1, HasSmallest
    <3> QED BY <3>1
  <2>3. \A f \in S : ~(f[1] < e[1])
        BY <2>2, PartsGrow
  <2> QED BY <1>1, <2>3
<1>3. \E e \in S : \A f \in S : e[1] >= f[1]
  <2> DEFINE C == {Cardinality(Above(S, e[1])) : e \in S}
  <2>1. C \in SUBSET Nat /\ C # {}
        BY Parts
  <2>2. PICK e \in S : \A f \in S : ~(Cardinality(Above(S, f[1])) < Cardinality(Above(S, e[1])))
    <3>1. PICK c \in C : \A d \in C : ~(d < c)
          BY <2>1, HasSmallest
    <3> QED BY <3>1
  <2>3. \A f \in S : ~(e[1] < f[1])
        BY <2>2, PartsGrow
  <2> QED BY <1>1, <2>3
<1> QED BY <1>2, <1>3 DEF Median!top1, Median!top2

\* The larger half and the smaller half of what was added, of the same size or with one
\* entry more in the larger.
MedianInv ==
    /\ nums \in SUBSET Entry /\ IsFiniteSet(nums)
    /\ \A e \in nums : e[2] < Cardinality(nums)
    /\ heap1 \cup heap2 = nums /\ heap1 \cap heap2 = {}
    /\ \A e \in heap1, f \in heap2 : f[1] <= e[1]
    /\ Cardinality(heap1) \in {Cardinality(heap2), Cardinality(heap2) + 1}

LEMMA Halves ==
    ASSUME MedianInv
    PROVE  /\ heap1 \in SUBSET Entry /\ IsFiniteSet(heap1) /\ Cardinality(heap1) \in Nat
           /\ heap2 \in SUBSET Entry /\ IsFiniteSet(heap2) /\ Cardinality(heap2) \in Nat
           /\ Cardinality(nums) = Cardinality(heap1) + Cardinality(heap2)
           /\ Cardinality(nums) \in Nat
<1>1. heap1 \in SUBSET nums /\ heap2 \in SUBSET nums /\ nums \in SUBSET Entry
      BY DEF MedianInv
<1>2. /\ IsFiniteSet(heap1) /\ Cardinality(heap1) \in Nat
      /\ IsFiniteSet(heap2) /\ Cardinality(heap2) \in Nat /\ Cardinality(nums) \in Nat
      BY <1>1, FS_Subset, FS_CardinalityType DEF MedianInv
<1>3. Cardinality(heap1 \cap heap2) = 0
      BY FS_EmptySet DEF MedianInv
<1>4. Cardinality(heap1 \cup heap2)
        = Cardinality(heap1) + Cardinality(heap2) - Cardinality(heap1 \cap heap2)
      BY <1>2, FS_Union
<1>5. Cardinality(nums) = Cardinality(heap1) + Cardinality(heap2)
  <2>1. Cardinality(nums) = Cardinality(heap1) + Cardinality(heap2) - 0
        BY <1>3, <1>4, Zenon DEF MedianInv
  <2> QED BY <1>2, <2>1
<1> QED BY <1>1, <1>2, <1>5

LEMMA MedianStart == Median!Init => MedianInv
BY FS_EmptySet DEF Median!Init, MedianInv

LEMMA MedianStep == ASSUME MedianInv, [Median!Next]_(Median!vars) PROVE MedianInv'
<1>1. CASE UNCHANGED Median!vars
      BY <1>1 DEF Median!vars, MedianInv
<1>2. ASSUME NEW num \in Num, Median!addNum(num) PROVE MedianInv'
  <2> DEFINE e == <<num, Cardinality(nums)>>
  <2>1. /\ IF Cardinality(heap1) # Cardinality(heap2) THEN Median!IntoSmaller(e) ELSE Median!IntoLarger(e)
        /\ nums' = nums \cup {e}
        BY <1>2, MedianCounts DEF Median!addNum
  <2>2. e \in Entry /\ e \notin nums /\ e[1] = num /\ e[2] = Cardinality(nums)
        BY Halves DEF MedianInv, Entry
  <2> HIDE DEF e
  <2>3. /\ nums' \in SUBSET Entry /\ IsFiniteSet(nums') /\ Cardinality(nums') = Cardinality(nums) + 1
        BY <2>1, <2>2, FS_AddElement DEF MedianInv
  <2>4. \A f \in nums' : f[2] < Cardinality(nums')
    <3>1. \A f \in nums : f[2] < Cardinality(nums) /\ f[2] \in Nat
          BY DEF MedianInv, Entry
    <3> QED BY <2>1, <2>2, <2>3, <3>1, Halves
  <2>5. /\ heap1 \in SUBSET Entry /\ IsFiniteSet(heap1) /\ Cardinality(heap1) \in Nat
        /\ heap2 \in SUBSET Entry /\ IsFiniteSet(heap2) /\ Cardinality(heap2) \in Nat
        /\ heap1 \cup heap2 = nums /\ heap1 \cap heap2 = {}
        /\ \A a \in heap1, b \in heap2 : b[1] <= a[1]
        /\ Cardinality(heap1) \in {Cardinality(heap2), Cardinality(heap2) + 1}
        BY Halves DEF MedianInv
  <2>6. CASE Cardinality(heap1) # Cardinality(heap2)
    <3> DEFINE pushed == heap1 \cup {e}
               t == Median!top1(pushed)
    <3>1. heap1' = pushed \ {t} /\ heap2' = heap2 \cup {t}
          BY <2>1, <2>6 DEF Median!IntoSmaller
    <3>2. pushed \in SUBSET Entry /\ IsFiniteSet(pushed) /\ pushed # {}
          BY <2>2, <2>5, FS_AddElement
    <3>3. t \in pushed /\ \A f \in pushed : t[1] <= f[1]
          BY <3>2, Extremes
    <3> HIDE DEF t
    <3>4. /\ Cardinality(pushed \ {t}) = Cardinality(heap1)
          /\ Cardinality(heap2 \cup {t}) = Cardinality(heap2) + 1
          /\ (pushed \ {t}) \cup (heap2 \cup {t}) = heap1 \cup heap2 \cup {e}
          /\ (pushed \ {t}) \cap (heap2 \cup {t}) = {}
      <4>1. IsFiniteSet(heap1) /\ IsFiniteSet(heap2) /\ t \in heap1 \cup {e} /\ heap1 \cap heap2 = {}
            BY <2>5, <3>3
      <4>2. e \notin heap1 /\ e \notin heap2
            BY <2>2, <2>5
      <4>3. /\ Cardinality((heap1 \cup {e}) \ {t}) = Cardinality(heap1)
            /\ Cardinality(heap2 \cup {t}) = Cardinality(heap2) + 1
        <5>1. IsFiniteSet(heap1 \cup {e}) /\ Cardinality(heap1 \cup {e}) = Cardinality(heap1) + 1
              BY <4>1, <4>2, FS_AddElement
        <5>2. Cardinality((heap1 \cup {e}) \ {t}) = Cardinality(heap1 \cup {e}) - 1
              BY <4>1, <5>1, FS_RemoveElement
        <5>3. t \notin heap2
              BY <4>1, <4>2
        <5>4. Cardinality(heap2 \cup {t}) = Cardinality(heap2) + 1
              BY <4>1, <5>3, FS_AddElement
        <5> QED BY <2>5, <5>1, <5>2, <5>4
      <4>4. (pushed \ {t}) \cup (heap2 \cup {t}) = heap1 \cup heap2 \cup {e}
            BY <4>1
      <4>5. (pushed \ {t}) \cap (heap2 \cup {t}) = {}
            BY <4>1, <4>2
      <4> QED BY <4>3, <4>4, <4>5
    <3>5. \A a \in pushed \ {t}, b \in heap2 \cup {t} : b[1] <= a[1]
      <4> TAKE a \in pushed \ {t}, b \in heap2 \cup {t}
      <4>1. CASE b = t
            BY <3>3, <4>1
      <4>2. CASE b \in heap2 /\ a \in heap1
            BY <2>5, <4>2
      <4>3. CASE b \in heap2 /\ a = e
        <5>1. t \in heap1 /\ t \in Entry /\ a \in Entry /\ b \in Entry
              BY <2>2, <2>5, <3>3, <4>3
        <5>2. b[1] <= t[1] /\ t[1] <= a[1]
              BY <2>5, <3>3, <4>3, <5>1
        <5> QED BY <5>1, <5>2, Entries
      <4> QED BY <4>1, <4>2, <4>3
    <3> QED BY <2>1, <2>3, <2>4, <2>5, <2>6, <3>1, <3>4, <3>5 DEF MedianInv
  <2>7. CASE Cardinality(heap1) = Cardinality(heap2)
    <3> DEFINE pushed == heap2 \cup {e}
               t == Median!top2(pushed)
    <3>1. heap2' = pushed \ {t} /\ heap1' = heap1 \cup {t}
          BY <2>1, <2>7 DEF Median!IntoLarger
    <3>2. pushed \in SUBSET Entry /\ IsFiniteSet(pushed) /\ pushed # {}
          BY <2>2, <2>5, FS_AddElement
    <3>3. t \in pushed /\ \A f \in pushed : t[1] >= f[1]
          BY <3>2, Extremes
    <3> HIDE DEF t
    <3>4. /\ Cardinality(pushed \ {t}) = Cardinality(heap2)
          /\ Cardinality(heap1 \cup {t}) = Cardinality(heap1) + 1
          /\ (pushed \ {t}) \cup (heap1 \cup {t}) = heap2 \cup heap1 \cup {e}
          /\ (pushed \ {t}) \cap (heap1 \cup {t}) = {}
      <4>1. e \notin heap1 \cup heap2 /\ heap2 \cap heap1 = {}
            BY <2>2, <2>5
      <4>2. e \notin heap2 \cup heap1
            BY <4>1
      <4>3. IsFiniteSet(heap2) /\ IsFiniteSet(heap1) /\ t \in heap2 \cup {e} /\ heap2 \cap heap1 = {}
            BY <2>5, <3>3, <4>1
      <4>4. /\ Cardinality((heap2 \cup {e}) \ {t}) = Cardinality(heap2)
            /\ Cardinality(heap1 \cup {t}) = Cardinality(heap1) + 1
        <5>1. IsFiniteSet(heap2 \cup {e}) /\ Cardinality(heap2 \cup {e}) = Cardinality(heap2) + 1
              BY <4>2, <4>3, FS_AddElement
        <5>2. Cardinality((heap2 \cup {e}) \ {t}) = Cardinality(heap2 \cup {e}) - 1
              BY <4>3, <5>1, FS_RemoveElement
        <5>3. t \notin heap1
              BY <4>2, <4>3
        <5>4. Cardinality(heap1 \cup {t}) = Cardinality(heap1) + 1
              BY <4>3, <5>3, FS_AddElement
        <5> QED BY <2>5, <5>1, <5>2, <5>4
      <4>5. (pushed \ {t}) \cup (heap1 \cup {t}) = heap2 \cup heap1 \cup {e}
            BY <4>3
      <4>6. (pushed \ {t}) \cap (heap1 \cup {t}) = {}
            BY <4>2, <4>3
      <4> QED BY <4>4, <4>5, <4>6
    <3>5. \A a \in heap1 \cup {t}, b \in pushed \ {t} : b[1] <= a[1]
      <4> TAKE a \in heap1 \cup {t}, b \in pushed \ {t}
      <4>0. a \in Entry /\ b \in Entry /\ t \in Entry
            BY <2>2, <2>5, <3>3
      <4>1. CASE a = t
            BY <3>3, <4>0, <4>1, Entries
      <4>2. CASE b \in heap2 /\ a \in heap1
            BY <2>5, <4>2
      <4>3. CASE b = e /\ a \in heap1
        <5>1. t \in heap2
              BY <3>3, <4>3
        <5>2. t[1] <= a[1] /\ b[1] <= t[1]
              BY <2>5, <3>3, <4>0, <4>3, <5>1, Entries
        <5> QED BY <4>0, <5>2, Entries
      <4> QED BY <4>1, <4>2, <4>3
    <3> QED BY <2>1, <2>3, <2>4, <2>5, <2>7, <3>1, <3>4, <3>5 DEF MedianInv
  <2> QED BY <2>6, <2>7
<1> QED BY <1>1, <1>2 DEF Median!Next

\* Between how many smaller numbers and how many no greater the place of x lies.
LEMMA OrderIs ==
    ASSUME MedianInv, NEW x \in Num, NEW k \in Int,
           Cardinality(Below(nums, x)) < k, k <= Cardinality(UpTo(nums, x))
    PROVE  Median!InOrder(k) = x
<1> DEFINE At(y) == Cardinality(Below(nums, y)) < k /\ k <= Cardinality(UpTo(nums, y))
<1>1. \A y \in Num : /\ IsFiniteSet(Below(nums, y)) /\ Cardinality(Below(nums, y)) \in Nat
                     /\ Cardinality(UpTo(nums, y)) \in Nat /\ y \in Int
      BY Parts, NumsAre DEF MedianInv
<1>2. ASSUME NEW y \in Num, NEW z \in Num, y < z PROVE Cardinality(UpTo(nums, y)) <= Cardinality(Below(nums, z))
  <2>1. UpTo(nums, y) \in SUBSET Below(nums, z)
    <3>1. \A e \in nums : e[1] \in Int
          BY Entries DEF MedianInv
    <3>2. \A e \in nums : e[1] <= y => e[1] < z
          BY <1>1, <1>2, <3>1
    <3> QED BY <3>2 DEF UpTo, Below
  <2> QED BY <1>1, <2>1, FS_Subset
<1>3. At(x)
      OBVIOUS
<1>4. ASSUME NEW y \in Num, At(y) PROVE y = x
  <2> DEFINE bx == Cardinality(Below(nums, x))
             ux == Cardinality(UpTo(nums, x))
             by == Cardinality(Below(nums, y))
             uy == Cardinality(UpTo(nums, y))
  <2>1. /\ bx \in Nat /\ ux \in Nat /\ by \in Nat /\ uy \in Nat /\ x \in Int /\ y \in Int
        /\ bx < k /\ k <= ux /\ by < k /\ k <= uy
        BY <1>1, <1>3, <1>4
  <2>2. (y < x => uy <= bx) /\ (x < y => ux <= by)
        BY <1>2
  <2> HIDE DEF bx, ux, by, uy
  <2> QED BY <2>1, <2>2
<1>5. Median!InOrder(k) = CHOOSE y \in Num : At(y)
      BY MedianCounts DEF Median!InOrder, Below, UpTo
<1> HIDE DEF At
<1> QED BY <1>3, <1>4, <1>5

\* What Halved makes of a sum.
LEMMA HalvedIs ==
    ASSUME NEW x \in Int
    PROVE  \/ 2 * Median!Halved(x) = x
           \/ x % 2 = 1 /\ 2 * Median!Halved(x) = IF x > 0 THEN x - 1 ELSE x + 1
BY DEF Median!Halved

LEMMA MedianIsMiddle == ASSUME MedianInv PROVE Median!AnswersMedian
<1> DEFINE k == Cardinality(nums)
           c == Cardinality(heap2)
           Twice(sum) == \/ 2 * Median!findMedian = sum
                         \/ sum % 2 = 1 /\ 2 * Median!findMedian = IF sum > 0 THEN sum - 1 ELSE sum + 1
           Middle(n) == n > 0 => Twice(Median!InOrder((n + 1) \div 2) + Median!InOrder(n \div 2 + 1))
           low == Median!InOrder((k + 1) \div 2)
           high == Median!InOrder(k \div 2 + 1)
<1>a. Median!AnswersMedian <=> Middle(Median!Cardinality(nums))
      BY Zenon DEF Median!AnswersMedian
<1>b. Median!Cardinality(nums) = k
      BY MedianCounts
<1> SUFFICES ASSUME k > 0 PROVE Twice(low + high)
  <2>1. Middle(k) => Median!AnswersMedian
    <3> HIDE DEF Middle, k
    <3> QED BY <1>a, <1>b
  <2> QED BY <2>1, Zenon
<1>1. /\ heap1 \in SUBSET Entry /\ IsFiniteSet(heap1) /\ Cardinality(heap1) \in {c, c + 1}
      /\ heap2 \in SUBSET Entry /\ IsFiniteSet(heap2) /\ c \in Nat
      /\ k = Cardinality(heap1) + c /\ k \in Nat
      /\ heap1 \cup heap2 = nums /\ \A a \in heap1, b \in heap2 : b[1] <= a[1]
      /\ IsFiniteSet(nums)
      BY Halves DEF MedianInv
<1>2. heap1 # {}
      BY <1>1, FS_EmptySet
<1> DEFINE t == Median!top1(heap1)
<1>3. t \in heap1 /\ \A f \in heap1 : t[1] <= f[1]
      BY <1>1, <1>2, Extremes
<1> HIDE DEF t
<1>4. \A x : /\ IsFiniteSet(Below(nums, x)) /\ Cardinality(Below(nums, x)) \in Nat
             /\ IsFiniteSet(UpTo(nums, x)) /\ Cardinality(UpTo(nums, x)) \in Nat
      BY <1>1, Parts
<1>5. Median!InOrder(c + 1) = t[1]
  <2>1. t[1] \in Num /\ t \in Entry
        BY <1>1, <1>3, Entries
  <2>2. Below(nums, t[1]) \in SUBSET heap2
        BY <1>1, <1>3, <2>1, Entries DEF Below
  <2>3. Cardinality(Below(nums, t[1])) <= c
        BY <1>1, <2>2, FS_Subset
  <2>4. heap2 \cup {t} \in SUBSET UpTo(nums, t[1])
        BY <1>1, <1>3, <2>1, Entries DEF UpTo
  <2>5. IsFiniteSet(heap2 \cup {t}) /\ Cardinality(heap2 \cup {t}) = c + 1
    <3>1. t \notin heap2
          BY <1>3 DEF MedianInv
    <3> QED BY <1>1, <3>1, FS_AddElement
  <2>6. c + 1 <= Cardinality(UpTo(nums, t[1]))
        BY <1>4, <2>4, <2>5, FS_Subset
  <2>7. Cardinality(Below(nums, t[1])) < c + 1 /\ c + 1 \in Int
        BY <1>1, <1>4, <2>3
  <2> QED BY <2>1, <2>6, <2>7, OrderIs
<1>6. CASE Cardinality(heap1) = c + 1
  <2>1. k = 2 * c + 1
        BY <1>1, <1>6
  <2>2. (k + 1) \div 2 = c + 1 /\ k \div 2 + 1 = c + 1
        BY <1>1, <2>1
  <2>3. Median!findMedian = t[1]
        BY <1>1, <1>6, MedianCounts DEF Median!findMedian, t
  <2>4. low = t[1] /\ high = t[1]
        BY <1>5, <2>2
  <2>5. t[1] \in Int
        BY <1>1, <1>3, Entries
  <2> QED BY <2>3, <2>4, <2>5
<1>7. CASE Cardinality(heap1) = c
  <2>1. k = 2 * c
        BY <1>1, <1>7
  <2>2. (k + 1) \div 2 = c /\ k \div 2 + 1 = c + 1 /\ c > 0
    <3>1. ASSUME NEW d \in Nat, NEW e \in Nat, e = 2 * d, e > 0
          PROVE  (e + 1) \div 2 = d /\ e \div 2 = d /\ d > 0
      <4>1. e + 1 = 2 * d + 1 /\ d > 0
            BY <3>1
      <4>2. (2 * d + 1) \div 2 = d
            OBVIOUS
      <4>3. (2 * d) \div 2 = d
            OBVIOUS
      <4> QED BY <3>1, <4>1, <4>2, <4>3
    <3>2. c \in Nat /\ k \in Nat /\ k > 0
          BY <1>1
    <3> HIDE DEF k, c
    <3> QED BY <2>1, <3>1, <3>2
  <2>3. heap2 # {}
    <3>1. Cardinality(heap2) # 0
          BY <2>2
    <3> QED BY <3>1, FS_EmptySet, Zenon
  <2> DEFINE s == Median!top2(heap2)
  <2>4. s \in heap2 /\ \A f \in heap2 : s[1] >= f[1]
        BY <1>1, <2>3, Extremes
  <2> HIDE DEF s
  <2>5. s \in Entry /\ s[1] \in Num /\ s[1] \in Int
        BY <1>1, <2>4, Entries
  <2>6. Median!InOrder(c) = s[1]
    <3>1. heap2 \in SUBSET UpTo(nums, s[1])
          BY <1>1, <2>4, <2>5, Entries DEF UpTo
    <3>2. c <= Cardinality(UpTo(nums, s[1]))
          BY <1>4, <3>1, FS_Subset
    <3>3. Below(nums, s[1]) \in SUBSET (heap2 \ {s})
          BY <1>1, <2>4, <2>5, Entries DEF Below
    <3>4. IsFiniteSet(heap2 \ {s}) /\ Cardinality(heap2 \ {s}) = c - 1
          BY <1>1, <2>4, FS_RemoveElement
    <3>5. Cardinality(Below(nums, s[1])) <= c - 1
          BY <3>3, <3>4, FS_Subset
    <3>6. Cardinality(Below(nums, s[1])) < c /\ c \in Int
          BY <1>1, <1>4, <3>5
    <3> QED BY <2>5, <3>2, <3>6, OrderIs
  <2>7. Median!findMedian = Median!Halved(t[1] + s[1])
        BY <1>1, <1>7, MedianCounts DEF Median!findMedian, t, s
  <2>8. low = s[1] /\ high = t[1]
        BY <1>5, <2>2, <2>6
  <2>9. low + high \in Int /\ t[1] + s[1] = low + high
    <3>1. t[1] \in Int
          BY <1>1, <1>3, Entries
    <3> QED BY <2>5, <2>8, <3>1
  <2>10. Twice(t[1] + s[1])
    <3>1. t[1] + s[1] \in Int
          BY <2>9
    <3> DEFINE x == t[1] + s[1]
    <3>2. \/ 2 * Median!Halved(x) = x
          \/ x % 2 = 1 /\ 2 * Median!Halved(x) = IF x > 0 THEN x - 1 ELSE x + 1
      <4> HIDE DEF x
      <4> QED BY <3>1, HalvedIs DEF x
    <3> HIDE DEF x
    <3> QED BY <2>7, <3>2 DEF x
  <2> HIDE DEF low, high, Twice
  <2> QED BY <2>9, <2>10
<1> QED BY <1>1, <1>6, <1>7

LEMMA ListOfEach ==
    /\ EachInit => ListInv /\ MedianInv
    /\ [EachNext]_all => [List!Next]_nodes /\ [Median!Next]_(Median!vars)
<1>1. EachInit => ListInv /\ MedianInv
      BY ListStart, MedianStart DEF EachInit
<1>2. ASSUME [EachNext]_all PROVE [List!Next]_nodes /\ [Median!Next]_(Median!vars)
      BY <1>2 DEF EachNext, Step, all, nodes, median, Median!vars
<1> QED BY <1>1, <1>2

\* The list of List.cc holds what was pushed and not removed, in both directions.
THEOREM ListKept == EachSpec => []ListKeeps
<1>1. EachInit => ListInv
      BY ListOfEach
<1>2. ListInv /\ [EachNext]_all => ListInv'
      BY ListOfEach, ListStep
<1>3. ListInv => ListKeeps
      BY ListAnswers DEF ListKeeps
<1> QED BY <1>1, <1>2, <1>3, PTL DEF EachSpec

\* findMedian of priority_queue.cpp answers with the middle of the numbers added,
\* but for the half that the division of ints loses.
THEOREM MedianAnswered == EachSpec => []MedianAnswers
<1>1. EachInit => MedianInv
      BY ListOfEach
<1>2. MedianInv /\ [EachNext]_all => MedianInv'
      BY ListOfEach, MedianStep
<1>3. MedianInv => MedianAnswers
      BY MedianIsMiddle DEF MedianAnswers
<1> QED BY <1>1, <1>2, <1>3, PTL DEF EachSpec
=============================================================================
