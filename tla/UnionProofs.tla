----------------------------- MODULE UnionProofs -----------------------------
(***************************************************************************)
(* Proofs about the union-finds of UnionFind.java and about the grid of    *)
(* Percolation.java, for every number of elements and every size of grid.  *)
(* The arrays are a forest; what a loop along parents or a flood along     *)
(* neighbours computes is compared with a description that needs no        *)
(* recursion, and the two are shown equal by a least counterexample.       *)
(***************************************************************************)
EXTENDS MCStructures, FiniteSetTheorems, WellFoundedInduction, TLAPS

-----------------------------------------------------------------------------
(* Powers of two, as the numbers of subsets.                               *)

LEMMA Doubles ==
    ASSUME NEW S, IsFiniteSet(S), NEW x, x \notin S
    PROVE  /\ Cardinality(SUBSET (S \cup {x})) = 2 * Cardinality(SUBSET S)
           /\ Cardinality(SUBSET S) \in Nat
<1> DEFINE with == {T \cup {x} : T \in SUBSET S}
           f    == [T \in SUBSET S |-> T \cup {x}]
<1>1. IsFiniteSet(SUBSET S)
      BY FS_SUBSET
<1>2. ExistsBijection(SUBSET S, with)
  <2>1. f \in [SUBSET S -> with]
        OBVIOUS
  <2>2. ASSUME NEW y \in with PROVE \E T \in SUBSET S : f[T] = y
        OBVIOUS
  <2>3. ASSUME NEW T \in SUBSET S, NEW U \in SUBSET S, f[T] = f[U] PROVE T = U
    <3>1. T \cup {x} = U \cup {x}
          BY <2>3
    <3>2. T = (T \cup {x}) \ {x} /\ U = (U \cup {x}) \ {x}
          OBVIOUS
    <3> QED BY <3>1, <3>2
  <2> HIDE DEF f
  <2>4. f \in Injection(SUBSET S, with)
        BY <2>1, <2>3 DEF Injection, IsInjective
  <2>5. f \in Surjection(SUBSET S, with)
        BY <2>1, <2>2 DEF Surjection
  <2> QED BY <2>4, <2>5 DEF Bijection, ExistsBijection
<1>3. IsFiniteSet(with) /\ Cardinality(with) = Cardinality(SUBSET S)
      BY <1>1, <1>2, FS_Bijection
<1> DEFINE small == SUBSET S
           large == SUBSET (S \cup {x})
<1>4. large = small \cup with /\ small \cap with = {}
  <2>1. ASSUME NEW T \in large, T \notin small PROVE T \in with
    <3>1. x \in T
          BY <2>1
    <3>2. T \ {x} \in SUBSET S /\ (T \ {x}) \cup {x} = T
          BY <3>1
    <3> QED BY <3>2, Zenon
  <2>2. ASSUME NEW T \in small PROVE T \in large /\ T \cup {x} \in large
        OBVIOUS
  <2>3. ASSUME NEW T \in small PROVE T \notin with
    <3>1. x \notin T
          OBVIOUS
    <3> QED BY <3>1
  <2>4. with \subseteq large
        BY <2>2
  <2> HIDE DEF small, large, with
  <2> QED BY <2>1, <2>2, <2>3, <2>4
<1>5. Cardinality(SUBSET S) \in Nat
      BY <1>1, FS_CardinalityType
<1> HIDE DEF small, large, with
<1>6. Cardinality(large) = Cardinality(small) + Cardinality(small)
  <2>1. IsFiniteSet(small) /\ Cardinality(small) \in Nat /\ Cardinality(with) = Cardinality(small)
        BY <1>1, <1>3, <1>5 DEF small
  <2>2. Cardinality(small \cap with) = 0
        BY <1>4, FS_EmptySet
  <2>3. Cardinality(small \cup with) = Cardinality(small) + Cardinality(with) - Cardinality(small \cap with)
        BY <1>3, <2>1, FS_Union
  <2> QED BY <1>4, <2>1, <2>2, <2>3
<1> QED BY <1>5, <1>6 DEF small, large

\* Powers of two.
LEMMA Powers == ASSUME NEW k \in Nat PROVE 2 ^ (k + 1) = 2 * 2 ^ k /\ 2 ^ k \in Nat
<1>1. IsFiniteSet(1 .. k) /\ Cardinality(1 .. k) = k
      BY FS_Interval
<1>2. k + 1 \notin 1 .. k /\ 1 .. (k + 1) = (1 .. k) \cup {k + 1}
      OBVIOUS
<1>3. IsFiniteSet(1 .. k + 1) /\ Cardinality(1 .. (k + 1)) = k + 1
      BY FS_Interval
<1>4. Cardinality(SUBSET (1 .. k)) = 2 ^ k
      BY <1>1, FS_SUBSET
<1>5. Cardinality(SUBSET (1 .. (k + 1))) = 2 ^ (k + 1)
      BY <1>3, FS_SUBSET
<1> QED BY <1>1, <1>2, <1>4, <1>5, Doubles

LEMMA One == 2 ^ 0 = 1
<1>1. SUBSET {} = {{}}
      OBVIOUS
<1>2. Cardinality({}) = 0 /\ IsFiniteSet({}) /\ Cardinality({{}}) = 1
      BY FS_EmptySet, FS_Singleton
<1> QED BY <1>1, <1>2, FS_SUBSET

-----------------------------------------------------------------------------
(* Forests and their roots.                                                *)

LEMMA Least == ASSUME NEW T \in SUBSET Nat, T # {} PROVE \E m \in T : \A k \in T : m <= k
<1>1. PICK m \in T : \A k \in T : <<k, m>> \notin OpToRel(<, Nat)
      BY NatLessThanWellFounded, WFMin
<1>2. \A k \in T : ~(k < m)
      BY <1>1 DEF OpToRel
<1> QED BY <1>2

\* The array id is a forest: d bounds how far every number is from its root, which is r.
Ranked(D, id, d) ==
    /\ id \in [D -> D] /\ d \in [D -> Nat]
    /\ \A x \in D : id[x] # x => d[id[x]] < d[x]
    /\ \A x \in D : id[x] = x => d[x] = 0

Leads(id, r) == r = [x \in DOMAIN id |-> IF id[x] = x THEN x ELSE r[id[x]]]

Forest(D, id, d, r) == Ranked(D, id, d) /\ r \in [D -> D] /\ Leads(id, r)

LEMMA OneRoot ==
    ASSUME NEW D, NEW id, NEW d, NEW r, NEW q, Forest(D, id, d, r), Leads(id, q)
    PROVE  q = r
<1>1. DOMAIN id = D /\ r = [x \in D |-> r[x]] /\ q = [x \in D |-> q[x]]
      BY DEF Forest, Ranked, Leads
<1> DEFINE differ == {x \in D : r[x] # q[x]}
           ranks  == {d[x] : x \in differ}
<1>2. SUFFICES ASSUME differ # {} PROVE FALSE
      BY <1>1
<1>3. ranks \in SUBSET Nat /\ ranks # {}
      BY <1>2 DEF Forest, Ranked
<1>4. PICK x \in differ : \A y \in differ : d[x] <= d[y]
  <2>1. PICK k \in ranks : \A m \in ranks : k <= m
        BY <1>3, Least
  <2> QED BY <2>1
<1>5. /\ r[x] = IF id[x] = x THEN x ELSE r[id[x]]
      /\ q[x] = IF id[x] = x THEN x ELSE q[id[x]]
      BY <1>1 DEF Forest, Leads
<1>6. id[x] # x /\ id[x] \in differ
      BY <1>5 DEF Forest, Ranked
<1>7. d[id[x]] \in Nat /\ d[x] \in Nat /\ d[id[x]] < d[x]
      BY <1>6 DEF Forest, Ranked
<1> QED BY <1>4, <1>6, <1>7

LEMMA RootIs ==
    ASSUME NEW D, NEW id, NEW d, NEW r, Forest(D, id, d, r), NEW p \in D, NEW u, u.id = id
    PROVE  Union!Root(u, p) = r[p]
<1> DEFINE q == CHOOSE q : Leads(u.id, q)
<1>1. Leads(u.id, q)
      BY DEF Forest
<1>2. q = r
      BY <1>1, OneRoot
<1>3. Union!Root(u, p) = q[p]
      BY DEF Union!Root, Leads
<1> QED BY <1>2, <1>3

\* What the root of a forest is.
LEMMA Roots ==
    ASSUME NEW D, NEW id, NEW d, NEW r, Forest(D, id, d, r), NEW p \in D
    PROVE  r[p] \in D /\ id[r[p]] = r[p] /\ r[r[p]] = r[p] /\ d[r[p]] = 0
<1> DEFINE bad == {x \in D : id[r[x]] # r[x]}
           ranks == {d[x] : x \in bad}
<1>1. \A x \in D : r[x] = (IF id[x] = x THEN x ELSE r[id[x]]) /\ r[x] \in D /\ id[x] \in D
      BY DEF Forest, Leads, Ranked
<1>2. bad = {}
  <2>1. SUFFICES ASSUME bad # {} PROVE FALSE
        OBVIOUS
  <2>2. ranks \in SUBSET Nat /\ ranks # {}
        BY <2>1 DEF Forest, Ranked
  <2>3. PICK x \in bad : \A y \in bad : d[x] <= d[y]
    <3>1. PICK k \in ranks : \A m \in ranks : k <= m
          BY <2>2, Least
    <3> QED BY <3>1
  <2>4. id[x] # x /\ id[x] \in bad
        BY <1>1
  <2>5. d[id[x]] \in Nat /\ d[x] \in Nat /\ d[id[x]] < d[x]
        BY <2>4 DEF Forest, Ranked
  <2> QED BY <2>3, <2>4, <2>5
<1>3. id[r[p]] = r[p] /\ r[p] \in D
      BY <1>1, <1>2
<1> QED BY <1>1, <1>3 DEF Forest, Ranked

\* All that lead to a now lead to b, one step further.
Led(D, r, a, b)    == [x \in D |-> IF r[x] = a THEN b ELSE r[x]]
Lower(D, d, r, a) == [x \in D |-> IF r[x] = a THEN d[x] + 1 ELSE d[x]]

LEMMA Hangs ==
    ASSUME NEW D, NEW id, NEW d, NEW r, Forest(D, id, d, r),
           NEW a \in D, NEW b \in D, a # b, id[a] = a, id[b] = b
    PROVE  Forest(D, [id EXCEPT ![a] = b], Lower(D, d, r, a), Led(D, r, a, b))
<1> DEFINE id2 == [id EXCEPT ![a] = b]
           d2  == Lower(D, d, r, a)
           r2  == Led(D, r, a, b)
<1>1. \A x \in D : /\ r[x] = (IF id[x] = x THEN x ELSE r[id[x]]) /\ r[x] \in D /\ id[x] \in D
                   /\ d[x] \in Nat /\ (id[x] # x => d[id[x]] < d[x]) /\ (id[x] = x => d[x] = 0)
      BY DEF Forest, Leads, Ranked
<1>2. /\ id2 \in [D -> D] /\ DOMAIN id2 = D /\ id2[a] = b
      /\ \A x \in D \ {a} : id2[x] = id[x]
      BY DEF Forest, Ranked
<1>3. r[a] = a /\ r[b] = b /\ d[a] = 0 /\ d[b] = 0
      BY <1>1
<1>4. \A x \in D : d2[x] = (IF r[x] = a THEN d[x] + 1 ELSE d[x])
      BY DEF Lower
<1>5. \A x \in D : r2[x] = (IF r[x] = a THEN b ELSE r[x])
      BY DEF Led
<1>6. d2 \in [D -> Nat] /\ r2 \in [D -> D] /\ r2 = [x \in D |-> r2[x]]
      BY <1>1 DEF Lower, Led
<1> HIDE DEF id2, d2, r2
<1>7. ASSUME NEW x \in D
      PROVE  /\ id2[x] # x => d2[id2[x]] < d2[x]
             /\ id2[x] = x => d2[x] = 0
             /\ r2[x] = IF id2[x] = x THEN x ELSE r2[id2[x]]
  <2>1. CASE x = a
        BY <1>1, <1>2, <1>3, <1>4, <1>5, <2>1
  <2>2. CASE x # a /\ id[x] = x
        BY <1>1, <1>2, <1>3, <1>4, <1>5, <2>2
  <2>3. CASE x # a /\ id[x] # x
    <3>1. r[id[x]] = r[x] /\ id2[x] = id[x] /\ id[x] \in D
          BY <1>1, <1>2, <2>3
    <3>2. d2[id[x]] < d2[x]
          BY <1>1, <1>4, <2>3, <3>1
    <3>3. r2[id[x]] = r2[x]
          BY <1>5, <3>1
    <3> QED BY <2>3, <3>1, <3>2, <3>3
  <2> QED BY <2>1, <2>2, <2>3
<1>8. Ranked(D, id2, d2)
      BY <1>2, <1>6, <1>7 DEF Ranked
<1>9. Leads(id2, r2)
      BY <1>2, <1>6, <1>7 DEF Leads
<1> QED BY <1>6, <1>8, <1>9 DEF Forest, id2, d2, r2

\* Some of the numbers now point to their grandparents.
Shortened(D, id, V) == [x \in D |-> IF x \in V THEN id[id[x]] ELSE id[x]]

LEMMA Shortens ==
    ASSUME NEW D, NEW id, NEW d, NEW r, Forest(D, id, d, r), NEW V
    PROVE  Forest(D, Shortened(D, id, V), d, r)
<1> DEFINE id2 == Shortened(D, id, V)
<1>1. \A x \in D : /\ r[x] = (IF id[x] = x THEN x ELSE r[id[x]]) /\ r[x] \in D /\ id[x] \in D
                   /\ d[x] \in Nat /\ (id[x] # x => d[id[x]] < d[x]) /\ (id[x] = x => d[x] = 0)
      BY DEF Forest, Leads, Ranked
<1>2. id2 \in [D -> D] /\ DOMAIN id2 = D /\ \A x \in D : id2[x] \in {id[x], id[id[x]]}
      BY <1>1 DEF Shortened
<1>3. r = [x \in D |-> r[x]] /\ d \in [D -> Nat] /\ r \in [D -> D]
      BY DEF Forest, Ranked
<1> HIDE DEF id2
<1>4. ASSUME NEW x \in D
      PROVE  /\ id2[x] # x => d[id2[x]] < d[x]
             /\ id2[x] = x => d[x] = 0
             /\ r[x] = IF id2[x] = x THEN x ELSE r[id2[x]]
  <2>1. CASE id[x] = x
        BY <1>1, <1>2, <2>1
  <2>2. CASE id[x] # x
    <3>1. PICK y \in D : y = id[x] /\ d[y] < d[x] /\ r[x] = r[y]
          BY <1>1, <2>2
    <3>2. PICK z \in D : z = id[y] /\ d[z] <= d[y] /\ r[y] = r[z]
          BY <1>1
    <3>3. id2[x] = y \/ id2[x] = z
          BY <1>2, <3>1, <3>2
    <3>4. d[z] < d[x] /\ d[x] \in Nat /\ d[z] \in Nat /\ d[y] \in Nat
          BY <1>1, <3>1, <3>2
    <3> QED BY <3>1, <3>2, <3>3, <3>4
  <2> QED BY <2>1, <2>2
<1>5. Ranked(D, id2, d) /\ Leads(id2, r)
      BY <1>2, <1>3, <1>4 DEF Ranked, Leads
<1> QED BY <1>3, <1>5 DEF Forest, id2

-----------------------------------------------------------------------------
(* Depth.                                                                  *)

Deep(D, id, e) == e = [x \in D |-> IF id[x] = x THEN 0 ELSE 1 + e[id[x]]]

\* The recursion for the depth has a solution: if it had none for the numbers up to some
\* rank, that of the numbers one rank below would lead to one.
LEMMA DepthExists ==
    ASSUME NEW D, NEW id, NEW d, Ranked(D, id, d), NEW m \in Nat, \A x \in D : d[x] <= m
    PROVE  \E e : Deep(D, id, e)
<1> DEFINE Upto(k) == {x \in D : d[x] <= k}
           Solves(k, e) == e = [x \in Upto(k) |-> IF id[x] = x THEN 0 ELSE 1 + e[id[x]]]
           none == {k \in Nat : ~\E e : Solves(k, e)}
<1>1. \A x \in D : d[x] \in Nat /\ id[x] \in D
      BY DEF Ranked
<1>2. SUFFICES \E e : Solves(m, e)
  <2>1. Upto(m) = D /\ DOMAIN id = D
        BY DEF Ranked
  <2> QED BY <2>1 DEF Deep
<1>3. SUFFICES ASSUME none # {} PROVE FALSE
      OBVIOUS
<1>4. PICK k \in none : \A j_ \in none : k <= j_
      BY <1>3, Least
<1>5. k \in Nat /\ ~\E e : Solves(k, e)
      OBVIOUS
<1>6. CASE k = 0
  <2>1. \A x \in Upto(0) : id[x] = x
        BY <1>1 DEF Ranked
  <2>2. Solves(0, [x \in Upto(0) |-> 0])
        BY <2>1
  <2> QED BY <1>5, <1>6, <2>2
<1>7. CASE k > 0
  <2>1. k - 1 \in Nat /\ k - 1 \notin none
    <3>1. k - 1 \in Nat /\ ~(k <= k - 1)
          BY <1>5, <1>7
    <3> HIDE DEF none
    <3> QED BY <1>4, <3>1
  <2>2. PICK g : Solves(k - 1, g)
        BY <2>1
  <2> DEFINE f == [x \in Upto(k) |-> IF id[x] = x THEN 0 ELSE 1 + g[id[x]]]
  <2>3. \A x \in Upto(k) : id[x] # x => id[x] \in Upto(k - 1) /\ id[x] \in Upto(k)
        BY <1>1, <1>5 DEF Ranked
  <2>4. \A x \in Upto(k - 1) : g[x] = (IF id[x] = x THEN 0 ELSE 1 + g[id[x]]) /\ x \in Upto(k)
        BY <1>1, <1>5, <2>2
  <2>5. \A x \in Upto(k - 1) : f[x] = g[x]
        BY <2>4
  <2>6. f = [x \in Upto(k) |-> IF id[x] = x THEN 0 ELSE 1 + f[id[x]]]
        BY <2>3, <2>5
  <2> QED BY <1>5, <2>6
<1> QED BY <1>5, <1>6, <1>7

LEMMA DepthAtMost ==
    ASSUME NEW D, NEW id, NEW d, Ranked(D, id, d), NEW e, Deep(D, id, e), NEW p \in D
    PROVE  e[p] \in Nat /\ e[p] <= d[p]
<1> DEFINE bad == {x \in D : ~(e[x] \in Nat /\ e[x] <= d[x])}
           ranks == {d[x] : x \in bad}
<1>1. \A x \in D : /\ d[x] \in Nat /\ id[x] \in D /\ (id[x] # x => d[id[x]] < d[x])
                   /\ e[x] = IF id[x] = x THEN 0 ELSE 1 + e[id[x]]
      BY DEF Ranked, Deep
<1>2. SUFFICES ASSUME bad # {} PROVE FALSE
      OBVIOUS
<1>3. ranks \in SUBSET Nat /\ ranks # {}
      BY <1>1, <1>2
<1>4. PICK x \in bad : \A y \in bad : d[x] <= d[y]
  <2>1. PICK k \in ranks : \A j_ \in ranks : k <= j_
        BY <1>3, Least
  <2> QED BY <2>1
<1>5. CASE id[x] = x
      BY <1>1, <1>5
<1>6. CASE id[x] # x
  <2>1. PICK y \in D : y = id[x] /\ d[y] < d[x] /\ e[x] = 1 + e[y]
        BY <1>1, <1>6
  <2>2. y \notin bad
        BY <1>1, <1>4, <2>1
  <2> QED BY <1>1, <2>1, <2>2
<1> QED BY <1>5, <1>6

LEMMA PowersGrow == ASSUME NEW j_ \in Nat, NEW k \in Nat, j_ <= k PROVE 2 ^ j_ <= 2 ^ k
<1> DEFINE bad == {x \in Nat : j_ <= x /\ ~(2 ^ j_ <= 2 ^ x)}
<1>1. SUFFICES ASSUME bad # {} PROVE FALSE
      OBVIOUS
<1>2. PICK x \in bad : \A y \in bad : x <= y
      BY <1>1, Least
<1>3. x # j_ /\ x \in Nat /\ j_ <= x /\ ~(2 ^ j_ <= 2 ^ x)
      BY Powers
<1>4. PICK y \in Nat : x = y + 1
      BY <1>3
<1>5. j_ <= y /\ y \notin bad
      BY <1>2, <1>3, <1>4
<1>6. 2 ^ j_ <= 2 ^ y /\ 2 ^ x = 2 * 2 ^ y /\ 2 ^ y \in Nat /\ 2 ^ j_ \in Nat
      BY <1>4, <1>5, Powers
<1> QED BY <1>3, <1>6

-----------------------------------------------------------------------------
(* The sets that a map to roots makes.                                     *)

Class(r, p) == {q \in DOMAIN r : r[q] = r[p]}
Classes(r)  == {Class(r, p) : p \in DOMAIN r}

Merged(r, p, q) == Class(r, p) \cup Class(r, q)
Joined(r, p, q) == (Classes(r) \ {Class(r, p), Class(r, q)}) \cup {Merged(r, p, q)}

LEMMA ClassJoins ==
    ASSUME NEW D, NEW r \in [D -> D], NEW p \in D, NEW q \in D, NEW x \in D
    PROVE  /\ r[x] \in {r[p], r[q]} => Class(Led(D, r, r[p], r[q]), x) = Merged(r, p, q)
           /\ r[x] \notin {r[p], r[q]} => Class(Led(D, r, r[p], r[q]), x) = Class(r, x)
<1> DEFINE r2 == Led(D, r, r[p], r[q])
<1>1. DOMAIN r2 = D /\ DOMAIN r = D /\ \A y \in D : r2[y] = IF r[y] = r[p] THEN r[q] ELSE r[y]
      BY DEF Led
<1> HIDE DEF r2
<1>2. CASE r[x] \in {r[p], r[q]}
  <2>1. \A y \in D : r2[y] = r2[x] <=> (r[y] = r[p] \/ r[y] = r[q])
        BY <1>1, <1>2
  <2> QED BY <1>1, <1>2, <2>1 DEF Class, r2, Merged
<1>3. CASE r[x] \notin {r[p], r[q]}
  <2>1. \A y \in D : r2[y] = r2[x] <=> r[y] = r[x]
        BY <1>1, <1>3
  <2> QED BY <1>1, <1>3, <2>1 DEF Class, r2
<1> QED BY <1>2, <1>3

LEMMA ClassesJoin ==
    ASSUME NEW D, NEW r \in [D -> D], NEW p \in D, NEW q \in D
    PROVE  Classes(Led(D, r, r[p], r[q])) = Joined(r, p, q)
<1> DEFINE r2 == Led(D, r, r[p], r[q])
           both == Merged(r, p, q)
<1>1. DOMAIN r2 = D /\ DOMAIN r = D
      BY DEF Led
<1>2. \A x \in D : Class(r2, x) = IF r[x] \in {r[p], r[q]} THEN both ELSE Class(r, x)
  <2> TAKE x \in D
  <2>1. /\ r[x] \in {r[p], r[q]} => Class(r2, x) = Merged(r, p, q)
        /\ r[x] \notin {r[p], r[q]} => Class(r2, x) = Class(r, x)
        BY ClassJoins
  <2> HIDE DEF r2
  <2> QED BY <2>1
<1> HIDE DEF r2
<1>3. \A x, y \in D : Class(r, x) = Class(r, y) <=> r[x] = r[y]
      BY <1>1 DEF Class
<1>4. Classes(r2) \subseteq (Classes(r) \ {Class(r, p), Class(r, q)}) \cup {both}
  <2>1. ASSUME NEW x \in D PROVE Class(r2, x) \in (Classes(r) \ {Class(r, p), Class(r, q)}) \cup {both}
        BY <1>1, <1>2, <1>3 DEF Classes
  <2> QED BY <1>1, <2>1 DEF Classes
<1>5. both \in Classes(r2)
  <2>1. Class(r2, p) = both
        BY <1>2
  <2> QED BY <1>1, <2>1 DEF Classes
<1>6. ASSUME NEW s \in Classes(r), s # Class(r, p), s # Class(r, q) PROVE s \in Classes(r2)
  <2>1. PICK x \in D : s = Class(r, x)
        BY <1>1 DEF Classes
  <2>2. Class(r2, x) = s
        BY <1>2, <1>3, <1>6, <2>1
  <2> QED BY <1>1, <2>2 DEF Classes
<1>7. Classes(r2) = (Classes(r) \ {Class(r, p), Class(r, q)}) \cup {both}
  <2> HIDE DEF both
  <2> QED BY <1>4, <1>5, <1>6
<1> QED BY <1>7, Zenon DEF r2, Joined

LEMMA ClassesOf ==
    ASSUME NEW D, IsFiniteSet(D), NEW r \in [D -> D], NEW p \in D, NEW q \in D
    PROVE  /\ Class(r, p) \in SUBSET D /\ p \in Class(r, p) /\ IsFiniteSet(Class(r, p))
           /\ Cardinality(Class(r, p)) \in Nat /\ Cardinality(Class(r, p)) > 0
           /\ Cardinality(Class(r, p)) <= Cardinality(D)
           /\ r[p] = r[q] => Class(r, p) = Class(r, q)
           /\ r[p] # r[q] =>
                /\ Cardinality(Class(r, p) \cup Class(r, q))
                     = Cardinality(Class(r, p)) + Cardinality(Class(r, q))
                /\ Cardinality(Class(r, p) \cup Class(r, q)) <= Cardinality(D)
<1>1. \A x \in D : Class(r, x) \in SUBSET D /\ x \in Class(r, x)
      BY DEF Class
<1>2. \A x \in D : /\ IsFiniteSet(Class(r, x)) /\ Cardinality(Class(r, x)) \in Nat
                   /\ Cardinality(Class(r, x)) <= Cardinality(D)
      BY <1>1, FS_Subset, FS_CardinalityType
<1>3. Cardinality(Class(r, p)) # 0
      BY <1>1, <1>2, FS_EmptySet
<1>4. ASSUME r[p] # r[q]
      PROVE  /\ Cardinality(Class(r, p) \cup Class(r, q))
                  = Cardinality(Class(r, p)) + Cardinality(Class(r, q))
             /\ Cardinality(Class(r, p) \cup Class(r, q)) <= Cardinality(D)
  <2>1. Class(r, p) \cap Class(r, q) = {}
        BY <1>4 DEF Class
  <2>2. Cardinality(Class(r, p) \cap Class(r, q)) = 0
        BY <2>1, FS_EmptySet
  <2>3. Cardinality(Class(r, p) \cup Class(r, q))
          = Cardinality(Class(r, p)) + Cardinality(Class(r, q)) - Cardinality(Class(r, p) \cap Class(r, q))
        BY <1>2, FS_Union
  <2>4. Class(r, p) \cup Class(r, q) \in SUBSET D
        BY <1>1
  <2> QED BY <1>2, <2>2, <2>3, <2>4, FS_Subset
<1>5. r[p] = r[q] => Class(r, p) = Class(r, q)
      BY DEF Class
<1> QED BY <1>1, <1>2, <1>3, <1>4, <1>5

-----------------------------------------------------------------------------
(* The weights.                                                            *)

Weighed(D, u, d, r) ==
    \A p \in D : /\ 2 ^ d[p] <= Cardinality(Class(r, p))
                 /\ u.id[p] = p => u.sz[p] = Cardinality(Class(r, p))

Records(D, N) == [id : [D -> D], sz : [D -> 1 .. N]]

LEMMA UnderKeeps ==
    ASSUME NEW D, IsFiniteSet(D), NEW N \in Nat, N = Cardinality(D),
           NEW u \in Records(D, N), NEW d, NEW r, Forest(D, u.id, d, r), Weighed(D, u, d, r),
           NEW a \in D, NEW b \in D, a # b, u.id[a] = a, u.id[b] = b, u.sz[a] <= u.sz[b]
    PROVE  /\ Union!Under(u, a, b) \in Records(D, N)
           /\ Union!Under(u, a, b).id = [u.id EXCEPT ![a] = b]
           /\ Weighed(D, Union!Under(u, a, b), Lower(D, d, r, a), Led(D, r, a, b))
<1> DEFINE u2 == Union!Under(u, a, b)
           d2 == Lower(D, d, r, a)
           r2 == Led(D, r, a, b)
           ca == Cardinality(Class(r, a))
           cb == Cardinality(Class(r, b))
           cc == Cardinality(Class(r, a) \cup Class(r, b))
<1>1. /\ u.id \in [D -> D] /\ u.sz \in [D -> 1 .. N] /\ r \in [D -> D] /\ d \in [D -> Nat]
      /\ u = [id |-> u.id, sz |-> u.sz]
      BY DEF Records, Forest, Ranked
<1>2. r[a] = a /\ r[b] = b
      BY DEF Forest, Leads, Ranked
<1>3. u.sz[a] = ca /\ u.sz[b] = cb
      BY DEF Weighed
<1>4. cc = ca + cb /\ ca \in Nat /\ cb \in Nat /\ ca > 0 /\ cb > 0 /\ cc <= N
      BY <1>1, <1>2, ClassesOf
<1>5. cc = u.sz[b] + u.sz[a] /\ cc \in 1 .. N
      BY <1>3, <1>4
<1>6. u2 = [u EXCEPT !.id[a] = b, !.sz[b] = cc]
      BY <1>1, <1>5 DEF Union!Under, Records
<1>7. /\ u2 \in Records(D, N)
      /\ u2.id = [u.id EXCEPT ![a] = b] /\ u2.sz = [u.sz EXCEPT ![b] = cc]
  <2>1. PICK v \in 1 .. N : v = cc /\ u2 = [u EXCEPT !.id[a] = b, !.sz[b] = v]
        BY <1>5, <1>6
  <2> HIDE DEF u2, cc
  <2> QED BY <2>1 DEF Records
<1>8. \A x \in D : Cardinality(Class(r2, x)) = IF r[x] \in {a, b} THEN cc ELSE Cardinality(Class(r, x))
  <2>1. \A x \in D : Class(r2, x) = IF r[x] \in {a, b} THEN Class(r, a) \cup Class(r, b) ELSE Class(r, x)
    <3>1. r2 = Led(D, r, r[a], r[b])
          BY <1>2
    <3>2. r2 = Led(D, r, r[a], r[b]) /\ r \in [D -> D]
          BY <1>1, <3>1
    <3> HIDE DEF r2
    <3> TAKE x \in D
    <3>3. /\ r[x] \in {r[a], r[b]} => Class(Led(D, r, r[a], r[b]), x) = Merged(r, a, b)
          /\ r[x] \notin {r[a], r[b]} => Class(Led(D, r, r[a], r[b]), x) = Class(r, x)
          BY <3>2, ClassJoins
    <3> QED BY <1>2, <3>2, <3>3 DEF Merged
  <2> QED BY <2>1
<1>9. \A x \in D : /\ d2[x] = IF r[x] = a THEN d[x] + 1 ELSE d[x]
                   /\ r[x] = a => Class(r, x) = Class(r, a)
                   /\ r[x] = b => Class(r, x) = Class(r, b)
      BY <1>2 DEF Class, Lower
<1> HIDE DEF d2, r2, u2, ca, cb, cc
<1>10. ASSUME NEW x \in D
       PROVE  /\ 2 ^ d2[x] <= Cardinality(Class(r2, x))
              /\ u2.id[x] = x => u2.sz[x] = Cardinality(Class(r2, x))
  <2>1. 2 ^ d[x] <= Cardinality(Class(r, x)) /\ (u.id[x] = x => u.sz[x] = Cardinality(Class(r, x)))
        BY DEF Weighed
  <2>2. d[x] \in Nat /\ 2 ^ d[x] \in Nat
        BY <1>1, Powers
  <2>3. 2 ^ d2[x] <= Cardinality(Class(r2, x))
    <3>1. CASE r[x] = a
      <4>1. 2 ^ d2[x] = 2 * 2 ^ d[x] /\ 2 ^ d[x] <= ca /\ Cardinality(Class(r2, x)) = cc
            BY <1>8, <1>9, <2>1, <2>2, <3>1, Powers DEF ca
      <4> QED BY <1>3, <1>4, <2>2, <4>1
    <3>2. CASE r[x] # a /\ r[x] = b
      <4>1. d2[x] = d[x] /\ 2 ^ d[x] <= cb /\ Cardinality(Class(r2, x)) = cc
            BY <1>8, <1>9, <2>1, <3>2 DEF cb
      <4> QED BY <1>4, <2>2, <4>1
    <3>3. CASE r[x] \notin {a, b}
          BY <1>8, <1>9, <2>1, <3>3
    <3> QED BY <3>1, <3>2, <3>3
  <2>4. ASSUME u2.id[x] = x PROVE u2.sz[x] = Cardinality(Class(r2, x))
    <3>1. x # a
          BY <1>1, <1>7, <2>4
    <3>2. CASE x = b
          BY <1>1, <1>2, <1>7, <1>8, <3>2
    <3>3. CASE x # b
      <4>1. u.id[x] = x /\ u2.sz[x] = u.sz[x]
            BY <1>1, <1>7, <2>4, <3>1, <3>3
      <4>2. r[x] = x
            BY <4>1 DEF Forest, Leads, Ranked
      <4> QED BY <1>8, <2>1, <3>1, <3>3, <4>1, <4>2
    <3> QED BY <3>2, <3>3
  <2> QED BY <2>3, <2>4
<1>11. Weighed(D, u2, d2, r2)
      BY <1>10 DEF Weighed
<1> QED BY <1>7, <1>11 DEF u2, d2, r2

-----------------------------------------------------------------------------
(* Every kind of union keeps the sets and its forest.                      *)

All == Union!Number

LEMMA UnionNumbers ==
    IsFiniteSet(All) /\ Cardinality(All) = Numbers /\ Numbers \in Nat
<1>1. Numbers \in Nat /\ 0 \in Int /\ Numbers - 1 \in Int
      BY StructuresAssumption
<1>2. /\ IsFiniteSet(0 .. Numbers - 1)
      /\ Cardinality(0 .. Numbers - 1) = IF 0 > Numbers - 1 THEN 0 ELSE Numbers - 1 - 0 + 1
      BY <1>1, FS_Interval
<1> QED BY <1>1, <1>2 DEF All, Union!Number

Weighting == {"Weighted", "PathCompression"}

Kept(k, u, r) ==
    IF k = "QuickFind" THEN u.id = r
    ELSE \E d, m : /\ Forest(All, u.id, d, r)
                   /\ m \in Nat /\ \A x \in All : d[x] <= m
                   /\ k \in Weighting => Weighed(All, u, d, r)

\* r names the sets: two numbers are in one of them if it takes them to the same one.
UnionInv ==
    /\ kind \in Union!Kinds /\ uf \in Records(All, Numbers)
    /\ \E r \in [All -> All] : part = Classes(r) /\ Kept(kind, uf, r)

LEMMA RecordFields ==
    ASSUME NEW u \in Records(All, Numbers)
    PROVE  u.id \in [All -> All] /\ u.sz \in [All -> 1 .. Numbers] /\ DOMAIN u.id = All
BY DEF Records

LEMMA NewId ==
    ASSUME NEW u \in Records(All, Numbers), NEW f \in [All -> All]
    PROVE  /\ [u EXCEPT !.id = f] \in Records(All, Numbers)
           /\ [u EXCEPT !.id = f].id = f /\ [u EXCEPT !.id = f].sz = u.sz
BY DEF Records

LEMMA QuickFindKeeps ==
    ASSUME NEW u \in Records(All, Numbers), NEW p \in All, NEW q \in All
    PROVE  /\ Union!QuickFindUnion(u, p, q) \in Records(All, Numbers)
           /\ Union!QuickFindUnion(u, p, q).id = Led(All, u.id, u.id[p], u.id[q])
<1>1. Led(All, u.id, u.id[p], u.id[q]) \in [All -> All]
      BY RecordFields DEF Led
<1>2. Union!QuickFindUnion(u, p, q) = [u EXCEPT !.id = Led(All, u.id, u.id[p], u.id[q])]
      BY RecordFields DEF Union!QuickFindUnion, Led, Records
<1> QED BY <1>1, <1>2, NewId

LEMMA LedIn == ASSUME NEW r \in [All -> All], NEW a \in All, NEW b \in All
               PROVE  Led(All, r, a, b) \in [All -> All] /\ (a = b => Led(All, r, a, b) = r)
BY DEF Led

LEMMA QuickUnionKeeps ==
    ASSUME NEW u \in Records(All, Numbers), NEW r \in [All -> All], Kept("QuickUnion", u, r),
           NEW p \in All, NEW q \in All
    PROVE  /\ Union!QuickUnion(u, p, q) \in Records(All, Numbers)
           /\ Kept("QuickUnion", Union!QuickUnion(u, p, q), Led(All, r, r[p], r[q]))
<1>1. PICK d, m : Forest(All, u.id, d, r) /\ m \in Nat /\ \A x \in All : d[x] <= m
      BY DEF Kept
<1>2. Union!Root(u, p) = r[p] /\ Union!Root(u, q) = r[q]
      BY <1>1, RootIs
<1>3. PICK a \in All, b \in All : a = r[p] /\ b = r[q] /\ u.id[a] = a /\ u.id[b] = b
      BY <1>1, Roots
<1>4. u.id \in [All -> All] /\ d \in [All -> Nat]
      BY <1>1, RecordFields DEF Forest, Ranked
<1>5. [u.id EXCEPT ![a] = b] \in [All -> All]
      BY <1>4
<1>6. Union!QuickUnion(u, p, q) = [u EXCEPT !.id = [u.id EXCEPT ![a] = b]]
      BY <1>2, <1>3, <1>4 DEF Union!QuickUnion, Records
<1>7. /\ Union!QuickUnion(u, p, q) \in Records(All, Numbers)
      /\ Union!QuickUnion(u, p, q).id = [u.id EXCEPT ![a] = b]
      BY <1>5, <1>6, NewId
<1>8. CASE a = b
  <2>1. [u.id EXCEPT ![a] = b] = u.id
        BY <1>3, <1>4, <1>8
  <2>2. Led(All, r, r[p], r[q]) = r
        BY <1>3, <1>8, LedIn
  <2> QED BY <1>1, <1>7, <2>1, <2>2 DEF Kept, Weighting
<1>9. CASE a # b
  <2> DEFINE d2 == Lower(All, d, r, a)
  <2>1. Forest(All, [u.id EXCEPT ![a] = b], d2, Led(All, r, a, b))
        BY <1>1, <1>3, <1>9, Hangs
  <2>2. m + 1 \in Nat /\ \A x \in All : d2[x] <= m + 1
        BY <1>1, <1>4 DEF Lower
  <2> HIDE DEF d2
  <2> QED BY <1>3, <1>7, <2>1, <2>2 DEF Kept, Weighting
<1> QED BY <1>7, <1>8, <1>9

\* One direction of the weighted union.
LEMMA UnderIsKept ==
    ASSUME NEW k \in Weighting, NEW u \in Records(All, Numbers), NEW r \in [All -> All],
           NEW d, NEW m, Forest(All, u.id, d, r), m \in Nat, \A x \in All : d[x] <= m,
           Weighed(All, u, d, r),
           NEW a \in All, NEW b \in All, a # b, u.id[a] = a, u.id[b] = b, u.sz[a] <= u.sz[b]
    PROVE  /\ Union!Under(u, a, b) \in Records(All, Numbers)
           /\ Kept(k, Union!Under(u, a, b), Led(All, r, a, b))
<1> DEFINE d2 == Lower(All, d, r, a)
<1>1. /\ Union!Under(u, a, b) \in Records(All, Numbers)
      /\ Union!Under(u, a, b).id = [u.id EXCEPT ![a] = b]
      /\ Weighed(All, Union!Under(u, a, b), d2, Led(All, r, a, b))
  <2>1. IsFiniteSet(All) /\ Numbers = Cardinality(All) /\ Numbers \in Nat
        BY UnionNumbers
  <2> QED BY <2>1, UnderKeeps
<1>2. Forest(All, [u.id EXCEPT ![a] = b], d2, Led(All, r, a, b))
      BY Hangs
<1>3. m + 1 \in Nat /\ \A x \in All : d2[x] <= m + 1
      BY DEF Forest, Ranked, Lower
<1>4. k # "QuickFind"
      BY DEF Weighting
<1> HIDE DEF d2
<1> QED BY <1>1, <1>2, <1>3, <1>4 DEF Kept

LEMMA WeightedKeeps ==
    ASSUME NEW k \in Weighting, NEW u \in Records(All, Numbers), NEW r \in [All -> All], Kept(k, u, r),
           NEW p \in All, NEW q \in All
    PROVE  /\ Union!WeightedUnion(u, p, q) \in Records(All, Numbers)
           /\ \E r2 \in [All -> All] : /\ Classes(r2) = Joined(r, p, q)
                                       /\ Kept(k, Union!WeightedUnion(u, p, q), r2)
<1>1. PICK d, m : /\ Forest(All, u.id, d, r) /\ m \in Nat /\ \A x \in All : d[x] <= m
                  /\ Weighed(All, u, d, r)
      BY DEF Kept, Weighting
<1>2. Union!Root(u, p) = r[p] /\ Union!Root(u, q) = r[q]
      BY <1>1, RootIs
<1>3. PICK a \in All, b \in All : a = r[p] /\ b = r[q] /\ u.id[a] = a /\ u.id[b] = b
      BY <1>1, Roots
<1>4. u.sz[a] \in Int /\ u.sz[b] \in Int
      BY RecordFields
<1>5. /\ Classes(Led(All, r, a, b)) = Joined(r, p, q)
      /\ Classes(Led(All, r, b, a)) = Joined(r, p, q)
  <2>1. Classes(Led(All, r, r[p], r[q])) = Joined(r, p, q)
        BY ClassesJoin
  <2>2. Classes(Led(All, r, r[q], r[p])) = Joined(r, q, p)
        BY ClassesJoin
  <2>3. Joined(r, p, q) = Joined(r, q, p)
    <3>1. ASSUME NEW P, NEW Q, NEW S
          PROVE  (S \ {P, Q}) \cup {P \cup Q} = (S \ {Q, P}) \cup {Q \cup P}
      <4>1. P \cup Q = Q \cup P /\ {P, Q} = {Q, P}
            OBVIOUS
      <4> QED BY <4>1, Zenon
    <3> QED BY <3>1, Zenon DEF Joined, Merged
  <2> QED BY <1>3, <2>1, <2>2, <2>3
<1>6. Led(All, r, a, b) \in [All -> All] /\ Led(All, r, b, a) \in [All -> All]
      BY LedIn
<1>7. CASE a = b
  <2>1. Union!WeightedUnion(u, p, q) = u
        BY <1>2, <1>3, <1>7 DEF Union!WeightedUnion
  <2>2. Classes(r) = Joined(r, p, q)
        BY <1>5, <1>7, LedIn
  <2> QED BY <2>1, <2>2
<1>8. CASE a # b /\ u.sz[a] < u.sz[b]
  <2>1. Union!WeightedUnion(u, p, q) = Union!Under(u, a, b)
        BY <1>2, <1>3, <1>8 DEF Union!WeightedUnion, Union!Lighter
  <2>2. /\ Union!Under(u, a, b) \in Records(All, Numbers)
        /\ Kept(k, Union!Under(u, a, b), Led(All, r, a, b))
        BY <1>1, <1>3, <1>4, <1>8, UnderIsKept
  <2> QED BY <1>5, <1>6, <2>1, <2>2
<1>9. CASE a # b /\ ~(u.sz[a] < u.sz[b])
  <2>1. Union!WeightedUnion(u, p, q) = Union!Under(u, b, a)
        BY <1>2, <1>3, <1>9 DEF Union!WeightedUnion, Union!Lighter
  <2>2. /\ Union!Under(u, b, a) \in Records(All, Numbers)
        /\ Kept(k, Union!Under(u, b, a), Led(All, r, b, a))
    <3>1. u.sz[b] <= u.sz[a]
          BY <1>4, <1>9
    <3> QED BY <1>1, <1>3, <1>9, <3>1, UnderIsKept
  <2> QED BY <1>5, <1>6, <2>1, <2>2
<1> QED BY <1>7, <1>8, <1>9

LEMMA CompressKeeps ==
    ASSUME NEW u \in Records(All, Numbers), NEW r \in [All -> All], Kept("PathCompression", u, r), NEW p \in All
    PROVE  /\ Union!Compressed(u, p) \in Records(All, Numbers)
           /\ Kept("PathCompression", Union!Compressed(u, p), r)
<1>1. PICK d, m : /\ Forest(All, u.id, d, r) /\ m \in Nat /\ \A x \in All : d[x] <= m
                  /\ Weighed(All, u, d, r)
      BY DEF Kept, Weighting
<1>2. PICK V : Union!Compressed(u, p)
                 = [u EXCEPT !.id = [x \in DOMAIN @ |-> IF x \in V THEN u.id[u.id[x]] ELSE @[x]]]
      BY DEF Union!Compressed
<1> DEFINE f == Shortened(All, u.id, V)
<1>3. f \in [All -> All]
      BY RecordFields DEF Shortened
<1>4. Union!Compressed(u, p) = [u EXCEPT !.id = f]
      BY <1>2, RecordFields DEF Records, Shortened
<1>5. /\ Union!Compressed(u, p) \in Records(All, Numbers)
      /\ Union!Compressed(u, p).id = f /\ Union!Compressed(u, p).sz = u.sz
      BY <1>3, <1>4, NewId
<1>6. Forest(All, f, d, r)
      BY <1>1, Shortens
<1>7. \A x \in All : f[x] = x => u.id[x] = x
  <2> SUFFICES ASSUME NEW x \in All, f[x] = x, u.id[x] # x PROVE FALSE
      OBVIOUS
  <2>1. PICK y \in All : y = u.id[x] /\ d[y] < d[x]
        BY <1>1, RecordFields DEF Forest, Ranked
  <2>2. d[u.id[y]] <= d[y] /\ d[y] \in Nat /\ d[x] \in Nat /\ d[u.id[y]] \in Nat
        BY <1>1, RecordFields DEF Forest, Ranked
  <2>3. f[x] = y \/ f[x] = u.id[y]
        BY <2>1 DEF Shortened
  <2> HIDE DEF f
  <2> QED BY <2>1, <2>2, <2>3
<1> HIDE DEF f
<1>8. Weighed(All, Union!Compressed(u, p), d, r)
      BY <1>1, <1>5, <1>7 DEF Weighed
<1> QED BY <1>1, <1>5, <1>6, <1>8 DEF Kept

LEMMA SetOfIs ==
    ASSUME NEW r \in [All -> All], part = Classes(r), NEW p \in All
    PROVE  Union!SetOf(p) = Class(r, p)
<1>1. Class(r, p) \in part /\ p \in Class(r, p)
      BY DEF Classes, Class
<1>2. ASSUME NEW s \in part, p \in s PROVE s = Class(r, p)
      BY <1>2 DEF Classes, Class
<1> QED BY <1>1, <1>2, Zenon DEF Union!SetOf

LEMMA UnionStart == Union!Init => UnionInv
<1> SUFFICES ASSUME Union!Init PROVE UnionInv
    OBVIOUS
<1> DEFINE r == [x \in All |-> x]
           d == [x \in All |-> 0]
<1>1. /\ uf = [id |-> r, sz |-> [x \in All |-> 1]] /\ kind \in Union!Kinds
      /\ part = {{x} : x \in All}
      BY DEF Union!Init, Union!NewUF, All, Union!Number
<1>2. \A x \in All : 1 \in 1 .. Numbers
      BY UnionNumbers DEF All, Union!Number
<1>3. uf \in Records(All, Numbers) /\ uf.id = r /\ uf.sz = [x \in All |-> 1] /\ r \in [All -> All]
      BY <1>1, <1>2 DEF Records
<1>4. \A x \in All : Class(r, x) = {x}
      BY DEF Class
<1>5. part = Classes(r)
  <2>1. Classes(r) = {Class(r, x) : x \in All}
        BY DEF Classes
  <2> HIDE DEF r
  <2> QED BY <1>1, <1>4, <2>1
<1>6. Forest(All, uf.id, d, r) /\ \A x \in All : d[x] <= 0
      BY <1>3 DEF Forest, Ranked, Leads
<1>7. Weighed(All, uf, d, r)
  <2> SUFFICES ASSUME NEW x \in All
               PROVE  2 ^ d[x] <= Cardinality(Class(r, x)) /\ uf.sz[x] = Cardinality(Class(r, x))
      BY DEF Weighed
  <2>1. Cardinality(Class(r, x)) = 1 /\ d[x] = 0 /\ uf.sz[x] = 1
        BY <1>3, <1>4, FS_Singleton
  <2> QED BY <2>1, One
<1> HIDE DEF r, d
<1>8. Kept(kind, uf, r)
      BY <1>3, <1>6, <1>7 DEF Kept
<1> QED BY <1>1, <1>3, <1>5, <1>8 DEF UnionInv

LEMMA UnionStep == UnionInv /\ [Union!Next]_union => UnionInv'
<1> SUFFICES ASSUME UnionInv, [Union!Next]_union PROVE UnionInv'
    OBVIOUS
<1>1. PICK r \in [All -> All] : part = Classes(r) /\ Kept(kind, uf, r)
      BY DEF UnionInv
<1>2. ASSUME NEW p \in All, NEW q \in All, Union!union(p, q) PROVE UnionInv'
  <2>1. kind' = kind /\ kind \in Union!Kinds /\ uf \in Records(All, Numbers)
        BY <1>2 DEF Union!union, UnionInv
  <2>2. part' = Joined(r, p, q)
    <3>1. Union!SetOf(p) = Class(r, p) /\ Union!SetOf(q) = Class(r, q)
          BY <1>1, SetOfIs
    <3>2. Union!Joins(p, q)
          BY <1>2 DEF Union!union
    <3> QED BY <1>1, <3>1, <3>2, Zenon DEF Union!Joins, Joined, Merged
  <2>3. CASE kind = "QuickFind"
    <3>1. uf' = Union!QuickFindUnion(uf, p, q) /\ uf.id = r
          BY <1>1, <1>2, <2>3 DEF Union!union, Kept
    <3>2. uf' \in Records(All, Numbers) /\ uf'.id = Led(All, r, r[p], r[q])
          BY <2>1, <3>1, QuickFindKeeps
    <3>3. Led(All, r, r[p], r[q]) \in [All -> All] /\ Classes(Led(All, r, r[p], r[q])) = Joined(r, p, q)
          BY LedIn, ClassesJoin
    <3> QED BY <2>1, <2>2, <2>3, <3>2, <3>3 DEF UnionInv, Kept
  <2>4. CASE kind = "QuickUnion"
    <3>1. uf' = Union!QuickUnion(uf, p, q)
          BY <1>2, <2>4 DEF Union!union
    <3>2. uf' \in Records(All, Numbers) /\ Kept(kind', uf', Led(All, r, r[p], r[q]))
          BY <1>1, <2>1, <2>4, <3>1, QuickUnionKeeps
    <3>3. Led(All, r, r[p], r[q]) \in [All -> All] /\ Classes(Led(All, r, r[p], r[q])) = Joined(r, p, q)
          BY LedIn, ClassesJoin
    <3> QED BY <2>1, <2>2, <3>2, <3>3 DEF UnionInv
  <2>5. CASE kind = "Weighted"
    <3>1. uf' = Union!WeightedUnion(uf, p, q) /\ kind \in Weighting
          BY <1>2, <2>5 DEF Union!union, Weighting
    <3>2. uf' \in Records(All, Numbers)
          BY <1>1, <2>1, <3>1, WeightedKeeps
    <3>3. PICK r2 \in [All -> All] : Classes(r2) = Joined(r, p, q) /\ Kept(kind', uf', r2)
          BY <1>1, <2>1, <3>1, WeightedKeeps
    <3> QED BY <2>1, <2>2, <3>2, <3>3 DEF UnionInv
  <2>6. CASE kind = "PathCompression"
    <3> DEFINE u == Union!CompressBoth(uf, p, q)
    <3>1. uf' = Union!WeightedUnion(u, p, q) /\ kind \in Weighting
          BY <1>2, <2>6 DEF Union!union, Weighting
    <3>2. u \in Records(All, Numbers) /\ Kept(kind, u, r)
          BY <1>1, <2>1, <2>6, CompressKeeps DEF Union!CompressBoth
    <3> HIDE DEF u
    <3>3. uf' \in Records(All, Numbers)
          BY <2>1, <3>1, <3>2, WeightedKeeps
    <3>4. PICK r2 \in [All -> All] : Classes(r2) = Joined(r, p, q) /\ Kept(kind', uf', r2)
          BY <2>1, <3>1, <3>2, WeightedKeeps
    <3> QED BY <2>1, <2>2, <3>3, <3>4 DEF UnionInv
  <2> QED BY <2>1, <2>3, <2>4, <2>5, <2>6 DEF Union!Kinds
<1>3. ASSUME NEW p \in All, NEW q \in All, Union!AskConnected(p, q) PROVE UnionInv'
  <2>1. /\ kind = "PathCompression" /\ kind' = kind /\ part' = part
        /\ uf' = Union!CompressBoth(uf, p, q) /\ uf \in Records(All, Numbers)
        /\ kind \in Union!Kinds
        BY <1>3 DEF Union!AskConnected, UnionInv
  <2>2. uf' \in Records(All, Numbers) /\ Kept(kind, uf', r)
        BY <1>1, <2>1, CompressKeeps DEF Union!CompressBoth
  <2> QED BY <1>1, <2>1, <2>2 DEF UnionInv
<1>4. CASE UNCHANGED union
      BY <1>4 DEF union, UnionInv
<1> QED BY <1>2, <1>3, <1>4 DEF Union!Next, All

LEMMA UnionSameCount == ASSUME NEW S PROVE Union!Cardinality(S) = Cardinality(S)
BY DEF Union!Cardinality, Cardinality

LEMMA UnionConnects == UnionInv => Union!ConnectedAsJoined
<1> SUFFICES ASSUME UnionInv PROVE Union!ConnectedAsJoined
    OBVIOUS
<1>1. PICK r \in [All -> All] : part = Classes(r) /\ Kept(kind, uf, r)
      BY DEF UnionInv
<1>2. \A p \in All : Union!SetOf(p) = Class(r, p)
      BY <1>1, SetOfIs
<1>3. kind \in Union!Kinds /\ uf \in Records(All, Numbers)
      BY DEF UnionInv
<1>4. Union!TypeOK
  <2>1. part \subseteq SUBSET All
        BY <1>1 DEF Classes, Class
  <2> QED BY <1>3, <2>1 DEF Union!TypeOK, Records, All
<1>5. \A p, q \in All : Class(r, p) = Class(r, q) <=> r[p] = r[q]
      BY DEF Class
<1>6. ASSUME NEW p \in All, NEW q \in All
      PROVE  Union!connected(p, q) <=> Union!SetOf(p) = Union!SetOf(q)
  <2>1. Union!connected(p, q) <=> r[p] = r[q]
    <3>1. CASE kind = "QuickFind"
          BY <1>1, <3>1 DEF Kept, Union!connected
    <3>2. CASE kind # "QuickFind"
      <4>1. PICK d, m : Forest(All, uf.id, d, r)
            BY <1>1, <3>2 DEF Kept
      <4>2. Union!Root(uf, p) = r[p] /\ Union!Root(uf, q) = r[q]
            BY <4>1, RootIs
      <4> QED BY <3>2, <4>2 DEF Union!connected, Union!SameRoot
    <3> QED BY <3>1, <3>2
  <2> QED BY <1>2, <1>5, <2>1
<1>7. ASSUME kind \in Weighting, NEW p \in All
      PROVE  /\ 2 ^ Union!Depth(p) <= Union!Cardinality(Union!SetOf(p))
             /\ uf.id[p] = p => uf.sz[p] = Union!Cardinality(Union!SetOf(p))
  <2>1. PICK d, m : /\ Forest(All, uf.id, d, r) /\ m \in Nat /\ \A x \in All : d[x] <= m
                    /\ Weighed(All, uf, d, r)
        BY <1>1, <1>7 DEF Kept, Weighting
  <2>2. Ranked(All, uf.id, d) /\ d[p] \in Nat
        BY <2>1 DEF Forest, Ranked
  <2> DEFINE e == CHOOSE e : Deep(All, uf.id, e)
  <2>3. \E f : Deep(All, uf.id, f)
        BY <2>1, <2>2, DepthExists
  <2>4. Deep(All, uf.id, e)
        BY <2>3
  <2>5. Union!Depth(p) = e[p]
        BY DEF Union!Depth, Deep, All
  <2> HIDE DEF e
  <2>6. e[p] \in Nat /\ e[p] <= d[p]
        BY <2>2, <2>4, DepthAtMost
  <2>7. 2 ^ e[p] <= 2 ^ d[p]
        BY <2>2, <2>6, PowersGrow
  <2>8. /\ 2 ^ d[p] <= Cardinality(Class(r, p))
        /\ uf.id[p] = p => uf.sz[p] = Cardinality(Class(r, p))
        BY <2>1 DEF Weighed
  <2>9. Union!Cardinality(Union!SetOf(p)) = Cardinality(Class(r, p))
        BY <1>2, UnionSameCount
  <2>10. 2 ^ e[p] \in Nat /\ 2 ^ d[p] \in Nat /\ Cardinality(Class(r, p)) \in Nat
         BY <2>2, <2>6, Powers, UnionNumbers, ClassesOf
  <2> QED BY <2>5, <2>7, <2>8, <2>9, <2>10
<1> QED BY <1>4, <1>6, <1>7 DEF Union!ConnectedAsJoined, All, Weighting

LEMMA UnionOfEach ==
    /\ EachInit => Union!Init
    /\ [EachNext]_all => [Union!Next]_union
BY DEF EachInit, EachNext, Step, all, union

\* Each of the four kinds of UnionFind.java finds connected exactly what was joined by
\* its unions; in the two weighted ones no element is deeper than the logarithm of the
\* number of elements it is connected to, which sz counts at the root.
THEOREM JoinedIsConnected == EachSpec => []ConnectedAsJoined
<1>1. EachInit => UnionInv
      BY UnionOfEach, UnionStart
<1>2. UnionInv /\ [EachNext]_all => UnionInv'
      BY UnionOfEach, UnionStep
<1> QED BY <1>1, <1>2, UnionConnects, PTL DEF EachSpec, ConnectedAsJoined

-----------------------------------------------------------------------------
(* The sites of the grid and their numbers.                                *)

Top    == Grid!virtualNode1
Bottom == Grid!virtualNode2
Dot    == 0 .. Bottom

LEMMA Divided ==
    ASSUME NEW N \in Nat \ {0}, NEW x \in Nat
    PROVE  /\ x \div N \in Nat /\ N * (x \div N) \in Nat
           /\ x % N = x - N * (x \div N) /\ x % N \in 0 .. N - 1
<1>1. x \div N \in Nat
      OBVIOUS
<1>2. N * (x \div N) \in Nat
      BY <1>1
<1>3. x % N = x - N * (x \div N)
      OBVIOUS
<1>4. x % N \in 0 .. N - 1
      OBVIOUS
<1> QED BY <1>1, <1>2, <1>3, <1>4

LEMMA GridNumbers ==
    /\ Rows \in Nat \ {0} /\ Rows * Rows \in Nat \ {0}
    /\ Top = Rows * Rows /\ Bottom = Rows * Rows + 1
    /\ IsFiniteSet(Grid!Site) /\ Cardinality(Grid!Site) = Rows * Rows
    /\ IsFiniteSet(1 .. Rows * Rows) /\ Cardinality(1 .. Rows * Rows) = Rows * Rows
<1>1. Rows \in Nat \ {0}
      BY StructuresAssumption
<1>2. Rows * Rows \in Nat \ {0}
      BY <1>1
<1>3. Top = Rows * Rows /\ Bottom = Rows * Rows + 1
      BY DEF Top, Bottom, Grid!virtualNode1, Grid!virtualNode2, Grid!rows
<1>4. IsFiniteSet(0 .. Rows - 1) /\ Cardinality(0 .. Rows - 1) = Rows
  <2>1. 0 \in Int /\ Rows - 1 \in Int
        BY <1>1
  <2> QED BY <1>1, <2>1, FS_Interval
<1>5. IsFiniteSet(Grid!Site) /\ Cardinality(Grid!Site) = Rows * Rows
      BY <1>4, FS_Product DEF Grid!Site
<1>6. IsFiniteSet(1 .. Rows * Rows) /\ Cardinality(1 .. Rows * Rows) = Rows * Rows
      BY <1>2, FS_Interval
<1> QED BY <1>1, <1>2, <1>3, <1>5, <1>6

LEMMA NodeIn ==
    ASSUME NEW s \in Grid!Site
    PROVE  Grid!Node(s) \in 0 .. Rows * Rows - 1 /\ Grid!Node(s) \in Dot /\ Grid!Node(s) # Top /\ Grid!Node(s) # Bottom
<1>1. PICK a \in 0 .. Rows - 1, b \in 0 .. Rows - 1 : s = <<a, b>>
      BY DEF Grid!Site
<1>2. Grid!Node(s) = a * Rows + b
      BY <1>1 DEF Grid!Node, Grid!rows
<1>3. PICK m \in Nat : m = Rows - 1 - a
      BY <1>1, GridNumbers
<1>4. a * Rows + b \in Nat
      BY <1>1, GridNumbers
<1>5. Rows * Rows = (a + m + 1) * Rows /\ a \in Nat
      BY <1>1, <1>3, GridNumbers
<1>6. (a + m + 1) * Rows = a * Rows + m * Rows + Rows /\ m * Rows \in Nat /\ a * Rows \in Nat
      BY <1>5, GridNumbers
<1>7. a * Rows + b <= Rows * Rows - 1
  <2>1. Rows \in Nat /\ b \in Nat /\ b <= Rows - 1
        BY <1>1, GridNumbers
  <2>2. PICK x \in Nat, y \in Nat : x = a * Rows /\ y = m * Rows
        BY <1>6
  <2>3. Rows * Rows = x + y + Rows
        BY <1>5, <1>6, <2>2
  <2> QED BY <2>1, <2>2, <2>3
<1> QED BY <1>2, <1>4, <1>7, GridNumbers DEF Dot

\* The array of PercolationStats numbers the sites as the union-finds do, from 1 on.
LEMMA SiteOfNumber ==
    ASSUME NEW x \in 1 .. Rows * Rows
    PROVE  Grid!SiteOf(x) \in Grid!Site /\ Grid!Node(Grid!SiteOf(x)) = x - 1
<1>1. /\ x \in Nat /\ x > 0 /\ x <= Rows * Rows /\ Rows \in Nat \ {0}
      BY GridNumbers
<1>2. PICK q \in Nat, c \in 0 .. Rows - 1 : q = x \div Rows /\ c = x % Rows /\ x = Rows * q + c
  <2>1. PICK q \in Nat, c \in 0 .. Rows - 1 : q = x \div Rows /\ c = x % Rows
        BY <1>1, Divided
  <2>2. c = x - Rows * q /\ Rows * q \in Nat
        BY <1>1, <2>1, Divided
  <2>3. x = Rows * q + c
        BY <1>1, <2>2
  <2> QED BY <2>1, <2>3
<1>3. CASE c = 0
  <2>1. Grid!SiteOf(x) = <<q - 1, Rows - 1>>
        BY <1>2, <1>3 DEF Grid!SiteOf
  <2>2. q # 0
        BY <1>1, <1>2, <1>3
  <2>3. q <= Rows
    <3> SUFFICES ASSUME ~(q <= Rows) PROVE FALSE
        BY <1>1
    <3>1. PICK m \in Nat : q = Rows + 1 + m
          BY <1>1
    <3>2. Rows * q = Rows * Rows + Rows + Rows * m /\ Rows * m \in Nat /\ Rows * Rows \in Nat
          BY <1>1, <3>1
    <3> QED BY <1>1, <1>2, <1>3, <3>2
  <2>4. Grid!Node(<<q - 1, Rows - 1>>) = (q - 1) * Rows + (Rows - 1)
        BY DEF Grid!Node, Grid!rows
  <2>5. (q - 1) * Rows = Rows * q - Rows /\ Rows * q \in Nat
        BY <1>1
  <2>6. q - 1 \in 0 .. Rows - 1 /\ Rows - 1 \in 0 .. Rows - 1
        BY <1>1, <2>2, <2>3
  <2> QED BY <1>1, <1>2, <1>3, <2>1, <2>4, <2>5, <2>6 DEF Grid!Site
<1>4. CASE c # 0
  <2>1. Grid!SiteOf(x) = <<q, c - 1>>
        BY <1>2, <1>4 DEF Grid!SiteOf
  <2>2. q < Rows
    <3> SUFFICES ASSUME ~(q < Rows) PROVE FALSE
        BY <1>1
    <3>1. PICK m \in Nat : q = Rows + m
          BY <1>1
    <3>2. Rows * q = Rows * Rows + Rows * m /\ Rows * m \in Nat /\ Rows * Rows \in Nat
          BY <1>1, <3>1
    <3> QED BY <1>1, <1>2, <1>4, <3>2
  <2>3. Grid!Node(<<q, c - 1>>) = q * Rows + (c - 1)
        BY DEF Grid!Node, Grid!rows
  <2>4. q * Rows = Rows * q /\ Rows * q \in Nat
        BY <1>1
  <2>5. q \in 0 .. Rows - 1 /\ c - 1 \in 0 .. Rows - 1
        BY <1>1, <1>4, <2>2
  <2> QED BY <1>1, <1>2, <1>4, <2>1, <2>3, <2>4, <2>5 DEF Grid!Site
<1> QED BY <1>3, <1>4

\* Every site has a number: there are as many of both, and different numbers are different sites.
LEMMA EverySite ==
    ASSUME NEW s \in Grid!Site
    PROVE  \E x \in 1 .. Rows * Rows : Grid!SiteOf(x) = s
<1> DEFINE f == [x \in 1 .. Rows * Rows |-> Grid!SiteOf(x)]
<1>1. f \in [1 .. Rows * Rows -> Grid!Site]
      BY SiteOfNumber
<1>2. ASSUME NEW x \in 1 .. Rows * Rows, NEW y \in 1 .. Rows * Rows, f[x] = f[y] PROVE x = y
  <2>1. x - 1 = y - 1
        BY <1>2, SiteOfNumber
  <2> QED BY <2>1, GridNumbers
<1>3. f \in Injection(1 .. Rows * Rows, Grid!Site)
      BY <1>1, <1>2 DEF Injection, IsInjective
<1>4. f \in Surjection(1 .. Rows * Rows, Grid!Site)
      BY <1>3, GridNumbers, FS_Injection
<1> QED BY <1>4 DEF Surjection

LEMMA OneNode ==
    ASSUME NEW s \in Grid!Site, NEW t \in Grid!Site, Grid!Node(s) = Grid!Node(t) PROVE s = t
<1>1. PICK x \in 1 .. Rows * Rows, y \in 1 .. Rows * Rows : Grid!SiteOf(x) = s /\ Grid!SiteOf(y) = t
      BY EverySite
<1>2. x - 1 = y - 1
      BY <1>1, SiteOfNumber
<1> QED BY <1>1, <1>2, GridNumbers

-----------------------------------------------------------------------------
(* What a union-find spans.                                                *)

LEMMA GridSame ==
    ASSUME NEW u, NEW p, NEW q
    PROVE  /\ Grid!Root(u, p) = Union!Root(u, p)
           /\ Grid!Under(u, p, q) = Union!Under(u, p, q)
           /\ Grid!Lighter(u, p, q) = Union!Lighter(u, p, q)
BY DEF Grid!Root, Union!Root, Grid!Under, Union!Under, Grid!Lighter, Union!Lighter

Recs(D) == [id : [D -> D], sz : [D -> Int]]
Tree(D, u, r) == u \in Recs(D) /\ r \in [D -> D] /\ \E d : Forest(D, u.id, d, r)

Binds(D, r, r2, p, q) ==
    \A x, y \in D : r2[x] = r2[y] <=> r[x] = r[y] \/ {r[x], r[y]} \subseteq {r[p], r[q]}

LEMMA LedBinds ==
    ASSUME NEW D, NEW r \in [D -> D], NEW p \in D, NEW q \in D
    PROVE  Binds(D, r, Led(D, r, r[p], r[q]), p, q) /\ Binds(D, r, Led(D, r, r[q], r[p]), p, q)
BY DEF Binds, Led

LEMMA UnderRec ==
    ASSUME NEW D, NEW u \in Recs(D), NEW a \in D, NEW b \in D
    PROVE  Grid!Under(u, a, b) \in Recs(D) /\ Grid!Under(u, a, b).id = [u.id EXCEPT ![a] = b]
<1>1. u.sz[b] + u.sz[a] \in Int
      BY DEF Recs
<1>2. PICK v \in Int : v = u.sz[b] + u.sz[a]
      BY <1>1
<1>3. Grid!Under(u, a, b) = [u EXCEPT !.id[a] = b, !.sz[b] = v]
      BY <1>2 DEF Grid!Under, Recs
<1>4. PICK w \in Int : w = v /\ Grid!Under(u, a, b) = [u EXCEPT !.id[a] = b, !.sz[b] = w]
      BY <1>3
<1>5. u.id \in [D -> D] /\ u.sz \in [D -> Int] /\ u = [id |-> u.id, sz |-> u.sz]
      BY DEF Recs
<1>6. Grid!Under(u, a, b) = [id |-> [u.id EXCEPT ![a] = b], sz |-> [u.sz EXCEPT ![b] = w]]
      BY <1>4, <1>5
<1>7. [u.id EXCEPT ![a] = b] \in [D -> D] /\ [u.sz EXCEPT ![b] = w] \in [D -> Int]
      BY <1>4, <1>5
<1> QED BY <1>6, <1>7 DEF Recs

LEMMA TreeUnder ==
    ASSUME NEW D, NEW u, NEW r, Tree(D, u, r), NEW a \in D, NEW b \in D, a # b, u.id[a] = a, u.id[b] = b
    PROVE  Tree(D, Grid!Under(u, a, b), Led(D, r, a, b))
<1>1. PICK d : Forest(D, u.id, d, r)
      BY DEF Tree
<1>2. Forest(D, [u.id EXCEPT ![a] = b], Lower(D, d, r, a), Led(D, r, a, b))
      BY <1>1, Hangs
<1>3. Led(D, r, a, b) \in [D -> D]
      BY DEF Tree, Led
<1> QED BY <1>2, <1>3, UnderRec DEF Tree

LEMMA TreeUnion ==
    ASSUME NEW D, NEW u, NEW r, Tree(D, u, r), NEW p \in D, NEW q \in D
    PROVE  \E r2 : Tree(D, Grid!WeightedUnion(u, p, q), r2) /\ Binds(D, r, r2, p, q)
<1>1. PICK d : Forest(D, u.id, d, r)
      BY DEF Tree
<1>2. Grid!Root(u, p) = r[p] /\ Grid!Root(u, q) = r[q]
      BY <1>1, RootIs, GridSame
<1>3. PICK a \in D, b \in D : a = r[p] /\ b = r[q] /\ u.id[a] = a /\ u.id[b] = b
      BY <1>1, Roots
<1>4. r \in [D -> D]
      BY DEF Tree
<1>5. Binds(D, r, Led(D, r, a, b), p, q) /\ Binds(D, r, Led(D, r, b, a), p, q)
      BY <1>3, <1>4, LedBinds
<1>6. CASE a = b
  <2>1. Grid!WeightedUnion(u, p, q) = u
        BY <1>2, <1>3, <1>6 DEF Grid!WeightedUnion
  <2>2. Binds(D, r, r, p, q)
        BY <1>3, <1>4, <1>6 DEF Binds
  <2> QED BY <2>1, <2>2
<1>7. CASE a # b /\ Grid!Lighter(u, a, b)
  <2>1. Grid!WeightedUnion(u, p, q) = Grid!Under(u, a, b)
        BY <1>2, <1>3, <1>7 DEF Grid!WeightedUnion
  <2> QED BY <1>3, <1>5, <1>7, <2>1, TreeUnder
<1>8. CASE a # b /\ ~Grid!Lighter(u, a, b)
  <2>1. Grid!WeightedUnion(u, p, q) = Grid!Under(u, b, a)
        BY <1>2, <1>3, <1>8 DEF Grid!WeightedUnion
  <2> QED BY <1>3, <1>5, <1>8, <2>1, TreeUnder
<1> QED BY <1>6, <1>7, <1>8

Closed(X, E) == \A e \in E : \A x, y \in e : x \in X <=> y \in X

\* r joins what the edges join, and nothing else.
Spans(D, r, E) ==
    /\ \A e \in E : \A x, y \in e : r[x] = r[y]
    /\ \A X \in SUBSET D : Closed(X, E) => \A x, y \in D : r[x] = r[y] => (x \in X <=> y \in X)

Spanned(D, u, E) == E \in SUBSET SUBSET D /\ \E r : Tree(D, u, r) /\ Spans(D, r, E)

LEMMA SpansMore ==
    ASSUME NEW D, NEW r, NEW E \in SUBSET SUBSET D, Spans(D, r, E), NEW p \in D, NEW q \in D,
           NEW r2, Binds(D, r, r2, p, q)
    PROVE  Spans(D, r2, E \cup {{p, q}})
<1>1. ASSUME NEW e \in E \cup {{p, q}}, NEW x \in e, NEW y \in e PROVE r2[x] = r2[y]
  <2>1. CASE e \in E
    <3>1. r[x] = r[y] /\ x \in D /\ y \in D
          BY <2>1 DEF Spans
    <3> QED BY <3>1 DEF Binds
  <2>2. CASE e = {p, q}
        BY <2>2 DEF Binds
  <2> QED BY <2>1, <2>2
<1>2. ASSUME NEW X \in SUBSET D, Closed(X, E \cup {{p, q}}), NEW x \in D, NEW y \in D, r2[x] = r2[y]
      PROVE  x \in X <=> y \in X
  <2>1. Closed(X, E)
        BY <1>2 DEF Closed
  <2>4. {p, q} \in E \cup {{p, q}} /\ p \in {p, q} /\ q \in {p, q}
        OBVIOUS
  <2>5. p \in X <=> q \in X
        BY <1>2, <2>4, Zenon DEF Closed
  <2>2. \A v, w \in D : r[v] = r[w] => (v \in X <=> w \in X)
        BY <2>1 DEF Spans
  <2>3. r[x] = r[y] \/ (r[x] \in {r[p], r[q]} /\ r[y] \in {r[p], r[q]})
        BY <1>2 DEF Binds
  <2> QED BY <2>5, <2>2, <2>3
<1> QED BY <1>1, <1>2, Zenon DEF Spans

LEMMA SpannedUnion ==
    ASSUME NEW D, NEW u, NEW E, Spanned(D, u, E), NEW p \in D, NEW q \in D
    PROVE  Spanned(D, Grid!WeightedUnion(u, p, q), E \cup {{p, q}})
<1>1. PICK r : Tree(D, u, r) /\ Spans(D, r, E)
      BY DEF Spanned
<1>2. PICK r2 : Tree(D, Grid!WeightedUnion(u, p, q), r2) /\ Binds(D, r, r2, p, q)
      BY <1>1, TreeUnion
<1>3. E \in SUBSET SUBSET D /\ E \cup {{p, q}} \in SUBSET SUBSET D
      BY DEF Spanned
<1>4. Spans(D, r2, E \cup {{p, q}})
      BY <1>1, <1>2, <1>3, SpansMore
<1> QED BY <1>2, <1>3, <1>4 DEF Spanned

-----------------------------------------------------------------------------
(* What opening a site adds.                                               *)

\* The edges that open sites g make: between neighbours, to the top and to the bottom.
Across(g) == {e \in SUBSET Dot :
                \E s, t \in g : Grid!Adjacent(s, t) /\ e = {Grid!Node(s), Grid!Node(t)}}
Row(g, i) == {s \in g : s[1] = i}
To(v, g)  == {e \in SUBSET Dot : \E s \in g : e = {v, Grid!Node(s)}}

Drained(g) == Across(g) \cup To(Top, Row(g, 0))
Piped(g)  == Drained(g) \cup To(Bottom, Row(g, Rows - 1))

Only(c, e) == IF c THEN {e} ELSE {}

Up(s)    == <<s[1] - 1, s[2]>>
Right(s) == <<s[1], s[2] + 1>>
Down(s)  == <<s[1] + 1, s[2]>>
Left(s)  == <<s[1], s[2] - 1>>
Nears(s) == {Up(s), Right(s), Down(s), Left(s)}
Edge(s, t) == {Grid!Node(s), Grid!Node(t)}

LEMMA Neighbourly ==
    ASSUME NEW s \in Grid!Site, NEW t \in Grid!Site
    PROVE  /\ Grid!Adjacent(s, t) <=> t \in Nears(s)
           /\ Grid!Adjacent(s, t) <=> Grid!Adjacent(t, s)
           /\ ~Grid!Adjacent(s, s)
<1>1. PICK a \in 0 .. Rows - 1, b \in 0 .. Rows - 1 : s = <<a, b>>
      BY DEF Grid!Site
<1>2. PICK c \in 0 .. Rows - 1, d \in 0 .. Rows - 1 : t = <<c, d>>
      BY DEF Grid!Site
<1>3. a \in Int /\ b \in Int /\ c \in Int /\ d \in Int
      BY <1>1, <1>2, GridNumbers
<1>4. Grid!Adjacent(s, t) <=> (a = c /\ b - d \in {-1, 1}) \/ (b = d /\ a - c \in {-1, 1})
      BY <1>1, <1>2 DEF Grid!Adjacent
<1>5. Grid!Adjacent(t, s) <=> (c = a /\ d - b \in {-1, 1}) \/ (d = b /\ c - a \in {-1, 1})
      BY <1>1, <1>2 DEF Grid!Adjacent
<1>6. Grid!Adjacent(s, s) <=> (a = a /\ b - b \in {-1, 1}) \/ (b = b /\ a - a \in {-1, 1})
      BY <1>1 DEF Grid!Adjacent
<1>7. Nears(s) = {<<a - 1, b>>, <<a, b + 1>>, <<a + 1, b>>, <<a, b - 1>>}
      BY <1>1 DEF Nears, Up, Right, Down, Left
<1>8. t \in Nears(s) <=> \/ c = a - 1 /\ d = b
                         \/ c = a /\ d = b + 1
                         \/ c = a + 1 /\ d = b
                         \/ c = a /\ d = b - 1
  <2>1. /\ t = <<a - 1, b>> <=> c = a - 1 /\ d = b
        /\ t = <<a, b + 1>> <=> c = a /\ d = b + 1
        /\ t = <<a + 1, b>> <=> c = a + 1 /\ d = b
        /\ t = <<a, b - 1>> <=> c = a /\ d = b - 1
        BY <1>2
  <2>3. t \in Nears(s) <=> \/ t = <<a - 1, b>>
                           \/ t = <<a, b + 1>>
                           \/ t = <<a + 1, b>>
                           \/ t = <<a, b - 1>>
        BY <1>7
  <2> QED BY <2>1, <2>3
<1>9. Grid!Adjacent(s, t) <=> t \in Nears(s)
  <2>1. \A x, y \in Int : x - y \in {-1, 1} <=> y = x + 1 \/ y = x - 1
        OBVIOUS
  <2>2. /\ b - d \in {-1, 1} <=> d = b + 1 \/ d = b - 1
        /\ a - c \in {-1, 1} <=> c = a + 1 \/ c = a - 1
        BY <1>3, <2>1
  <2> QED BY <1>4, <1>8, <2>2
<1>10. Grid!Adjacent(s, t) <=> Grid!Adjacent(t, s)
      BY <1>3, <1>4, <1>5
<1>11. ~Grid!Adjacent(s, s)
      BY <1>3, <1>6
<1> QED BY <1>9, <1>10, <1>11

LEMMA EdgeIn ==
    ASSUME NEW s \in Grid!Site, NEW t \in Grid!Site
    PROVE  Edge(s, t) \in SUBSET Dot /\ Edge(s, t) = Edge(t, s)
BY NodeIn DEF Edge

LEMMA EndsIn == Top \in Dot /\ Bottom \in Dot /\ Top # Bottom
BY GridNumbers DEF Dot

LEMMA AcrossMore ==
    ASSUME NEW g \in SUBSET Grid!Site, NEW s \in Grid!Site
    PROVE  Across(g \cup {s}) = Across(g) \cup {Edge(s, t) : t \in g \cap Nears(s)}
<1>1. ASSUME NEW e \in Across(g \cup {s})
      PROVE  e \in Across(g) \/ \E t \in g \cap Nears(s) : e = Edge(s, t)
  <2>1. PICK a \in g \cup {s}, b \in g \cup {s} : Grid!Adjacent(a, b) /\ e = Edge(a, b)
        BY DEF Across, Edge
  <2>2. CASE a \in g /\ b \in g
        BY <2>1, <2>2 DEF Across, Edge
  <2>3. CASE a = s /\ b \in g
        BY <2>1, <2>3, Neighbourly
  <2>4. CASE a \in g /\ b = s
        BY <2>1, <2>4, Neighbourly, EdgeIn
  <2>5. ~(a = s /\ b = s)
        BY <2>1, Neighbourly
  <2> QED BY <2>2, <2>3, <2>4, <2>5
<1>2. Across(g) \subseteq Across(g \cup {s})
      BY DEF Across
<1>3. ASSUME NEW t \in g \cap Nears(s) PROVE Edge(s, t) \in Across(g \cup {s})
  <2>1. Grid!Adjacent(s, t) /\ Edge(s, t) \in SUBSET Dot
        BY Neighbourly, EdgeIn
  <2> QED BY <2>1 DEF Across, Edge
<1> QED BY <1>1, <1>2, <1>3

LEMMA ToMore ==
    ASSUME NEW g \in SUBSET Grid!Site, NEW s \in Grid!Site, NEW v \in Dot, NEW i
    PROVE  To(v, Row(g \cup {s}, i)) = To(v, Row(g, i)) \cup Only(s[1] = i, {v, Grid!Node(s)})
<1>1. {v, Grid!Node(s)} \in SUBSET Dot
      BY NodeIn
<1>2. Row(g \cup {s}, i) = Row(g, i) \cup (IF s[1] = i THEN {s} ELSE {})
      BY DEF Row
<1> QED BY <1>1, <1>2 DEF To, Only

\* WithNeighbour, WithTop and WithBottom add an edge or nothing.
LEMMA SpannedNear ==
    ASSUME NEW u, NEW E, Spanned(Dot, u, E), grid \in SUBSET Grid!Site, NEW s \in Grid!Site, NEW t
    PROVE  Spanned(Dot, Grid!WithNeighbour(u, s, t), E \cup Only(t \in grid, Edge(s, t)))
<1>1. CASE t \in grid
  <2>1. Grid!Node(s) \in Dot /\ Grid!Node(t) \in Dot
        BY <1>1, NodeIn
  <2>2. Spanned(Dot, Grid!WeightedUnion(u, Grid!Node(s), Grid!Node(t)), E \cup {{Grid!Node(s), Grid!Node(t)}})
        BY <2>1, SpannedUnion
  <2> QED BY <1>1, <2>2 DEF Grid!WithNeighbour, Only, Edge
<1>2. CASE t \notin grid
  <2>1. E \cup Only(t \in grid, Edge(s, t)) = E
        BY <1>2 DEF Only
  <2> QED BY <1>2, <2>1 DEF Grid!WithNeighbour
<1> QED BY <1>1, <1>2

LEMMA SpannedTop ==
    ASSUME NEW u, NEW E, Spanned(Dot, u, E), NEW s \in Grid!Site
    PROVE  Spanned(Dot, Grid!WithTop(u, s), E \cup Only(s[1] = 0, {Top, Grid!Node(s)}))
<1>1. CASE s[1] = 0
  <2>1. Top \in Dot /\ Grid!Node(s) \in Dot
        BY EndsIn, NodeIn
  <2>2. Spanned(Dot, Grid!WeightedUnion(u, Top, Grid!Node(s)), E \cup {{Top, Grid!Node(s)}})
        BY <2>1, SpannedUnion
  <2> QED BY <1>1, <2>2 DEF Grid!WithTop, Only, Top
<1>2. CASE s[1] # 0
  <2>1. E \cup Only(s[1] = 0, {Top, Grid!Node(s)}) = E
        BY <1>2 DEF Only
  <2> QED BY <1>2, <2>1 DEF Grid!WithTop
<1> QED BY <1>1, <1>2

LEMMA SpannedBottom ==
    ASSUME NEW u, NEW E, Spanned(Dot, u, E), NEW s \in Grid!Site
    PROVE  Spanned(Dot, Grid!WithBottom(u, s), E \cup Only(s[1] = Rows - 1, {Bottom, Grid!Node(s)}))
<1>1. CASE s[1] = Rows - 1
  <2>1. Bottom \in Dot /\ Grid!Node(s) \in Dot
        BY EndsIn, NodeIn
  <2>2. Spanned(Dot, Grid!WeightedUnion(u, Bottom, Grid!Node(s)), E \cup {{Bottom, Grid!Node(s)}})
        BY <2>1, SpannedUnion
  <2> QED BY <1>1, <2>2 DEF Grid!WithBottom, Only, Bottom, Grid!rows
<1>2. CASE s[1] # Rows - 1
  <2>1. E \cup Only(s[1] = Rows - 1, {Bottom, Grid!Node(s)}) = E
        BY <1>2 DEF Only
  <2> QED BY <1>2, <2>1 DEF Grid!WithBottom, Grid!rows
<1> QED BY <1>1, <1>2

LEMMA SpannedNears ==
    ASSUME NEW u, NEW E, Spanned(Dot, u, E), grid \in SUBSET Grid!Site, NEW s \in Grid!Site
    PROVE  Spanned(Dot, Grid!WithNeighbours(u, s), E \cup {Edge(s, t) : t \in grid \cap Nears(s)})
<1> DEFINE u1 == Grid!WithNeighbour(u, s, Up(s))
           u2 == Grid!WithNeighbour(u1, s, Right(s))
           u3 == Grid!WithNeighbour(u2, s, Down(s))
           u4 == Grid!WithNeighbour(u3, s, Left(s))
           E1 == E \cup Only(Up(s) \in grid, Edge(s, Up(s)))
           E2 == E1 \cup Only(Right(s) \in grid, Edge(s, Right(s)))
           E3 == E2 \cup Only(Down(s) \in grid, Edge(s, Down(s)))
           E4 == E3 \cup Only(Left(s) \in grid, Edge(s, Left(s)))
<1>1. Spanned(Dot, u1, E1)
      BY SpannedNear, Zenon
<1> HIDE DEF u1, E1
<1>2. Spanned(Dot, u2, E2)
      BY <1>1, SpannedNear, Zenon
<1> HIDE DEF u2, E2
<1>3. Spanned(Dot, u3, E3)
      BY <1>2, SpannedNear, Zenon
<1> HIDE DEF u3, E3
<1>4. Spanned(Dot, u4, E4)
      BY <1>3, SpannedNear, Zenon
<1> HIDE DEF u4, E4
<1>5. E4 = E \cup {Edge(s, t) : t \in grid \cap Nears(s)}
      BY DEF E1, E2, E3, E4, Only, Nears
<1>6. Grid!WithNeighbours(u, s) = u4
      BY DEF Grid!WithNeighbours, u1, u2, u3, u4, Up, Right, Down, Left
<1> QED BY <1>4, <1>5, <1>6

LEMMA OpenSpans ==
    ASSUME grid \in SUBSET Grid!Site, NEW s \in Grid!Site, Grid!Open(s),
           Spanned(Dot, site_uf, Piped(grid)), Spanned(Dot, backwashUf, Drained(grid))
    PROVE  /\ grid' \in SUBSET Grid!Site /\ grid' = grid \cup {s}
           /\ Spanned(Dot, site_uf', Piped(grid')) /\ Spanned(Dot, backwashUf', Drained(grid'))
<1>1. /\ grid' = grid \cup {s}
      /\ site_uf' = Grid!WithNeighbours(Grid!WithBottom(Grid!WithTop(site_uf, s), s), s)
      /\ backwashUf' = Grid!WithNeighbours(Grid!WithTop(backwashUf, s), s)
      BY DEF Grid!Open, Grid!LeavesBottomOut
<1> DEFINE new == {Edge(s, t) : t \in grid \cap Nears(s)}
           top == Only(s[1] = 0, {Top, Grid!Node(s)})
           bottom == Only(s[1] = Rows - 1, {Bottom, Grid!Node(s)})
<1>2. Spanned(Dot, Grid!WithTop(site_uf, s), Piped(grid) \cup top)
      BY SpannedTop
<1>3. Spanned(Dot, Grid!WithBottom(Grid!WithTop(site_uf, s), s), Piped(grid) \cup top \cup bottom)
      BY <1>2, SpannedBottom
<1>4. Spanned(Dot, site_uf', Piped(grid) \cup top \cup bottom \cup new)
  <2> DEFINE u == Grid!WithBottom(Grid!WithTop(site_uf, s), s)
             E == Piped(grid) \cup top \cup bottom
  <2>1. Spanned(Dot, u, E)
        BY <1>3
  <2> HIDE DEF u, E
  <2>2. Spanned(Dot, Grid!WithNeighbours(u, s), E \cup new)
        BY <2>1, SpannedNears
  <2> QED BY <1>1, <2>2 DEF u, E
<1>5. Spanned(Dot, Grid!WithTop(backwashUf, s), Drained(grid) \cup top)
      BY SpannedTop
<1>6. Spanned(Dot, backwashUf', Drained(grid) \cup top \cup new)
  <2> DEFINE u == Grid!WithTop(backwashUf, s)
             E == Drained(grid) \cup top
  <2>1. Spanned(Dot, u, E)
        BY <1>5
  <2> HIDE DEF u, E
  <2>2. Spanned(Dot, Grid!WithNeighbours(u, s), E \cup new)
        BY <2>1, SpannedNears
  <2> QED BY <1>1, <2>2 DEF u, E
<1>7. /\ Across(grid \cup {s}) = Across(grid) \cup new
      /\ To(Top, Row(grid \cup {s}, 0)) = To(Top, Row(grid, 0)) \cup top
      /\ To(Bottom, Row(grid \cup {s}, Rows - 1)) = To(Bottom, Row(grid, Rows - 1)) \cup bottom
  <2>1. Across(grid \cup {s}) = Across(grid) \cup new
        BY AcrossMore, Zenon
  <2>2. \A v \in Dot : \A i : To(v, Row(grid \cup {s}, i))
                              = To(v, Row(grid, i)) \cup Only(s[1] = i, {v, Grid!Node(s)})
        BY ToMore, Zenon
  <2> QED BY <2>1, <2>2, EndsIn, Zenon
<1> HIDE DEF new, top, bottom
<1>8. Piped(grid') = Piped(grid) \cup top \cup bottom \cup new
  <2>1. Piped(grid') = (Across(grid) \cup new) \cup (To(Top, Row(grid, 0)) \cup top)
                          \cup (To(Bottom, Row(grid, Rows - 1)) \cup bottom)
        BY <1>1, <1>7 DEF Piped, Drained
  <2> QED BY <2>1, Zenon DEF Piped, Drained
<1>9. Drained(grid') = Drained(grid) \cup top \cup new
  <2>1. Drained(grid') = (Across(grid) \cup new) \cup (To(Top, Row(grid, 0)) \cup top)
        BY <1>1, <1>7 DEF Drained
  <2> QED BY <2>1, Zenon DEF Drained
<1> QED BY <1>1, <1>4, <1>6, <1>8, <1>9

-----------------------------------------------------------------------------
(* How far the water comes.                                                *)

Wetter(W) == W \cup {s \in grid : \E t \in W : Grid!Adjacent(s, t)}

Flow(f, m) == f = [k \in 0 .. m |-> IF k = 0 THEN Row(grid, 0) ELSE Wetter(f[k - 1])]

LEMMA FlowIs ==
    ASSUME NEW f, NEW m \in Nat
    PROVE  Flow(f, m) <=> /\ f = [k \in 0 .. m |-> f[k]]
                          /\ f[0] = Row(grid, 0)
                          /\ \A k \in 1 .. m : f[k] = Wetter(f[k - 1])
<1>1. ASSUME Flow(f, m)
      PROVE  /\ f = [k \in 0 .. m |-> f[k]]
             /\ f[0] = Row(grid, 0)
             /\ \A k \in 1 .. m : f[k] = Wetter(f[k - 1])
      BY <1>1 DEF Flow
<1>2. ASSUME f = [k \in 0 .. m |-> f[k]], f[0] = Row(grid, 0),
             \A k \in 1 .. m : f[k] = Wetter(f[k - 1])
      PROVE  Flow(f, m)
  <2>1. \A k \in 0 .. m : f[k] = IF k = 0 THEN Row(grid, 0) ELSE Wetter(f[k - 1])
    <3> TAKE k \in 0 .. m
    <3>1. k # 0 => k \in 1 .. m
          OBVIOUS
    <3>2. k = 0 => f[k] = Row(grid, 0)
          BY <1>2
    <3>3. k # 0 => f[k] = Wetter(f[k - 1])
          BY <1>2, <3>1
    <3> QED BY <3>2, <3>3
  <2> QED BY <1>2, <2>1 DEF Flow
<1> QED BY <1>1, <1>2

LEMMA FlowExists == ASSUME NEW m \in Nat PROVE \E f : Flow(f, m)
<1> DEFINE bad == {k \in Nat : ~ \E f : Flow(f, k)}
<1>1. SUFFICES ASSUME bad # {} PROVE FALSE
      OBVIOUS
<1>2. PICK k \in bad : \A i \in bad : k <= i
  <2>1. bad \in SUBSET Nat
        OBVIOUS
  <2> QED BY <1>1, <2>1, Least
<1>3. k # 0
  <2> DEFINE f == [i \in 0 .. 0 |-> Row(grid, 0)]
  <2>1. f = [i \in 0 .. 0 |-> f[i]] /\ f[0] = Row(grid, 0) /\ \A i \in 1 .. 0 : f[i] = Wetter(f[i - 1])
        OBVIOUS
  <2> HIDE DEF f
  <2>2. Flow(f, 0)
        BY <2>1, FlowIs
  <2> QED BY <2>2
<1>4. k - 1 \in Nat /\ k \in Nat /\ k - 1 \notin bad
      BY <1>2, <1>3
<1>5. PICK g : Flow(g, k - 1)
      BY <1>4
<1>6. /\ g = [i \in 0 .. k - 1 |-> g[i]] /\ g[0] = Row(grid, 0)
      /\ \A i \in 1 .. k - 1 : g[i] = Wetter(g[i - 1])
      BY <1>4, <1>5, FlowIs
<1> DEFINE f == [i \in 0 .. k |-> IF i = k THEN Wetter(g[k - 1]) ELSE g[i]]
<1>7. f = [i \in 0 .. k |-> f[i]] /\ f[0] = Row(grid, 0)
      BY <1>3, <1>4, <1>6
<1>8. ASSUME NEW i \in 1 .. k PROVE f[i] = Wetter(f[i - 1])
  <2>1. i - 1 \in 0 .. k /\ i - 1 # k /\ i \in 0 .. k /\ (i # k => i \in 1 .. k - 1)
        BY <1>4
  <2>2. f[i - 1] = g[i - 1]
        BY <2>1
  <2>3. f[i] = IF i = k THEN Wetter(g[k - 1]) ELSE g[i]
        BY <2>1
  <2> HIDE DEF f
  <2> QED BY <1>6, <2>1, <2>2, <2>3
<1> HIDE DEF f
<1>9. Flow(f, k)
      BY <1>4, <1>7, <1>8, FlowIs
<1> QED BY <1>2, <1>9

\* What Wet is: the least set of open sites that holds the open sites of the top row and
\* the open neighbours of its own.
LEMMA WetIs ==
    ASSUME grid \in SUBSET Grid!Site
    PROVE  /\ Grid!Wet \in SUBSET grid
           /\ Row(grid, 0) \subseteq Grid!Wet
           /\ Wetter(Grid!Wet) = Grid!Wet
           /\ \A Y : Row(grid, 0) \subseteq Y /\ Wetter(Y) \subseteq Y => Grid!Wet \subseteq Y
<1> DEFINE m == Rows * Rows
           f == CHOOSE f : Flow(f, m)
<1>1. m \in Nat
      BY GridNumbers
<1>2. Flow(f, m)
      BY <1>1, FlowExists
<1>3. Grid!Wet = f[m]
      BY DEF Grid!Wet, Flow, Row, Wetter
<1> HIDE DEF f
<1>4. /\ f = [k \in 0 .. m |-> f[k]] /\ f[0] = Row(grid, 0)
      /\ \A k \in 1 .. m : f[k] = Wetter(f[k - 1])
      BY <1>1, <1>2, FlowIs
<1> HIDE DEF m
<1>5. ASSUME NEW Y, Row(grid, 0) \subseteq Y, Wetter(Y) \subseteq Y PROVE f[m] \subseteq Y
  <2> DEFINE bad == {k \in 0 .. m : ~ (f[k] \subseteq Y)}
  <2>1. SUFFICES ASSUME bad # {} PROVE FALSE
        BY <1>1
  <2>2. PICK k \in bad : \A i \in bad : k <= i
    <3>1. bad \in SUBSET Nat
          OBVIOUS
    <3> QED BY <2>1, <3>1, Least
  <2>3. k # 0
        BY <1>4, <1>5
  <2>4. k \in 1 .. m /\ k - 1 \in 0 .. m /\ k - 1 \notin bad
        BY <1>1, <2>2, <2>3
  <2>5. f[k - 1] \subseteq Y /\ f[k] = Wetter(f[k - 1])
        BY <1>4, <2>4
  <2>6. f[k] \subseteq Y
        BY <1>5, <2>5 DEF Wetter
  <2> QED BY <2>2, <2>6
<1>6. ASSUME NEW k \in 0 .. m PROVE Row(grid, 0) \subseteq f[k] /\ f[k] \in SUBSET grid
  <2> DEFINE bad == {i \in 0 .. m : ~ (Row(grid, 0) \subseteq f[i] /\ f[i] \in SUBSET grid)}
  <2>1. SUFFICES ASSUME bad # {} PROVE FALSE
        BY <1>1
  <2>2. PICK i \in bad : \A h \in bad : i <= h
    <3>1. bad \in SUBSET Nat
          OBVIOUS
    <3> QED BY <2>1, <3>1, Least
  <2>3. i # 0
        BY <1>4 DEF Row
  <2>4. i \in 1 .. m /\ i - 1 \in 0 .. m /\ i - 1 \notin bad
        BY <1>1, <2>2, <2>3
  <2>5. Row(grid, 0) \subseteq f[i - 1] /\ f[i - 1] \in SUBSET grid /\ f[i] = Wetter(f[i - 1])
        BY <1>4, <2>4
  <2>6. Row(grid, 0) \subseteq f[i] /\ f[i] \in SUBSET grid
        BY <2>5 DEF Wetter
  <2> QED BY <2>2, <2>6
<1>7. \A T \in SUBSET Grid!Site : /\ IsFiniteSet(T) /\ Cardinality(T) \in Nat
                                  /\ Cardinality(T) = m => T = Grid!Site
  <2> TAKE T \in SUBSET Grid!Site
  <2>1. IsFiniteSet(Grid!Site) /\ Cardinality(Grid!Site) = m
        BY GridNumbers DEF m
  <2> QED BY <2>1, FS_Subset, FS_CardinalityType
<1>8. ASSUME NEW k \in 0 .. m PROVE Wetter(f[k]) = f[k] \/ Cardinality(f[k]) >= k
  <2> DEFINE bad == {i \in 0 .. m : ~ (Wetter(f[i]) = f[i] \/ Cardinality(f[i]) >= i)}
  <2>1. SUFFICES ASSUME bad # {} PROVE FALSE
        BY <1>1
  <2>2. PICK i \in bad : \A h \in bad : i <= h
    <3>1. bad \in SUBSET Nat
          OBVIOUS
    <3> QED BY <2>1, <3>1, Least
  <2>3. \A h \in 0 .. m : f[h] \in SUBSET Grid!Site /\ Cardinality(f[h]) \in Nat /\ IsFiniteSet(f[h])
        BY <1>6, <1>7
  <2>4. i # 0
        BY <1>1, <2>2, <2>3
  <2>5. i \in 1 .. m /\ i - 1 \in 0 .. m /\ i - 1 \notin bad
        BY <1>1, <2>2, <2>4
  <2>6. f[i] = Wetter(f[i - 1])
        BY <1>4, <2>5
  <2>7. CASE Wetter(f[i - 1]) = f[i - 1]
        BY <2>2, <2>6, <2>7
  <2>8. CASE Wetter(f[i - 1]) # f[i - 1]
    <3>1. Cardinality(f[i - 1]) >= i - 1
          BY <2>5, <2>8
    <3>2. f[i - 1] \in SUBSET f[i] /\ f[i - 1] # f[i]
          BY <2>6, <2>8 DEF Wetter
    <3>3. Cardinality(f[i - 1]) <= Cardinality(f[i]) /\ Cardinality(f[i]) # Cardinality(f[i - 1])
          BY <2>3, <2>5, <3>2, FS_Subset
    <3>4. Cardinality(f[i]) \in Nat /\ Cardinality(f[i - 1]) \in Nat /\ i \in Nat
          BY <2>3, <2>5
    <3>5. Cardinality(f[i]) >= i
          BY <3>1, <3>3, <3>4
    <3> QED BY <2>2, <3>5
  <2> QED BY <2>7, <2>8
<1>9. Wetter(f[m]) = f[m]
  <2>1. m \in 0 .. m /\ f[m] \in SUBSET Grid!Site
        BY <1>1, <1>6
  <2>2. CASE Cardinality(f[m]) >= m
    <3>1. Cardinality(f[m]) <= m
          BY <2>1, GridNumbers, FS_Subset DEF m
    <3>2. f[m] = Grid!Site
          BY <1>1, <1>7, <2>1, <2>2, <3>1
    <3> QED BY <3>2 DEF Wetter
  <2> QED BY <1>8, <2>1, <2>2
<1>10. m \in 0 .. m
      BY <1>1
<1> QED BY <1>3, <1>5, <1>6, <1>9, <1>10

-----------------------------------------------------------------------------
(* What the union-finds of a grid tell.                                    *)


\* One map r answers SameRoot.
Reads(u, r) == \A p, q \in Dot : Grid!SameRoot(u, p, q) <=> r[p] = r[q]

LEMMA SpannedReads ==
    ASSUME NEW u, NEW E, Spanned(Dot, u, E)
    PROVE  E \in SUBSET SUBSET Dot /\ \E r \in [Dot -> Dot] : Spans(Dot, r, E) /\ Reads(u, r)
<1>1. PICK r : Tree(Dot, u, r) /\ Spans(Dot, r, E)
      BY DEF Spanned
<1>2. PICK d : Forest(Dot, u.id, d, r)
      BY <1>1 DEF Tree
<1>3. \A p \in Dot : Grid!Root(u, p) = r[p]
      BY <1>2, RootIs, GridSame
<1>4. Reads(u, r)
      BY <1>3 DEF Reads, Grid!SameRoot
<1>5. r \in [Dot -> Dot] /\ E \in SUBSET SUBSET Dot
      BY <1>1 DEF Tree, Spanned
<1> QED BY <1>1, <1>4, <1>5

\* More edges part nothing.
LEMMA SpannedGrows ==
    ASSUME NEW u, NEW v, NEW E, NEW F, Spanned(Dot, u, E), Spanned(Dot, v, F), E \subseteq F,
           NEW p \in Dot, NEW q \in Dot, Grid!SameRoot(u, p, q)
    PROVE  Grid!SameRoot(v, p, q)
<1>1. PICK r \in [Dot -> Dot] : Spans(Dot, r, E) /\ Reads(u, r)
      BY SpannedReads
<1>2. PICK r2 \in [Dot -> Dot] : Spans(Dot, r2, F) /\ Reads(v, r2)
      BY SpannedReads
<1> DEFINE X == {x \in Dot : r2[x] = r2[p]}
<1>3. E \in SUBSET SUBSET Dot
      BY SpannedReads
<1>4. Closed(X, E)
  <2> SUFFICES ASSUME NEW e \in E, NEW x \in e, NEW y \in e PROVE x \in X <=> y \in X
      BY DEF Closed
  <2>1. r2[x] = r2[y] /\ x \in Dot /\ y \in Dot
        BY <1>2, <1>3 DEF Spans
  <2> QED BY <2>1
<1>5. r[p] = r[q] /\ X \in SUBSET Dot /\ p \in X
      BY <1>1 DEF Reads
<1>6. q \in X
      BY <1>1, <1>4, <1>5 DEF Spans
<1> QED BY <1>2, <1>6 DEF Reads

\* The nodes of the water and of the top.
Soaked == {Top} \cup {Grid!Node(s) : s \in Grid!Wet}

LEMMA SoakedIs ==
    ASSUME grid \in SUBSET Grid!Site
    PROVE  /\ Soaked \in SUBSET Dot /\ Top \in Soaked /\ Bottom \notin Soaked
           /\ \A s \in Grid!Site : Grid!Node(s) \in Soaked <=> s \in Grid!Wet
           /\ Closed(Soaked, Drained(grid))
<1>1. Grid!Wet \in SUBSET grid /\ Row(grid, 0) \subseteq Grid!Wet /\ Wetter(Grid!Wet) = Grid!Wet
      BY WetIs
<1>2. \A s \in Grid!Wet : s \in Grid!Site /\ Grid!Node(s) \in Dot /\ Grid!Node(s) # Bottom
      BY <1>1, NodeIn
<1>3. Soaked \in SUBSET Dot /\ Top \in Soaked /\ Bottom \notin Soaked
      BY <1>2, EndsIn DEF Soaked
<1>4. ASSUME NEW s \in Grid!Site PROVE Grid!Node(s) \in Soaked <=> s \in Grid!Wet
  <2>1. Grid!Node(s) # Top
        BY NodeIn
  <2>2. \A t \in Grid!Wet : Grid!Node(s) = Grid!Node(t) => s = t
        BY <1>2, OneNode
  <2> QED BY <2>1, <2>2 DEF Soaked
<1>5. ASSUME NEW s \in grid, NEW t \in grid, Grid!Adjacent(s, t), s \in Grid!Wet PROVE t \in Grid!Wet
  <2>1. Grid!Adjacent(t, s)
        BY <1>5, Neighbourly
  <2> QED BY <1>1, <1>5, <2>1 DEF Wetter
<1>6. ASSUME NEW e \in Drained(grid) PROVE \A x, y \in e : x \in Soaked <=> y \in Soaked
  <2>1. CASE e \in Across(grid)
    <3>1. PICK s \in grid, t \in grid : Grid!Adjacent(s, t) /\ e = {Grid!Node(s), Grid!Node(t)}
          BY <2>1 DEF Across
    <3>2. Grid!Adjacent(t, s)
          BY <3>1, Neighbourly
    <3>3. s \in Grid!Wet <=> t \in Grid!Wet
          BY <1>5, <3>1, <3>2
    <3>4. Grid!Node(s) \in Soaked <=> Grid!Node(t) \in Soaked
          BY <1>4, <3>3
    <3> QED BY <3>1, <3>4
  <2>2. CASE e \in To(Top, Row(grid, 0))
    <3>1. PICK s \in Row(grid, 0) : e = {Top, Grid!Node(s)}
          BY <2>2 DEF To
    <3>2. s \in Grid!Wet /\ s \in Grid!Site
          BY <1>1, <3>1 DEF Row
    <3>3. Grid!Node(s) \in Soaked /\ Top \in Soaked
          BY <1>3, <1>4, <3>2
    <3> QED BY <3>1, <3>3
  <2> QED BY <2>1, <2>2 DEF Drained
<1> QED BY <1>3, <1>4, <1>6 DEF Closed

\* Water joins its sites with the top in every map that spans these edges.
LEMMA WetJoins ==
    ASSUME grid \in SUBSET Grid!Site, NEW E, NEW r, Spans(Dot, r, E), Drained(grid) \subseteq E,
           NEW s \in Grid!Wet
    PROVE  r[Grid!Node(s)] = r[Top]
<1> DEFINE Y == {t \in grid : r[Grid!Node(t)] = r[Top]}
<1>1. \A e \in Drained(grid) : \A x, y \in e : r[x] = r[y]
      BY DEF Spans
<1>2. Row(grid, 0) \subseteq Y
  <2> SUFFICES ASSUME NEW t \in Row(grid, 0) PROVE r[Grid!Node(t)] = r[Top]
      BY DEF Row
  <2>1. Grid!Node(t) \in Dot
        BY NodeIn DEF Row
  <2>2. {Top, Grid!Node(t)} \in Drained(grid)
        BY <2>1, EndsIn DEF Drained, To
  <2> QED BY <1>1, <2>2
<1>3. Wetter(Y) \subseteq Y
  <2> SUFFICES ASSUME NEW t \in grid, NEW b \in Y, Grid!Adjacent(t, b) PROVE r[Grid!Node(t)] = r[Top]
      BY DEF Wetter
  <2>1. Grid!Node(t) \in Dot /\ Grid!Node(b) \in Dot
        BY NodeIn
  <2>2. {Grid!Node(t), Grid!Node(b)} \in Across(grid)
        BY <2>1 DEF Across
  <2> QED BY <1>1, <2>2 DEF Drained
<1>4. Grid!Wet \subseteq Y
      BY <1>2, <1>3, WetIs
<1> QED BY <1>4

LEMMA FullIsWet ==
    ASSUME grid \in SUBSET Grid!Site, Spanned(Dot, backwashUf, Drained(grid)), NEW s \in Grid!Site
    PROVE  Grid!isFull(s) <=> s \in Grid!Wet
<1>1. PICK r \in [Dot -> Dot] : Spans(Dot, r, Drained(grid)) /\ Reads(backwashUf, r)
      BY SpannedReads
<1>2. Grid!isFull(s) <=> s \in grid /\ r[Top] = r[Grid!Node(s)]
      BY <1>1, NodeIn, EndsIn DEF Grid!isFull, Reads, Top
<1>3. ASSUME s \in Grid!Wet PROVE s \in grid /\ r[Top] = r[Grid!Node(s)]
      BY <1>1, <1>3, WetJoins, WetIs
<1>4. ASSUME r[Top] = r[Grid!Node(s)] PROVE s \in Grid!Wet
  <2>1. /\ Soaked \in SUBSET Dot /\ Top \in Soaked /\ Closed(Soaked, Drained(grid))
        /\ Grid!Node(s) \in Soaked <=> s \in Grid!Wet
        BY SoakedIs
  <2>2. Grid!Node(s) \in Soaked
        BY <1>1, <1>4, <2>1, NodeIn, EndsIn DEF Spans
  <2> QED BY <2>1, <2>2
<1> QED BY <1>2, <1>3, <1>4

LEMMA PercolatesIs ==
    ASSUME grid \in SUBSET Grid!Site, Spanned(Dot, site_uf, Piped(grid))
    PROVE  Grid!percolates <=> \E s \in Grid!Wet : s[1] = Rows - 1
<1>1. PICK r \in [Dot -> Dot] : Spans(Dot, r, Piped(grid)) /\ Reads(site_uf, r)
      BY SpannedReads
<1>2. Grid!percolates <=> r[Top] = r[Bottom]
      BY <1>1, EndsIn DEF Grid!percolates, Reads, Top, Bottom
<1>3. ASSUME NEW s \in Grid!Wet, s[1] = Rows - 1 PROVE r[Top] = r[Bottom]
  <2>1. s \in Row(grid, Rows - 1) /\ Grid!Node(s) \in Dot
        BY <1>3, WetIs, NodeIn DEF Row
  <2>2. {Bottom, Grid!Node(s)} \in Piped(grid)
        BY <2>1, EndsIn DEF Piped, To
  <2>3. r[Bottom] = r[Grid!Node(s)]
        BY <1>1, <2>2 DEF Spans
  <2>4. r[Grid!Node(s)] = r[Top]
        BY <1>1, WetJoins DEF Piped
  <2> QED BY <2>3, <2>4
<1>4. ASSUME r[Top] = r[Bottom], \A s \in Grid!Wet : s[1] # Rows - 1 PROVE FALSE
  <2>1. /\ Soaked \in SUBSET Dot /\ Top \in Soaked /\ Bottom \notin Soaked
        /\ \A s \in Grid!Site : Grid!Node(s) \in Soaked <=> s \in Grid!Wet
        /\ Closed(Soaked, Drained(grid))
        BY SoakedIs
  <2>2. ASSUME NEW e \in To(Bottom, Row(grid, Rows - 1)) PROVE \A x, y \in e : x \in Soaked <=> y \in Soaked
    <3>1. PICK s \in Row(grid, Rows - 1) : e = {Bottom, Grid!Node(s)}
          BY DEF To
    <3>2. s \notin Grid!Wet /\ s \in Grid!Site
          BY <1>4, <3>1 DEF Row
    <3>3. Grid!Node(s) \notin Soaked
          BY <2>1, <3>2
    <3> QED BY <2>1, <3>1, <3>3
  <2>3. Closed(Soaked, Piped(grid))
        BY <2>1, <2>2 DEF Closed, Piped
  <2>4. Bottom \in Soaked
        BY <1>1, <1>4, <2>1, <2>3, EndsIn DEF Spans
  <2> QED BY <2>1, <2>4
<1> QED BY <1>2, <1>3, <1>4

\* A grid that is all open percolates, down its first column.
LEMMA OpenPercolates ==
    ASSUME grid = Grid!Site PROVE \E s \in Grid!Wet : s[1] = Rows - 1
<1>1. Grid!Wet \in SUBSET grid /\ Row(grid, 0) \subseteq Grid!Wet /\ Wetter(Grid!Wet) = Grid!Wet
      BY WetIs
<1>2. Rows \in Nat \ {0}
      BY GridNumbers
<1> DEFINE bad == {i \in 0 .. Rows - 1 : <<i, 0>> \notin Grid!Wet}
<1>3. bad = {}
  <2>1. SUFFICES ASSUME bad # {} PROVE FALSE
        OBVIOUS
  <2>2. PICK i \in bad : \A k \in bad : i <= k
    <3>1. bad \in SUBSET Nat
          BY <1>2
    <3> QED BY <2>1, <3>1, Least
  <2>3. <<i, 0>> \in grid
        BY <1>2, <2>2 DEF Grid!Site
  <2>4. i # 0
    <3>1. <<i, 0>>[1] = i
          OBVIOUS
    <3> QED BY <1>1, <2>2, <2>3, <3>1 DEF Row
  <2>5. PICK h \in 0 .. Rows - 1 : i = h + 1
    <3>1. i - 1 \in 0 .. Rows - 1 /\ i = (i - 1) + 1
          BY <1>2, <2>2, <2>4
    <3> QED BY <3>1
  <2>6. <<h, 0>> \in Grid!Wet
        BY <1>2, <2>2, <2>5
  <2>7. Grid!Adjacent(<<i, 0>>, <<h, 0>>)
    <3>1. i - h = 1
          BY <1>2, <2>5
    <3> QED BY <3>1 DEF Grid!Adjacent
  <2>8. <<i, 0>> \in Wetter(Grid!Wet)
        BY <2>3, <2>6, <2>7 DEF Wetter
  <2> QED BY <1>1, <2>2, <2>8
<1>4. <<Rows - 1, 0>> \in Grid!Wet
      BY <1>2, <1>3
<1>5. <<Rows - 1, 0>>[1] = Rows - 1
      OBVIOUS
<1> QED BY <1>4, <1>5

-----------------------------------------------------------------------------
(* The grid and a trial, step by step.                                     *)

LEMMA GridSameCount == \A S : Grid!Cardinality(S) = Cardinality(S)
BY DEF Grid!Cardinality, Cardinality

\* While the trial goes on, the open sites are those whose numbers the array has given.
GridInv ==
    /\ grid \in SUBSET Grid!Site
    /\ Spanned(Dot, site_uf, Piped(grid)) /\ Spanned(Dot, backwashUf, Drained(grid))
    /\ sites \in SUBSET (1 .. Rows * Rows) /\ stopped \in BOOLEAN
    /\ stopped <=> Grid!percolates
    /\ stopped => j \in 0 .. Rows * Rows - 1
    /\ ~stopped => /\ grid = {Grid!SiteOf(x) : x \in (1 .. Rows * Rows) \ sites}
                   /\ j = Cardinality(grid)

LEMMA NewIs ==
    ASSUME NEW m, NEW b, m - 1 = b
    PROVE  Grid!NewUF(m) = [id |-> [x \in 0 .. b |-> x], sz |-> [x \in 0 .. b |-> 1]]
BY DEF Grid!NewUF

LEMMA NewSpans == Spanned(Dot, Grid!NewUF(Rows * Rows + 2), {})
<1> DEFINE u == Grid!NewUF(Rows * Rows + 2)
           r == [x \in Dot |-> x]
           d == [x \in Dot |-> 0]
<1>1. Rows * Rows + 2 - 1 = Bottom
      BY GridNumbers
<1>2. PICK m \in Nat : m = Rows * Rows + 2 /\ m - 1 = Bottom
      BY <1>1, GridNumbers
<1>3. u = [id |-> r, sz |-> [x \in Dot |-> 1]]
  <2>1. Grid!NewUF(m) = [id |-> [x \in 0 .. Bottom |-> x], sz |-> [x \in 0 .. Bottom |-> 1]]
        BY <1>2, NewIs
  <2> QED BY <1>2, <2>1, Zenon DEF Dot
<1> HIDE DEF u
<1>4. u \in Recs(Dot) /\ u.id = r
      BY <1>3 DEF Recs
<1>5. Forest(Dot, r, d, r)
      BY DEF Forest, Ranked, Leads
<1>6. Tree(Dot, u, r)
  <2>1. r \in [Dot -> Dot]
        OBVIOUS
  <2> HIDE DEF r, d
  <2> QED BY <1>4, <1>5, <2>1 DEF Tree
<1>7. Spans(Dot, r, {})
      BY DEF Spans
<1> HIDE DEF r
<1> QED BY <1>6, <1>7 DEF Spanned, u

LEMMA NoEdges == Piped({}) = {} /\ Drained({}) = {}
BY DEF Piped, Drained, Across, To, Row

LEMMA GridStart == Grid!Init => GridInv
<1> SUFFICES ASSUME Grid!Init PROVE GridInv
    OBVIOUS
<1>1. /\ grid = {} /\ site_uf = Grid!NewUF(Rows * Rows + 2) /\ backwashUf = Grid!NewUF(Rows * Rows + 2)
      /\ sites = 1 .. Rows * Rows /\ j = 0 /\ stopped = FALSE
      BY DEF Grid!Init, Grid!rows
<1>2. Spanned(Dot, site_uf, Piped(grid)) /\ Spanned(Dot, backwashUf, Drained(grid))
      BY <1>1, NewSpans, NoEdges
<1>3. grid \in SUBSET Grid!Site
      BY <1>1
<1>4. Grid!Wet \in SUBSET grid
      BY <1>3, WetIs
<1>5. ~Grid!percolates
      BY <1>1, <1>2, <1>3, <1>4, PercolatesIs
<1>6. j = Cardinality(grid)
      BY <1>1, FS_EmptySet
<1>7. grid = {Grid!SiteOf(x) : x \in (1 .. Rows * Rows) \ sites}
      BY <1>1
<1> QED BY <1>1, <1>2, <1>3, <1>5, <1>6, <1>7 DEF GridInv

\* A grid that does not percolate has fewer open sites than sites.
LEMMA SomeAreShut ==
    ASSUME grid \in SUBSET Grid!Site, Spanned(Dot, site_uf, Piped(grid)), ~Grid!percolates
    PROVE  /\ grid # Grid!Site /\ IsFiniteSet(grid)
           /\ Cardinality(grid) \in 0 .. Rows * Rows - 1
<1>1. grid # Grid!Site
      BY OpenPercolates, PercolatesIs
<1>2. IsFiniteSet(grid) /\ Cardinality(grid) <= Rows * Rows /\ Cardinality(grid) # Rows * Rows
      BY <1>1, GridNumbers, FS_Subset
<1>3. Cardinality(grid) \in Nat /\ Rows * Rows \in Nat
      BY <1>2, GridNumbers, FS_CardinalityType
<1> QED BY <1>1, <1>2, <1>3

LEMMA Percolation2 == Grid!percolates' <=> Grid!SameRoot(site_uf', Top, Bottom)
BY DEF Grid!percolates, Top, Bottom, Grid!virtualNode1, Grid!virtualNode2, Grid!rows

LEMMA OpenKeeps ==
    ASSUME GridInv, NEW s \in Grid!Site, Grid!Open(s)
    PROVE  /\ grid' \in SUBSET Grid!Site /\ grid' = grid \cup {s}
           /\ Spanned(Dot, site_uf', Piped(grid')) /\ Spanned(Dot, backwashUf', Drained(grid'))
           /\ Grid!percolates => Grid!percolates'
<1>1. /\ grid' \in SUBSET Grid!Site /\ grid' = grid \cup {s}
      /\ Spanned(Dot, site_uf', Piped(grid')) /\ Spanned(Dot, backwashUf', Drained(grid'))
      BY OpenSpans DEF GridInv
<1>2. Piped(grid) \subseteq Piped(grid')
      BY <1>1 DEF Piped, Drained, Across, To, Row
<1>3. Spanned(Dot, site_uf, Piped(grid))
      BY DEF GridInv
<1>4. Grid!SameRoot(site_uf, Top, Bottom) => Grid!SameRoot(site_uf', Top, Bottom)
      BY <1>1, <1>2, <1>3, EndsIn, SpannedGrows
<1> QED BY <1>1, <1>4, Percolation2 DEF Grid!percolates, Top, Bottom

LEMMA RunKeeps == ASSUME GridInv, Grid!RunStep PROVE GridInv'
<1>1. PICK x \in sites : sites' = sites \ {x} /\ Grid!Open(Grid!SiteOf(x))
      BY DEF Grid!RunStep
<1>2. /\ ~stopped /\ stopped' = Grid!SameRoot(site_uf', Top, Bottom)
      /\ j' = IF stopped' THEN j ELSE j + 1
      BY DEF Grid!RunStep, Top, Bottom
<1>3. x \in 1 .. Rows * Rows /\ sites \in SUBSET (1 .. Rows * Rows)
      BY <1>1 DEF GridInv
<1> DEFINE s == Grid!SiteOf(x)
<1>4. s \in Grid!Site
      BY <1>3, SiteOfNumber
<1>5. /\ grid' \in SUBSET Grid!Site /\ grid' = grid \cup {s}
      /\ Spanned(Dot, site_uf', Piped(grid')) /\ Spanned(Dot, backwashUf', Drained(grid'))
      BY <1>1, <1>4, OpenKeeps
<1>6. /\ grid = {Grid!SiteOf(y) : y \in (1 .. Rows * Rows) \ sites}
      /\ j = Cardinality(grid)
      BY <1>2 DEF GridInv
<1>7. s \notin grid
  <2> SUFFICES ASSUME NEW y \in (1 .. Rows * Rows) \ sites, Grid!SiteOf(y) = s PROVE FALSE
      BY <1>6
  <2>1. y - 1 = x - 1
        BY <1>3, SiteOfNumber
  <2> QED BY <1>1, <1>3, <2>1, GridNumbers
<1>8. grid' = {Grid!SiteOf(y) : y \in (1 .. Rows * Rows) \ sites'}
      BY <1>1, <1>3, <1>5, <1>6
<1>9. stopped' <=> Grid!percolates'
      BY <1>2, Percolation2
<1>10. IsFiniteSet(grid) /\ Cardinality(grid') = Cardinality(grid) + 1
  <2>1. IsFiniteSet(grid)
        BY GridNumbers, FS_Subset DEF GridInv
  <2> QED BY <1>5, <1>7, <2>1, FS_AddElement
<1>11. (stopped' => j' \in 0 .. Rows * Rows - 1) /\ (~stopped' => j' = Cardinality(grid'))
  <2>1. j \in 0 .. Rows * Rows - 1
        BY <1>2, <1>6, SomeAreShut DEF GridInv
  <2> QED BY <1>2, <1>6, <1>10, <2>1
<1>12. stopped' \in BOOLEAN /\ sites' \in SUBSET (1 .. Rows * Rows)
      BY <1>1, <1>2, <1>3 DEF Grid!SameRoot
<1> QED BY <1>5, <1>8, <1>9, <1>11, <1>12 DEF GridInv

LEMMA GridStep == ASSUME GridInv, [Grid!Next]_(Grid!vars) PROVE GridInv'
<1>1. CASE Grid!RunStep
      BY <1>1, RunKeeps
<1>2. CASE Grid!OpenMore
  <2>1. PICK s \in Grid!Site \ grid : Grid!Open(s)
        BY <1>2 DEF Grid!OpenMore
  <2>2. stopped /\ UNCHANGED <<sites, j, stopped>>
        BY <1>2 DEF Grid!OpenMore
  <2>3. /\ grid' \in SUBSET Grid!Site
        /\ Spanned(Dot, site_uf', Piped(grid')) /\ Spanned(Dot, backwashUf', Drained(grid'))
        /\ Grid!percolates => Grid!percolates'
        BY <2>1, OpenKeeps
  <2>4. Grid!percolates'
        BY <2>2, <2>3 DEF GridInv
  <2> QED BY <2>2, <2>3, <2>4 DEF GridInv
<1>3. CASE UNCHANGED Grid!vars
  <2>1. /\ grid' = grid /\ site_uf' = site_uf /\ backwashUf' = backwashUf
        /\ UNCHANGED <<sites, j, stopped>>
        BY <1>3 DEF Grid!vars
  <2>2. Grid!percolates' <=> Grid!percolates
        BY <2>1, Percolation2 DEF Grid!percolates, Top, Bottom
  <2> QED BY <2>1, <2>2 DEF GridInv
<1> QED BY <1>1, <1>2, <1>3 DEF Grid!Next

LEMMA GridFlows == ASSUME GridInv PROVE Grid!FlowsAsConnected
<1>1. /\ grid \in SUBSET Grid!Site
      /\ Spanned(Dot, site_uf, Piped(grid)) /\ Spanned(Dot, backwashUf, Drained(grid))
      /\ sites \in SUBSET (1 .. Rows * Rows) /\ stopped \in BOOLEAN
      /\ stopped <=> Grid!percolates
      BY DEF GridInv
<1>7. j \in 0 .. Rows * Rows - 1
      BY <1>1, SomeAreShut DEF GridInv
<1>2. Grid!TypeOK
  <2>1. \A u, E : Spanned(Dot, u, E) => u.id \in [Dot -> Dot]
        BY DEF Spanned, Tree, Recs
  <2>2. Dot = 0 .. Grid!virtualNode2
        BY DEF Dot, Bottom
  <2>3. j \in 0 .. Rows * Rows
        BY <1>7, GridNumbers
  <2> QED BY <1>1, <2>1, <2>2, <2>3 DEF Grid!TypeOK
<1>3. \A s \in Grid!Site : Grid!isFull(s) <=> s \in Grid!Wet
      BY <1>1, FullIsWet
<1>4. Grid!percolates <=> \E s \in Grid!Wet : s[1] = Grid!rows - 1
      BY <1>1, PercolatesIs DEF Grid!rows
<1>5. j < Rows * Rows
      BY <1>7, GridNumbers
<1>6. ASSUME ~stopped PROVE j = Grid!Cardinality(grid) /\ sites # {}
  <2>1. j = Cardinality(grid)
        BY <1>6 DEF GridInv
  <2>2. grid # Grid!Site
        BY <1>1, <1>6, SomeAreShut
  <2>3. sites # {}
    <3> SUFFICES ASSUME sites = {} PROVE grid = Grid!Site
        BY <2>2
    <3>1. grid = {Grid!SiteOf(x) : x \in 1 .. Rows * Rows}
          BY <1>6 DEF GridInv
    <3> QED BY <3>1, EverySite, SiteOfNumber
  <2> QED BY <2>1, <2>3, GridSameCount
<1> QED BY <1>1, <1>2, <1>3, <1>4, <1>5, <1>6 DEF Grid!FlowsAsConnected

LEMMA GridOfEach ==
    /\ EachInit => Grid!Init
    /\ [EachNext]_all => [Grid!Next]_(Grid!vars)
BY DEF EachInit, EachNext, Step, all, sitesV, Grid!vars

\* In a grid of any size a site is full exactly if open sites lead to it from the top,
\* also after the grid percolates, the grid percolates exactly if they reach the bottom,
\* and a trial stops at the first site that makes it so, before its array ends.
THEOREM WaterFindsItsWay == EachSpec => []FlowsAsConnected
<1>1. EachInit => GridInv
      BY GridOfEach, GridStart
<1>2. GridInv /\ [EachNext]_all => GridInv'
      BY GridOfEach, GridStep
<1> QED BY <1>1, <1>2, GridFlows, PTL DEF EachSpec, FlowsAsConnected
=============================================================================
