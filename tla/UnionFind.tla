------------------------------ MODULE UnionFind ------------------------------
(***************************************************************************)
(* The classes of algorithms4/1_union-find/UnionFind.java at work: any     *)
(* sequence of union and connected, of one of the four ("kind").           *)
(***************************************************************************)
EXTENDS WeightedQuickUnion, FiniteSets

CONSTANT N

VARIABLES
    kind, uf,
    part                    \* history: the sets of numbers that the unions have joined

vars == <<kind, uf, part>>

Number == 0 .. N - 1
Kinds  == {"QuickFind", "QuickUnion", "Weighted", "PathCompression"}

TypeOK ==
    /\ kind \in Kinds
    /\ uf.id \in [Number -> Number] /\ uf.sz \in [Number -> 1 .. N]
    /\ part \subseteq SUBSET Number

Init ==
    /\ kind \in Kinds /\ uf = NewUF(N)
    /\ part = {{i} : i \in Number}

-----------------------------------------------------------------------------
SetOf(p) == CHOOSE s \in part : p \in s

Joins(p, q) == part' = (part \ {SetOf(p), SetOf(q)}) \cup {SetOf(p) \cup SetOf(q)}

union(p, q) ==
    /\ uf' = CASE kind = "QuickFind"       -> QuickFindUnion(uf, p, q)
               [] kind = "QuickUnion"      -> QuickUnion(uf, p, q)
               [] kind = "Weighted"        -> WeightedUnion(uf, p, q)
               [] kind = "PathCompression" -> WeightedUnion(CompressBoth(uf, p, q), p, q)
    /\ Joins(p, q)
    /\ UNCHANGED kind

\* Only path compression changes anything when it is asked.
AskConnected(p, q) ==
    /\ kind = "PathCompression"
    /\ uf' = CompressBoth(uf, p, q)
    /\ UNCHANGED <<kind, part>>

connected(p, q) == IF kind = "QuickFind" THEN uf.id[p] = uf.id[q] ELSE SameRoot(uf, p, q)

-----------------------------------------------------------------------------
Next == \E p, q \in Number : union(p, q) \/ AskConnected(p, q)

Spec == Init /\ [][Next]_vars

-----------------------------------------------------------------------------
(* Properties.                                                             *)

Depth(p) ==
    LET depth[i \in Number] == IF uf.id[i] = i THEN 0 ELSE 1 + depth[uf.id[i]]
    IN  depth[p]

\* Two numbers are connected if and only if a chain of unions joins them,
\* whatever the order of the unions and however often paths were compressed
\* between them.  With weights no path is longer than the logarithm of its set,
\* and a root knows the size of its set.
ConnectedAsJoined ==
    /\ TypeOK
    /\ \A p, q \in Number : connected(p, q) <=> SetOf(p) = SetOf(q)
    /\ kind \in {"Weighted", "PathCompression"} => \A p \in Number :
          /\ 2 ^ Depth(p) <= Cardinality(SetOf(p))
          /\ uf.id[p] = p => uf.sz[p] = Cardinality(SetOf(p))
=============================================================================
