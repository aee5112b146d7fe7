-------------------------- MODULE WeightedQuickUnion -------------------------
(***************************************************************************)
(* algorithms4/1_union-find/UnionFind.java: the four ways to keep which of *)
(* the numbers 0 .. N - 1 are connected, as operators on uf, the arrays    *)
(* id and sz.  There is nothing here that changes state; see UnionFind and *)
(* Percolation, which uses the weighted form.                              *)
(***************************************************************************)
EXTENDS Integers

NewUF(N) == [id |-> [i \in 0 .. N - 1 |-> i], sz |-> [i \in 0 .. N - 1 |-> 1]]

\* The end of the chain of parents that starts at p.
Root(uf, p) ==
    LET root[i \in DOMAIN uf.id] == IF uf.id[i] = i THEN i ELSE root[uf.id[i]]
    IN  root[p]

SameRoot(uf, p, q) == Root(uf, p) = Root(uf, q)

QuickFindUnion(uf, p, q) ==
    [uf EXCEPT !.id = [i \in DOMAIN @ |-> IF @[i] = uf.id[p] THEN uf.id[q] ELSE @[i]]]

QuickUnion(uf, p, q) == [uf EXCEPT !.id[Root(uf, p)] = Root(uf, q)]

HeavierBelow(uf, p, q) == uf.sz[p] >= uf.sz[q]          \* mutation of the next one
\* Which root becomes the child of the other.
Lighter(uf, p, q) == uf.sz[p] < uf.sz[q]

Under(uf, child, parent) ==
    [uf EXCEPT !.id[child] = parent, !.sz[parent] = @ + uf.sz[child]]

WeightedUnion(uf, p, q) ==
    LET proot == Root(uf, p)
        qroot == Root(uf, q)
    IN  IF proot = qroot THEN uf
        ELSE IF Lighter(uf, proot, qroot) THEN Under(uf, proot, qroot)
        ELSE Under(uf, qroot, proot)

\* root with path compression: every second node of the path, from i on, comes to
\* point to its grandparent.
Compressed(uf, p) ==
    LET hop(i) == uf.id[uf.id[i]]
        visited[i \in DOMAIN uf.id] == IF uf.id[i] = i THEN {i} ELSE {i} \cup visited[hop(i)]
    IN  [uf EXCEPT !.id = [i \in DOMAIN @ |-> IF i \in visited[p] THEN hop(i) ELSE @[i]]]

CompressBoth(uf, p, q) == Compressed(Compressed(uf, p), q)
=============================================================================
