----------------------------- MODULE Percolation -----------------------------
(***************************************************************************)
(* algorithms4/1_union-find: Percolation.java, the grid of sites with its  *)
(* two union-finds, one of them without the bottom so that no water runs   *)
(* back up; and a trial of PercolationStats.java, which opens the sites in *)
(* a random order until the grid percolates.                               *)
(***************************************************************************)
EXTENDS WeightedQuickUnion, FiniteSets

CONSTANT n

VARIABLES
    grid,                   \* the open sites, rows and columns from 0
    uf, backwashUf,
    sites,                  \* numbers of sites that the shuffled array still holds
    j,                      \* of run: sites opened before this one; stopped by break
    stopped

vars == <<grid, uf, backwashUf, sites, j, stopped>>

rows == n
Site == (0 .. n - 1) \X (0 .. n - 1)
virtualNode1 == rows * rows
virtualNode2 == rows * rows + 1

TypeOK ==
    /\ grid \subseteq Site
    /\ uf.id \in [0 .. virtualNode2 -> 0 .. virtualNode2]
    /\ backwashUf.id \in [0 .. virtualNode2 -> 0 .. virtualNode2]
    /\ sites \subseteq 1 .. n * n /\ j \in 0 .. n * n /\ stopped \in BOOLEAN

Init ==
    /\ grid = {} /\ uf = NewUF(rows * rows + 2) /\ backwashUf = NewUF(rows * rows + 2)
    /\ sites = 1 .. n * n /\ j = 0 /\ stopped = FALSE

-----------------------------------------------------------------------------
Node(site) == site[1] * rows + site[2]

WithNeighbour(u, site, near) ==
    IF near \in grid THEN WeightedUnion(u, Node(site), Node(near)) ELSE u

\* The unions of Union(row, col): up, right, down, left.
WithNeighbours(u, site) ==
    LET up    == WithNeighbour(u, site, <<site[1] - 1, site[2]>>)
        right == WithNeighbour(up, site, <<site[1], site[2] + 1>>)
        down  == WithNeighbour(right, site, <<site[1] + 1, site[2]>>)
    IN  WithNeighbour(down, site, <<site[1], site[2] - 1>>)

WithTop(u, site) == IF site[1] = 0 THEN WeightedUnion(u, virtualNode1, Node(site)) ELSE u
WithBottom(u, site) ==
    IF site[1] = rows - 1 THEN WeightedUnion(u, virtualNode2, Node(site)) ELSE u

KeepsBottom(u, site) == WithBottom(u, site)             \* mutation of the next one
\* backwashUf does not record the bottom row.
LeavesBottomOut(u, site) == u

Open(site) ==
    /\ grid' = grid \cup {site}
    /\ uf' = WithNeighbours(WithBottom(WithTop(uf, site), site), site)
    /\ backwashUf' = WithNeighbours(LeavesBottomOut(WithTop(backwashUf, site), site), site)

isFull(site) == site \in grid /\ SameRoot(backwashUf, virtualNode1, Node(site))
percolates == SameRoot(uf, virtualNode1, virtualNode2)

-----------------------------------------------------------------------------
(* PercolationStats.java.                                                  *)

\* The row and the column of a number of the array; open takes one from each.
SiteOf(number) ==
    LET col == IF number % n = 0 THEN n ELSE number % n
        row == IF number % n = 0 THEN number \div n ELSE number \div n + 1
    IN  <<row - 1, col - 1>>

\* One round of the loop of run, on whichever number the shuffle put next.
RunStep ==
    /\ ~stopped /\ sites # {}
    /\ \E number \in sites :
          /\ sites' = sites \ {number}
          /\ Open(SiteOf(number))
    /\ stopped' = SameRoot(uf', virtualNode1, virtualNode2)
    /\ j' = IF stopped' THEN j ELSE j + 1

\* The client may go on opening sites.
OpenMore ==
    /\ stopped
    /\ \E site \in Site \ grid : Open(site)
    /\ UNCHANGED <<sites, j, stopped>>

Next == RunStep \/ OpenMore

Spec == Init /\ [][Next]_vars

-----------------------------------------------------------------------------
(* Properties.                                                             *)

Adjacent(s, t) == (s[1] = t[1] /\ s[2] - t[2] \in {-1, 1})
                    \/ (s[2] = t[2] /\ s[1] - t[1] \in {-1, 1})

\* The open sites that water from the top reaches.
Wet ==
    LET flow[k \in 0 .. n * n] ==
            IF k = 0 THEN {s \in grid : s[1] = 0}
            ELSE LET before == flow[k - 1]
                 IN  before \cup {s \in grid : \E t \in before : Adjacent(s, t)}
    IN  flow[n * n]

\* A site is full if and only if an open path leads to it from the top, also
\* after the grid percolates; the grid percolates if and only if such a path
\* reaches the bottom; and a trial stops at the first site that makes it so, and
\* always before the array ends, with a threshold of at most one.
FlowsAsConnected ==
    /\ TypeOK
    /\ LET wet == Wet IN
          /\ \A s \in Site : isFull(s) <=> s \in wet
          /\ percolates <=> \E s \in wet : s[1] = rows - 1
    /\ stopped <=> percolates
    /\ ~stopped => j = Cardinality(grid) /\ sites # {}
    /\ j < n * n
=============================================================================
