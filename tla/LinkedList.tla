------------------------------ MODULE LinkedList -----------------------------
(***************************************************************************)
(* cpp-living-code/list/List.cc: a doubly linked list between two dummy    *)
(* nodes.  A node is an address; size is read before anything is written   *)
(* to it, so it starts with any value.                                     *)
(***************************************************************************)
EXTENDS Integers, Sequences, FiniteSets, SequencesExt

CONSTANTS Node,             \* addresses of nodes
          dummy_head, dummy_tail, nullptr,
          Val,
          Garbage           \* what an uninitialised int may hold

VARIABLES
    val, next, prev,
    size, first_size,       \* the member, and what it happened to be at first
    contents                \* history: what has been pushed and not removed, in order

vars == <<val, next, prev, size, first_size, contents>>

Address == Node \cup {dummy_head, dummy_tail}

Init ==
    /\ val = [x \in Node |-> 0]
    /\ next = [x \in Address |-> IF x = dummy_head THEN dummy_tail ELSE nullptr]
    /\ prev = [x \in Address |-> IF x = dummy_tail THEN dummy_head ELSE nullptr]
    /\ size \in Garbage /\ first_size = size
    /\ contents = <<>>

\* A node is allocated while it is linked.
Free == {x \in Node : next[x] = nullptr}

-----------------------------------------------------------------------------
PrevLast(at, node) == [prev EXCEPT ![node] = at]        \* mutation of the next one
\* The links to the left, after node was put behind the node at.
PrevOf(at, node) == [prev EXCEPT ![node] = at, ![next[at]] = node]

insert(at, node) ==
    /\ prev' = PrevOf(at, node)
    /\ next' = [next EXCEPT ![node] = next[at], ![at] = node]
    /\ size' = size + 1

Push(at, v) ==
    \E node \in Free :
        /\ val' = [val EXCEPT ![node] = v]
        /\ insert(at, node)

pushFront(v) ==
    /\ Push(dummy_head, v) /\ contents' = <<v>> \o contents
    /\ UNCHANGED first_size

pushBack(v) ==
    /\ Push(prev[dummy_tail], v) /\ contents' = Append(contents, v)
    /\ UNCHANGED first_size

\* The nodes between two others, along one kind of link.
Walk(from, link, to) ==
    LET path[k \in 1 .. Cardinality(Address)] ==
            LET before == IF k = 1 THEN from ELSE path[k - 1]
            IN  IF before = to THEN to ELSE link[before]
        there == {k \in DOMAIN path : path[k] = to}
    IN  [k \in 1 .. Cardinality(DOMAIN path \ there) |-> path[k]]

\* The first node from the head on that holds the value.
findListNode(v) ==
    LET right == Walk(dummy_head, next, dummy_tail)
        found == {k \in 1 .. Len(right) : val[right[k]] = v}
    IN  IF found = {} THEN nullptr ELSE right[Min(found)]

\* removeListNode of what findListNode returned, if it returned a node.
FindAndRemove(v) ==
    LET node == findListNode(v) IN
    /\ node # nullptr
    /\ prev' = [prev EXCEPT ![next[node]] = prev[node], ![node] = nullptr]
    /\ next' = [next EXCEPT ![prev[node]] = next[node], ![node] = nullptr]
    /\ val' = [val EXCEPT ![node] = 0]
    /\ size' = size - 1
    /\ contents' = RemoveAt(contents, Min({k \in 1 .. Len(contents) : contents[k] = v}))
    /\ UNCHANGED first_size

-----------------------------------------------------------------------------
Next == \E v \in Val : pushFront(v) \/ pushBack(v) \/ FindAndRemove(v)

Spec == Init /\ [][Next]_vars

-----------------------------------------------------------------------------
(* Properties.                                                             *)

\* After any pushes and removals both directions of links hold the values that
\* are in the list, in their order; a value is found if and only if it is there;
\* and size has moved by the number of nodes.
KeepsContents ==
    LET right == Walk(dummy_head, next, dummy_tail) IN
    /\ [k \in 1 .. Len(right) |-> val[right[k]]] = contents
    /\ Walk(dummy_tail, prev, dummy_head) = Reverse(right)
    /\ \A v \in Val : (findListNode(v) # nullptr) <=> (v \in ToSet(contents))
    /\ size - first_size = Len(contents)
=============================================================================
