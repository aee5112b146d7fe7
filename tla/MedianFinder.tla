----------------------------- MODULE MedianFinder ----------------------------
(***************************************************************************)
(* cpp-living-code/sort/heap_sort/priority_queue.cpp: MedianFinder, which  *)
(* keeps the numbers it is given in two priority queues.  An entry is a    *)
(* number with the count of those before it, so that equal numbers remain  *)
(* two entries; a queue is a set of entries, and top is one with the least *)
(* (heap1) or the greatest (heap2) number.                                 *)
(***************************************************************************)
EXTENDS Integers, FiniteSets

CONSTANTS Num, MaxNums      \* numbers, and a bound on how many are added

VARIABLES
    heap1, heap2,           \* the larger half, the smaller half
    nums                    \* history: the entries added

vars == <<heap1, heap2, nums>>

Init == heap1 = {} /\ heap2 = {} /\ nums = {}

size(heap) == Cardinality(heap)
top1(heap) == CHOOSE e \in heap : \A f \in heap : e[1] <= f[1]
top2(heap) == CHOOSE e \in heap : \A f \in heap : e[1] >= f[1]

-----------------------------------------------------------------------------
PushAtOnce(e) == heap2' = heap2 \cup {e} /\ UNCHANGED heap1     \* mutation of the next one
\* Through the one heap into the other, so that its extreme element moves.
IntoSmaller(e) ==
    LET pushed == heap1 \cup {e} IN
    /\ heap1' = pushed \ {top1(pushed)}
    /\ heap2' = heap2 \cup {top1(pushed)}

IntoLarger(e) ==
    LET pushed == heap2 \cup {e} IN
    /\ heap2' = pushed \ {top2(pushed)}
    /\ heap1' = heap1 \cup {top2(pushed)}

addNum(num) ==
    LET e == <<num, Cardinality(nums)>> IN
    /\ size(heap1) + size(heap2) < MaxNums
    /\ IF size(heap1) # size(heap2) THEN IntoSmaller(e) ELSE IntoLarger(e)
    /\ nums' = nums \cup {e}

\* The division is one of integers, towards zero, although findMedian returns a
\* double; the sum is supposed to be one that an int holds.
Halved(x) == IF x >= 0 THEN x \div 2 ELSE -((-x) \div 2)

findMedian == IF size(heap1) = size(heap2) THEN Halved(top1(heap1)[1] + top2(heap2)[1])
              ELSE top1(heap1)[1]

-----------------------------------------------------------------------------
Next == \E num \in Num : addNum(num)

Spec == Init /\ [][Next]_vars

-----------------------------------------------------------------------------
(* Properties.                                                             *)

\* The number at place k when all that were added are put in ascending order.
InOrder(k) ==
    CHOOSE x \in Num : /\ Cardinality({e \in nums : e[1] < x}) < k
                       /\ k <= Cardinality({e \in nums : e[1] <= x})

\* In whatever order numbers come, the answer is the middle one of them, or lies in
\* the middle between the two in the middle: exactly there when their sum is even;
\* when it is odd the half that a double could show is lost, towards zero.
AnswersMedian ==
    LET k      == Cardinality(nums)
        sum    == InOrder((k + 1) \div 2) + InOrder(k \div 2 + 1)
        median == findMedian
    IN  k > 0 => \/ 2 * median = sum
                 \/ sum % 2 = 1 /\ 2 * median = IF sum > 0 THEN sum - 1 ELSE sum + 1
=============================================================================
