---------------------------- MODULE MCStructures -----------------------------
(***************************************************************************)
(* Instances of the containers and of the types that own something, for    *)
(* TLC.  A behaviour is one of the structure that "which" names; the       *)
(* others rest in an initial state.                                        *)
(***************************************************************************)
EXTENDS HierarchicalMutex, SortedTimerLst, SmartPtr, TLC

\* Those of code_3_8.cpp, timer_list.h and smart_ptr.cpp are declared in their modules.
CONSTANTS SlotsOfWheel, SI, MaxTimeout,                     \* time_wheel.h
          Numbers,                                          \* UnionFind.java
          Rows,                                             \* Percolation.java
          Nodes, dummy_head, dummy_tail, Val, Garbage,           \* List.cc
          Num, MaxNums,                                     \* priority_queue.cpp
          Started, Raw, Joining, Scoped                     \* ch2

\* A wheel has slots and turns, and a grid has sites; addresses of nodes differ from
\* those of the dummy nodes and from nullptr; a variable that owns a thread has one type.
ASSUME StructuresAssumption ==
    /\ {MaxClock, MaxDelay, MaxTimeout} \subseteq Nat
    /\ {SlotsOfWheel, SI, Rows} \subseteq Nat \ {0} /\ Numbers \in Nat
    /\ IsFiniteSet(Nodes) /\ {dummy_head, dummy_tail, nullptr} \cap Nodes = {}
    /\ dummy_head # dummy_tail /\ nullptr \notin {dummy_head, dummy_tail}
    /\ Garbage \subseteq Int /\ Num \subseteq Int
    /\ None \notin Started \cup Raw \cup Joining \cup Scoped
    /\ Raw \cap Joining = {} /\ Raw \cap Scoped = {} /\ Joining \cap Scoped = {}

VARIABLES which,
          slots, cur_slot, rotation, time_slot, wait,
          array, delay, armed, ticking, started, clock,
          kind, uf, part,
          grid, site_uf, backwashUf, sites, j, stopped,
          val, node_next, node_prev, size, first_size, contents,
          heap1, heap2, nums,
          handles, owns, guarded, run, joined, detached, terminated

Wheel  == INSTANCE TimeWheel WITH N <- SlotsOfWheel
Heap   == INSTANCE TimeHeap WITH expire <- delay, now_time <- started, now <- clock
Union  == INSTANCE UnionFind WITH N <- Numbers
Grid   == INSTANCE Percolation WITH n <- Rows, uf <- site_uf
List   == INSTANCE LinkedList WITH Node <- Nodes, next <- node_next, prev <- node_prev
Median == INSTANCE MedianFinder
Owner  == INSTANCE ThreadOwnership WITH Thread <- Started, live <- handles

wheel  == <<slots, cur_slot, rotation, time_slot, wait>>
heap   == <<array, delay, armed, ticking, started, clock>>
union  == <<kind, uf, part>>
sitesV == <<grid, site_uf, backwashUf, sites, j, stopped>>
nodes  == <<val, node_next, node_prev, size, first_size, contents>>
median == <<heap1, heap2, nums>>
owner  == <<handles, owns, guarded, run, joined, detached, terminated>>

Structures == {"mutex", "timers", "wheel", "heap", "union", "grid", "list", "median", "smart", "owner"}

\* What the structures that rest look like.
Resting == /\ which = "mutex" \/ hierarchy_value = [m \in Mutex |-> ULONG_MAX]
           /\ which = "union" \/ kind = "QuickFind"
           /\ which = "list" \/ first_size = 0

EachInit ==
    /\ which \in Structures
    /\ MutexInit /\ Init /\ Wheel!Init /\ Heap!Init /\ Union!Init /\ Grid!Init /\ List!Init
    /\ Median!Init /\ PtrInit /\ Owner!Init
    /\ Resting

\* A step of the structure the behaviour is about.
Step(name, step) ==
    /\ which = name /\ step /\ UNCHANGED which
    /\ name # "mutex" => UNCHANGED mutexvars
    /\ name # "timers" => UNCHANGED vars
    /\ name # "wheel" => UNCHANGED wheel
    /\ name # "heap" => UNCHANGED heap
    /\ name # "union" => UNCHANGED union
    /\ name # "grid" => UNCHANGED sitesV
    /\ name # "list" => UNCHANGED nodes
    /\ name # "median" => UNCHANGED median
    /\ name # "smart" => UNCHANGED ptrvars
    /\ name # "owner" => UNCHANGED owner

EachNext ==
    \/ Step("mutex", MutexNext)
    \/ Step("timers", Next)
    \/ Step("wheel", Wheel!Next)
    \/ Step("heap", Heap!Next)
    \/ Step("union", Union!Next)
    \/ Step("grid", Grid!Next)
    \/ Step("list", List!Next)
    \/ Step("median", Median!Next)
    \/ Step("smart", PtrNext)
    \/ Step("owner", Owner!Next)

all == <<which, mutexvars, vars, wheel, heap, union, sitesV, nodes, median, ptrvars, owner>>

EachSpec == EachInit /\ [][EachNext]_all

\* The wheel: slot and rotation say when a timer is due, and it fires then.
WheelOnSchedule  == Wheel!OnSchedule
WheelFiresOnTime == Wheel!FiresOnTime

\* The heap keeps the promise of Timers although it deletes lazily.
HeapImplementsTimers == Heap!ImplementsTimers

\* UnionFind.java and Percolation.java.
ConnectedAsJoined == Union!ConnectedAsJoined
FlowsAsConnected  == Grid!FlowsAsConnected

\* List.cc and priority_queue.cpp.
ListKeeps     == List!KeepsContents
MedianAnswers == Median!AnswersMedian

\* The owners of threads of ch2.
OneOwnerEach == Owner!OneOwnerEach

\* Numbers for the median: of both signs, with odd and even sums.
SomeNumbers == {-4, -3, 1, 2}

TimerSymmetry == Permutations(Timer)
=============================================================================
