# notes_coding: models, model checks and proofs

The repository is a collection of programs written along the reading of several
books: network servers (`src/high-performance-server-programming-linux`, HP below,
and `src/TCP-IP-networking-programming`, TCP), threads
(`src/cpp-concurrency-in-action`, CC), data structures, smart pointers and patterns
(`src/cpp-living-code`, LC), two game synchronisation loops (`src/GameServer`), a
reactor and libevent examples (`src/libevent`) and union-find (`src/algorithms4`).
The programs do not call each other, apart from headers used by the program in the
same directory (the timer containers of HP/ch11) and programs of a book that were copied and
extended (the server of TCP chapter 11 is that of chapter 10 with one more process). So
the project is a set of modules per program, each with its own state, and modules compose
where programs share code.

1. [Inventory](#1-inventory)
2. [Modules](#2-modules-and-the-code-they-model)
3. [Runs, bounds, fairness](#3-runs)
4. [Proofs](#4-proofs)
5. [Findings](#5-findings)
6. [Limits](#6-what-is-only-checked-and-what-is-not-modelled)
7. [Plan](#7-plan)

## 1. Inventory

### Programs with state, concurrency or failures

**Multi-process chat room** (`HP/ch13/chatroom_server.cc`). The parent keeps a dense
table `g_users[0..g_user_count)`, a map `sub_process` from pid to index, the flags
`terminate` and `stop_server`; children keep the index they were forked with and
`stop_child`; everything is connected by one shared memory segment with a slot per
index, one socket pair per child (numbers of slots in both directions) and the signal
pipe. Operations: accept, fork, relay of a slot number, reaping on SIGCHLD, killing on
SIGTERM; in a child: receive into the slot, send another slot to its client, exit.
Hard: edge-triggered readiness, SIGCHLDs that coalesce, the swap-remove of the table
against indices others remember, slots without a lock, exits that race with the
shutdown, signals between a test and a blocking call. Correct if table and map stay
inverse and hold exactly the children not yet reaped, messages reach everybody but
their sender, every exit is reaped, nobody is left behind at the end, every child
writes a slot of its own, SIGTERM ends a child.

**Timer containers** (`HP/ch11/timer_list.h`, `time_wheel.h`, `time_heap.h`): a sorted
doubly linked list, a hash wheel with rotations, a `std::set` with lazy deletion. All
offer add, delete and tick, the list also adjust. Hard: the pointer surgery at the ends
of the list, the modular arithmetic of the wheel, deletions that a tick meets later,
time that moves while tick runs. Correct if no timer is lost, none fires early, and
those due fire in one tick, in order.

**Idle-connection server** (`HP/ch11/nonactive_connection.cc`): calls the list from its
event handlers and from the chain SIGALRM -> pipe -> flag -> tick -> `alarm`. Hard:
descriptors and timer addresses are reused, `users[fd].timer` dangles after a close,
data and the alarm arrive in the same round. Correct if connections and timers are one
to one, the chain never breaks, silent connections are closed and others are not.

**Reactor** (`libevent/Reactor.cpp`): a table of events with a callback each, the
interest list in the kernel, a sweep for idle entries. Hard: an entry is recycled while
a report for it may be pending, the table fills up, table and kernel can disagree,
SIGPIPE ends it for everybody.

**EPOLLONESHOT server** (`HP/ch09/epolloneshot.cc`): main starts a thread per report,
the thread reads until EAGAIN and re-arms. Hard: the argument is a variable of main's
loop; data that arrive between EAGAIN and re-arming.

**poll chat room** (`HP/ch09/chatroom_server.cc`): `users` indexed by descriptor,
swap-remove in `fds`, event masks that switch a socket between reading and writing, one
text handed on as a pointer into its sender's entry. Hard: the mask arithmetic
(`|= ~POLLIN`), the entry copied on a hang-up while others point to it, `write_buf` that
nothing initialises. Correct if every open socket has one place, no pointer is followed
that was never set, or set for an earlier owner of the descriptor, and nobody is sent its own
text.

**Other event loops**: `HP/ch09` epoll LT/ET, select, echo with TCP and UDP, non-blocking
connect; `HP/ch10` unified event source; TCP chapters 12, 17. Hard: an edge that is
consumed without draining the socket, a descriptor closed and taken again within a round, a
blocking write to a client that does not read, a write to a connection that was reset,
a signal between two rounds. Correct if what arrives is read and SIGTERM ends the loop.

**Process-per-client servers** (TCP chapters 10, 11): fork per client, SIGCHLD handler,
a saver process that reads a pipe; the clients have a process to write and one to read.
Hard: one `waitpid` per SIGCHLD, descriptors that stay open in another process, a pipe
nobody empties. Correct if every line comes back, whoever quits is let go, and what was
echoed is saved. **Half close** (TCP chapter 16): what `fclose` of one of two streams over
one socket does to the other.

**Threads** (CC ch2-4, LC/concurrency_related): hierarchical mutex, `std::lock` swaps,
call_once and double-checked initialisation, thread-safe stack, joining threads and the
parallel sum, producer and consumer with a condition variable, two threads that print in
turn. Hard: lock order, notification before waiting, check-then-act on the stack,
exceptions between lock and unlock, a flag read without the lock, a thread whose owner goes
out of scope, blocks that do not divide the sum evenly.

**Objects** (LC): `SmartPtr` (a reference count under copy, move, assignment,
self-assignment), `List`, `Singleton`, observers behind `weak_ptr`, the median of two
heaps. **Game loops** (`GameServer/Synchronization`): frames broadcast while an input
mutex is held, states broadcast on change. **Union-find and percolation**
(`algorithms4/1_union-find`): quick-find, weighted union, path compression, and
percolation on a grid.

### Programs without

Small socket, pipe, signal and out-of-band demos, the libevent examples (the library
holds all state), the shared memory demo, the design-pattern class hierarchies and the
introductory Java programs. `PROJECT.json` lists each with the reason it is left aside.

## 2. Modules and the code they model

| module | program | what it is |
|---|---|---|
| `ChatRoom` | HP/ch13/chatroom_server.cc | parent, children, kernel; 30 variables, one action per handler or handler step |
| `Membership` | the same | what the parent promises about its users |
| `ChatRoomProofs`, `ChatRoomDelivery` | | theorems about `ChatRoom`: tables and refinement; what the messages do |
| `Timers` | | what any container of timers promises |
| `SortedTimerLst` | HP/ch11/timer_list.h | the list pointer by pointer |
| `TimeWheel` | HP/ch11/time_wheel.h | slots, rotations, ticks |
| `TimeHeap` | HP/ch11/time_heap.h | ordered set, lazy deletion |
| `NonactiveConn`, `NonactiveConnProofs` | HP/ch11/nonactive_connection.cc | the server, composed with `SortedTimerLst`; theorems about the list and about the server |
| `Reactor` | libevent/Reactor.cpp | event table, callbacks, sweep |
| `EpollOneshot` | HP/ch09/epolloneshot.cc | main and its threads |
| `PollRoom` | HP/ch09/chatroom_server.cc, chatroom_client.cc | rounds over `fds`, masks, buffers |
| `EchoLoops` | HP/ch09/epoll.cc, echo_server.cc; TCP ch12, ch17 | eight event loops over one kind of socket |
| `UnifiedEvents` | HP/ch10/unified_event_source.cc | signals as bytes in a pipe |
| `ForkServer` | TCP/ch10 echo_mpserv.c, echo_mpclient.c | a process per client |
| `SavingServer` | TCP/ch11 | EXTENDS `ForkServer` with the process that saves |
| `HalfClose` | TCP/ch16 sep_serv.c, sep_serv2.c, sep_clnt.c | one descriptor or two under two streams |
| `HierarchicalMutex` | CC/ch3/code_3_8.cpp | threads and mutexes with levels |
| `LazyInit` | CC/ch3/code_3_11.cpp, code_3_12.cpp | four ways to make a resource once |
| `ThreadsafeStack` | CC/ch3/threadsafe_stack.cpp | a mutex in each method |
| `ThreadOwnership` | CC/ch2 code_2_2, code_2_5, joining_thread, scoped_thread | who joins which thread |
| `ParallelAccumulate` | CC/ch2/parallel_accumulate.cpp | blocks, threads, the sum |
| `DataQueue` | CC/ch4/condition_variable.cpp | producer, consumer, condition variable |
| `AlternatingOutput` | LC/concurrency_related/output_alternately.cpp | two threads in turn |
| `GameSync` | GameServer/Synchronization FrameSync.cpp, StateSync.cpp | inputs, frames, the end |
| `SmartPtr` | LC/SmartPtr/smart_ptr.cpp | a reference count |
| `LinkedList` | LC/list/List.cc | nodes between two dummies |
| `MedianFinder` | LC/sort/heap_sort/priority_queue.cpp | the median of two heaps |
| `WeightedQuickUnion` | algorithms4/1_union-find/UnionFind.java | the four union-finds as operators |
| `UnionFind`, `Percolation` | the same directory | the union-finds at work; the grid and a trial |
| `MCChatRoom`, `MCServers`, `MCStructures`, `MCThreads`, `MCPrograms` | | instances for TLC |
| `ServerProofs` | | theorems about the programs of `MCServers`: reactor, EPOLLONESHOT server, poll chat room |
| `StructureProofs` | | theorems about those of `MCStructures`: hierarchical mutex, wheel, heap, owners of threads, smart pointer, list, median |
| `UnionProofs` | | theorems about the union-finds and percolation |
| `ThreadProofs` | | theorems about the programs of `MCThreads`: what threads share |
| `ProcessProofs` | | theorems about the process-per-client servers of `MCPrograms` |

### Conventions

- A descriptor, pid or address is an element of a set; it is free again as soon as the
  code gives it up, so every reuse the kernel or the allocator may choose is explored.
  Where the code depends on `accept` returning the lowest descriptor (`PollRoom`,
  `EchoLoops`), descriptors are numbers.
- A socket is the number of pieces waiting in it and whether its end has come. A `recv`
  takes any non-empty part. What the pieces say is kept only where a property needs it
  (`ChatRoom`: who said it, and the last of its numbers; `PollRoom`: who said it).
- An edge-triggered descriptor enters `ready` when something arrives and leaves it when
  it is reported; `epoll_wait` returns what is ready and still has something to report.
  A level-triggered one is reported whenever it has.
- A signal is pending at most once. Delivering it is an action of its own, possible
  between any two steps of the process.
- An action is the code between two points where another actor can interfere: a system
  call whose result depends on others, a lock, or an access to shared memory. A handler
  with no such point inside is one action, as the loop over the users in `Relay`.
- Undefined behaviour is a choice over what the build can produce: an uninitialised `size`
  (`LinkedList`), the terminating 0 behind a full buffer (`Reactor`), an unlocked read that
  may see any value since the last one (`AlternatingOutput`). A call whose effect cannot be
  bounded, as using a freed count (`SmartPtr`), is not followed; the state before it is.
- History variables say so where they are declared.
- An operator marked "mutation" is a bug one could have made in the operator after it. No
  action uses it; it records what the properties are able to notice.

The MC modules put several programs in one state space: `which` names the one a behaviour
is about, the others stay as they began. `MCStructures` and `MCServers` EXTEND some of their
programs and INSTANCE the others. The modules with theorems EXTEND the MC modules, so a run
and a theorem speak of the same definitions: the run of given constants, the theorem of all.
Some of their properties are conjunctions of one property per program (`ThreadsShareRightly`,
`ThreadsEnd`, `ProcessesEchoWhole`, `ClientsLetGo`, `LoopsServe`); the parts are stated and commented
in the modules of the programs.

### ChatRoom

A client, the pid of its child and the pipe between child and parent are one element of
`Clients`. State of the parent: `g_users`, `g_user_count`, `sub_process`, `terminate`,
`stop_server`; `exited` once main has returned. `pready`, `pbatch`, `signals` are the
ready list, `events[]` and `signals[]`. The shared memory `shm` is a slot per index; `up`
and `down` are the two directions of a socket pair. A child's `cpc` says where it is:
`forked` (it still holds the parent's descriptors and handlers), `starting`, then
`loop`, `entering` (between the test of `stop_child` and `epoll_wait`), `waiting`,
`filling` (between `memset` and `recv`) and `zombie`.

| actions | code |
|---|---|
| `Connect`, `ClientSend`, `ClientLeave`, `Interrupt` | clients and operator |
| `EpollWait`, `Exit` | head and end of the loop in main |
| `TooManyUsers`, `ForkFails`, `Fork`, `AcceptFails` | the branch of listenfd |
| `ReadSignals`, `Reap`, `ReapDone`, `KillAll` | the branch of `sig_pipefd[0]`; `Reap` is one `waitpid` with the swap-remove |
| `Relay` | a number from a child, forwarded to the others |
| `sig_handler`, `DeliverTerm` | delivery of a signal to the parent, to a child |
| `CloseInherited`, `SetUp`, `GoOn`, `Block`, `Wake`, `ChildExit` | `run_child` around its loop |
| `ClearSlot`, `FillSlot` | `memset` and `recv`: two steps, since others read the slot between them |
| `SendToClient` | a number from the parent: send that slot |

`Membership` sees the table as a set: admit while there is room, die, forget, close with
at most one member alive. `ImplementsMembership` is the refinement.

### Timers, SortedTimerLst, TimeWheel, TimeHeap

`Timers` keeps a function from armed timers to the instant each is due; `Start` looks at
the clock, `Fire` takes the earliest of those due, `Finish` requires that none is left.
The list has `head`, `tail`, `prev`, `next`, `expire` and the local variables of the walk
and of tick, and one action per loop iteration, so that every intermediate shape of the
list is a state and the clock moves between iterations. Fields of a deleted timer keep
what was last written in them. The heap maps with the timers whose callback is set:
a deleted timer stays in the set but not in the abstract container, and popping it is a
stuttering step. The wheel is stated against a history variable `wait`, the ticks a timer
still has to see; `OnSchedule` ties it to slot and rotation. What a slot's linked list holds is a
set, since nothing depends on its order.

### NonactiveConn

EXTENDS `SortedTimerLst` and calls its functions in its handlers, so a handler that walks
the list is in progress (`running`) until the walk ends, and only then takes the next event.
The functions (`addTimer`, `adjustTimer`, `delTimer`, `tick`) do what the code does and do not ask
whether they were called rightly; the code does not either. How they may be called is said
separately, in `Call` of the list (`Postpone`, `Cancel`): one call at a time, a timer that exists, a later
expiry. That the handlers keep to it is a property (`UsesTheList`), not a guard.
`Accept` allocates any free address. `PeerGone` covers both ends of a receive that finds
the connection over; it leaves `users[fd].timer` as it is, as the code does. `alarmAt` is
the kernel's alarm; `pending`, `pipe`, `timeout` are the stations between it and the tick.

### Reactor and EpollOneshot

`Reactor`: a report carries `data.ptr`, which is the table entry (`slot`), not the
descriptor; `Dispatch` tests what the code tests. Time is an age per entry that saturates
at `IDLE`, so no bound on the clock is needed. `EpollOneshot`: `fds_for_new_worker` is one
variable since the block it lives in reuses its place on the stack; a thread reads it in
a step of its own (`ReadArg`). A connection whose thread was created with an argument
that main overwrote before it was read goes into the history variable `lost` (`StartWorker`);
`Attended` says of all others that somebody sees to them.

The other end of a socket is up, has ended (`fin`), has reset (`rst`), or has reset after its end
(`pipe`). A send then succeeds, fails with an error (`SendFails`), or raises SIGPIPE, which
nobody in `Reactor.cpp` handles: `SendKills` ends the process and with it every connection.
`HangsUpForAReason` says that nothing else makes the server hang up on somebody who did nothing.

### PollRoom

`fds` is the sequence of the descriptors in places 1 to `user_cnt`, so the swap-remove is
`Without`; `users` is two functions from descriptors, `buf` and `write_buf`, and a buffer
holds the client whose text it is. `write_buf[fd]` is the descriptor whose buffer it points
to. `new client_data[FD_LIMIT]` (line 67) initialises nothing, so both begin `Wild`, an
indeterminate value, and `accept` leaves in an entry what its former owner left there; what
`send` finds behind a wild pointer is anything or nothing. The history variable `told` has the
open sockets that were given a text `send` has not taken yet; `NoWildPointer` says that where
POLLOUT is asked for, the pointer of a socket outside `told` is NULL and that of one in `told`
leads to another place. As POLLOUT is never switched off again, it has to hold in every round. `Poll` fixes `revents` for a round, and the round goes from place to place with `i`;
connections, texts and hang-ups arrive in between. The masks are sets of bits, and `OrNot`
is what the expression `|= ~POLLIN` computes. `PollErr`, `PollHup`, `RecvFails`, `RecvEnd`, `RecvText`
and `Send` are the branches in the order of the code. `Connect`, `Splice`, `ReadMessage`
and `ClientEnds` are the client.

### EchoLoops and UnifiedEvents

`program` names the loop; each loop is the disjunction of the steps it is made of (`Wait`
with the descriptors that are edge-triggered, `Accept`, `ReadOnce`, or `StartReading` and
`Drain`), so the programs differ exactly as the files do. `echo_epollserv_edge_trigger2`
keeps reading a descriptor it has closed, since it lacks the `ReadClosed` of `epoll.cc` and
`echo_server.cc`. The echo is part of the step that reads. Four of the programs write to a blocking
socket (`Blocking`): there `writing` may name a connection the loop waits for, until its client
reads (`ClientReads`, which has no fairness) or the write fails. `peer` is as in `Reactor`: a reset is
told once, as an error of `read` or `write`, and then a write raises SIGPIPE (`killed`). `UnifiedEvents` has
the handler write a number to the pipe, and main read all of it.

### ForkServer, SavingServer, HalfClose

A line is one unit. In `ForkServer`, `holds` says which processes still hold a connection: the
client sees its end when the last of them lets it go. `SIGCHLD` sets a flag; one that
meets another is counted in `lost`. The comment on line 38 of `echo_mpserv.c` presents
the handler as the way to be rid of zombies; it waits for one child per signal, and
`ZombiesAccounted` states what that gives: there are as many zombies as signals under way
or lost. `SavingServer` extends this with the pipe to the saving process: `Read` of a line is
followed by `WriteToPipe`, which blocks when the pipe is full, and after ten reads the
saver leaves and nothing reads the pipe although its read end stays open everywhere.
`HalfClose` has one action per stdio call; with one descriptor `fclose(writefp)` also
takes the reading stream's.

### HierarchicalMutex

A mutex of `code_3_8.cpp` is the three members of the class; its const level is chosen in
`MutexInit`, so a run covers every assignment of levels. `lock` is split at
`internal_mutex.lock()` and `unlock` at `internal_mutex.unlock()`: between the two halves
another thread may fail, wait or succeed on the same mutex while
`previous_hierarchy_value` is read or written. The caller is any sequence of calls in
which a thread unlocks only what it holds, in any order it likes; a call that throws
changes nothing and is no step.

### The other programs with threads

- `DataQueue`: a thread that is woken goes back to taking the mutex and testing the
  predicate, which is what `wait` with a predicate does; a notification nobody waits for
  is gone, and a waiting thread may wake for no reason.
- `LazyInit`: `written` is what the new resource has put in memory, pointer and object in
  either order; `dcl` looks at the pointer without the lock. `MadeOnceUsedWhole` says for
  which of the four the resource is made once and never used half made, and that
  double-checked locking is the exception the book names. `X` may throw out of call_once,
  after which the next thread tries again.
- `ThreadsafeStack`: the two threads of `f`; `NothingLostOrDoubled` relates what was
  pushed, what is on the stack, what was popped and the exceptions.
- `ThreadOwnership`: any sequence of the calls the types allow, destructors included;
  `terminated` names the `std::thread` whose destructor or assignment found it joinable.
- `ParallelAccumulate`: the elements are 1 to `length`; what each block adds up is a step
  of its own thread; the last block is the caller's.
- `AlternatingOutput`: the loop conditions read `idx` outside the mutex.
- `GameSync`: a player's position is the sequence of its moves; the server's round is lock,
  apply or send, unlock, sleep.

### SmartPtr, LinkedList, MedianFinder

An object and its counter are made and deleted together, so one address stands for both.
`CountsOwners` is about programs that have not moved anything (`moved` is the history
variable); after a move the moved-from pointer still owns in its own view
(`SmartPtr_moved`). `LinkedList` starts with any `size` (the code reads it before writing
it) and `KeepsContents` compares both directions with the sequence of calls; `Walk` follows
one kind of link from one dummy node to the other. `MedianFinder` keeps two sets of entries, a
number with the count of those before it, so that equal numbers stay apart, and compares
with the number that has fewer than k smaller ones and at least k no greater (`InOrder`). `findMedian`
halves an `int` and returns a `double` (line 34): `AnswersMedian` compares twice the answer with the
true sum of the two in the middle, and says which half is lost when that sum is odd: towards zero.

### UnionFind and Percolation

The four union-finds are functions of a record of the two arrays; `UnionFind` applies them
in any order and compares with the partition the unions have made, and bounds the depth of
the weighted trees. `Percolation` opens sites in any order with both union-finds and
compares `isFull` and `percolates` with the water that flows from the top (`Wet`). The
class imported there from the book's library is taken to be the one of `UnionFind.java`.

## 3. Runs

Passing runs explore the whole state space under their bounds. Every property has a
mutation of the code (an operator next to the one it replaces, marked as one) under which
the same run finds the property violated.

| run | bounds | shows |
|---|---|---|
| `ChatRoom_room` | 3 symmetric clients, room for 2, 3 connections, 2 leave, 1 SIGTERM | `TypeOK`, `UserTable`, `OneOrphan`, `ImplementsMembership` |
| `ChatRoom_chat` | 2 clients with 2 messages each | `NoEcho`, `CaughtUp` |
| `ChatRoom_end` | 2 clients, 1 leaves, 1 SIGTERM | `ZombiesReaped`, `OrphansExit`, under fairness |
| `Servers_safe` | idle server: 2 descriptors, 2 timer addresses, clock up to 4; reactor: 3 descriptors, table of 2; one-shot server: 2 connections, 2 threads, 2 pieces; poll room: 3 clients, 2 descriptors, room for 2 | `OneTimerEach`, `AlarmNeverLost`, `NeverCutShort`, `UsesTheList` of the first; `TablesConsistent` and `HangsUpForAReason` of the reactor; `Attended` of the one-shot server; `NoWildPointer` of the last |
| `Structures_all` | 3 threads, 3 mutexes of levels 1 to 3 with ULONG_MAX 3; list, heap: 4 timers, clock up to 3, delays up to 2; wheel: 3 slots of 2, timeouts up to 13; 5 numbers; a grid of 3 by 3; 4 nodes; 6 numbers of both signs for the median; 3 pointers, 2 objects; 2 threads with 5 owners | `LevelsNested`, `NoCircularWait`, `Linked`, `ImplementsTimers`, `HeapImplementsTimers`, `WheelOnSchedule`, `WheelFiresOnTime`, `ConnectedAsJoined`, `FlowsAsConnected`, `ListKeeps`, `MedianAnswers`, `CountsOwners`, `OneOwnerEach` |
| `Programs_live` | queue: numbers 0 to 4; text of 9; stack: values 4 to 9, 5 tries (the code's own); sums of up to 7 elements in blocks of 2 on up to 4 processors; 3 threads for the lazy resource; 2 players, 3 inputs; 2 clients of 2 lines, pipe of 1, saver of 1 read; 2 descriptors for the loops; 3 numbers in the signal pipe; reactor: 2 descriptors; idle server: 1 descriptor, 2 timer addresses, clock up to 4 | `ThreadsShareRightly`, `ProcessesEchoWhole`; under fairness `ThreadsEnd`, `ClientsLetGo`, `LoopsServe`, `DataIsTaken` of the reactor, `SilentIsClosed` of the idle server |
| `ChatRoom_slots` | 3 clients, 1 leaves | `SlotsPrivate` is violated |
| `ChatRoom_kill` | 1 connection, 1 SIGTERM | `KilledChildExits` is violated |
| `Reactor_idle` | 2 descriptors, table of 2 | `IdleIsClosed` is violated |
| `Oneshot_once` | 2 connections, 2 threads | `OneThreadEach` is violated |
| `PollRoom_own` | 2 clients | `NeverOwnText` is violated |
| `SmartPtr_moved` | 3 pointers, 2 objects | `NeverDangling` is violated |

Why the bounds are enough to be interesting:

- `ChatRoom_room`: with room for two and three clients a connection is refused, a hole
  opens at either end of the table, is filled by the last entry or by itself, the next
  child takes an index while another still carries it, two exits share a SIGCHLD, and
  SIGTERM meets a fork of the same round. The messages are left out here
  (`MaxSend = 0`): they touch no table. `ChatRoom_chat` has them, and its two properties
  speak of the time before the first departure; afterwards slots are shared
  (`SlotsPrivate`) and neither property holds of the code.
- `Servers_safe`: two of each make reuse possible in the idle server, of a descriptor with
  another timer and of an address with another descriptor; `3 * TIMESLOT` and the clock
  leave room for an expiry and the alarm after it. Three descriptors against two entries
  fill the reactor's table. Two connections and two threads of the one-shot server let main
  overwrite an argument that was not read, two threads read the same one, and each close or arm
  the other's connection. In the poll room two descriptors and room for two give a swap of the last
  place and a descriptor that a third client takes over with what is left in its entry.
- `Structures_all`: four timers give a list with two inner nodes, so every insertion,
  removal and move happens at the head, in the middle and at the tail; delays of 0 to 2
  give ties and timers due at once. On the wheel timeouts go below one interval and beyond
  four turns. Three levels include equal ones and `ULONG_MAX` itself, which no thread may
  lock; three mutexes allow a release that is not the last lock, three threads a ring of
  three. Five numbers are the least with a tree of depth two beside another tree; a grid of
  three has a middle site and water that would come back up from the bottom row. Six
  numbers make each heap the larger one several times, with ties; even, odd, positive and
negative sums of the two in the middle.
- `Programs_live`: the producer gets several ahead and behind the consumer; up to seven
  elements give no block, one, several, and a last one that is longer; a pipe of one line and
  a saver that leaves after one read fill the pipe, as ten reads do in the code. Two clients
  are enough for one child to hold, or exit beside, the other's connection, and for two
  SIGCHLDs to meet. Two pieces per socket are enough to leave one unread after an edge. A clock of
4 with slots of 1 lets a connection of every age up to 1 see the alarm after its three slots.

Bounds in the guards: `MaxConnects`, `MaxLeaves`, `MaxTerms`, `MaxSend` and `MaxEchoes`
(how often a child that still has the parent's handler passes SIGTERM on) in `ChatRoom`,
`MaxClock` and `MaxDelay` in the list and heap, `MaxTimeout` in the wheel, `MaxInbox`
(`InboxOf1`, `LoopInbox`) in the servers, `MaxPipe` and `MaxBacklog` in `UnifiedEvents`,
`MaxLines` in `ForkServer`, `MaxInputs` in `GameSync`, `MaxNums` in `MedianFinder`,
`Thread` in `EpollOneshot`. Symmetry is used for the clients of `ChatRoom_room` and
`ChatRoom_chat`, and for timers and descriptors of the list, the heap and the idle server in the runs that
check no liveness.

Deadlock is checked in `Reactor_idle` and `Oneshot_once`, whose servers never stop. The
other runs hold a program that ends: the chat rooms and the idle-connection server return
from main or run out of clients, threads return, clocks and budgets end, a mutex of level
`ULONG_MAX` can never be locked. That nobody waits for ever where somebody should move is
what the liveness properties say (`ThreadsEnd`, `ClientsLetGo`, `LoopsServe`, and the
rest), and `NoCircularWait`.

Fairness. Weak fairness is assumed of each process and each thread: the kernel schedules
what can run. Of signal delivery: a pending signal is delivered to a running process. Of
the clock. Nothing is assumed of clients or of the operator, who may stop at any time,
but for the clients that are programs of the repository (`sep_clnt.c`, and the reading half of
`echo_mpclient.c`), which are processes like the others. No action has strong fairness: a mutex
need not be fair. What may therefore fail is named and excused:

- `ThreadsEnd`: a consumer that is woken for no reason infinitely often (`WokenForEver`),
  and a thread that waits for ever for a mutex that is set free again and again and taken by
  another one each time (`Starves` of `AlternatingOutput` and `GameSync`); a mutex that is never
  set free is not excused.
- `ClientsLetGo`: a child that is blocked writing to the pipe that its reader has left
  (`PipeStuck`).
- `LoopsServe`: a loop that reads one connection until it is empty, while its client sends
  for ever, or that goes on reading a descriptor it has closed (`Captured`); a write that waits for
  ever for a client that does not read (`Stalled`); the end of the process by SIGPIPE; the program
  `edge`, which reads once per edge and says in its comment that this is not enough; and
  the edge-triggered listening sockets, where one connection is accepted per event.
- `SilentIsClosed` promises nothing without an alarm: it says that a connection, silent for three
  slots when an alarm comes, is closed by the tick this leads to. That alarms go on coming is
  `AlarmNeverLost`; in a run they end with `MaxClock`, so the property asks for one within it.

## 4. Proofs

Every safety property that a passing run checks, invariant or action property, is also a theorem,
and so are the four refinements and uses of an abstract specification. All proofs are for
arbitrary constants, under assumptions that are named in the modules:

- `ChatRoomAssumption`: the room has a place, and the special names are distinct.
- `TimerAssumption`, `ServerAssumption`: the bounds are natural numbers, and three slots are
  within the longest delay.
- `HierarchyAssumption`: levels are at most `ULONG_MAX`.
- `StructuresAssumption`: a wheel has slots and an interval, a grid has rows; nodes are finitely
  many and differ from the dummy nodes and from `nullptr`; numbers and the garbage in an
  uninitialised member are integers; a variable that owns a thread has one type.
- `ServersAssumption`: the tables have an entry; the poll room's descriptors are above those of
  the standard streams and the listening socket; the special names (`None`, `Wild`) are none of the
  others. The number of connections and threads is not restricted.
- `ThreadsAssumption`, `ProgramsAssumption`: bounds are numbers, a block of the sum has an
  element, clients are finitely many.
- `CountIsOwners` says in the theorem what it needs: finitely many variables, and `nullptr`
  is no object.

`Clients`, `Fds`, `Timer`, `Object`, `Thread`, `Mutex`, `Worker`, `Client`, `Nodes` may be of any
size; so may slots, rows, elements, messages, values, inputs and pipes.

| theorem | of | argument |
|---|---|---|
| `TypeCorrect` | `TypeOK` of `ChatRoom` | in particular every index in a pipe or a child is that of a slot |
| `TableCorrect` | `UserTable` | inductive together with `TypeOK` and `BacklogIsFree` (a connection not yet accepted has no child); the swap-remove is the interesting step: the entry moved is a member, and its new index is the hole |
| `AtMostOneOrphan` | `OneOrphan` | from `LastRound`: `stop_server` is set when the table is empty, and the round in which that happens accepts at most one connection afterwards |
| `Refinement` | `ImplementsMembership` | step by step: `Reap` is `Forget`, `Fork` is `Admit`, `ChildExit` is `Die`, `Exit` is `Close`; capacity follows since the dense table has no duplicates (a cardinality argument) |
| `NobodyHearsItself`, `NobodyLeftBehind` | `NoEcho`, `CaughtUp` | see below (`Quiet`) |
| `ListLinked` | `Linked` | see below |
| `ListImplementsTimers` | `ImplementsTimers` of the list | `Expire` fires the head, which is the earliest because the list is sorted and complete |
| `HeapRefinesTimers` | `HeapImplementsTimers` | a deleted timer stays in the set and leaves the mapping; popping it stutters, and what is fired is the least of the set, so the least of those armed |
| `DueAsScheduled`, `FiredWhenDue` | `WheelOnSchedule`, `WheelFiresOnTime` | `OnSchedule` is inductive; the work is in what turning the wheel does to distances: `Away`, the ticks until a slot is current, is `(s - cur_slot) % N`, and one tick makes it one less or takes it from 0 to N - 1, which a rotation less makes up for |
| `ServerUsesTheList` | `UsesTheList` | the list's functions are called without a look at their preconditions; what makes the calls legal is `SInv` and `DInv`; see below |
| `ServerKeepsTimers` | `OneTimerEach` | with `Settled` (what the flags and the pending work of a round imply) inductive |
| `AlarmGoesOn` | `AlarmNeverLost` | the same invariant: each station between alarm and tick hands over to the next |
| `ServerNotEarly` | `NeverCutShort` | every timer is set to three slots after `heard` |
| `LevelsAreNested` | `LevelsNested` | inductive with `Calls` (what a thread inside a call knows of its mutex: the check still holds after the wait) |
| `NoDeadlock` | `NoCircularWait` | who waits for a waiting thread wants a higher mutex than that thread does; the levels wanted in a ring would have no smallest |
| `CountIsOwners` | `CountsOwners` | `Counted`, which also holds after moves: a count is never more than the owners, and equals them until something is moved |
| `OwnedByOne` | `OneOwnerEach` | `OwnerInv`: as long as nothing has called `std::terminate`, a thread that was started is owned by exactly one live variable, or joined after it returned, or detached; the moves and the swap keep this by an exchange of owners (`Moved`, `Swapped`), the destructors by joining first |
| `TablesAgree` | `TablesConsistent` | of the reactor; see below (`TableInv`) |
| `AlwaysAttended` | `Attended` | of the one-shot server, with any number of connections and threads; see below (`OneshotInv`) |
| `ReactorPatient` | `HangsUpForAReason` of `Reactor` | an entry's age is that of its connection (`idle = silent`), since taking an entry resets it; so what the sweep closes has been silent for IDLE; everybody goes only when the entry that is answered belongs to a connection reset after its end |
| `NeverWild` | `NoWildPointer` of `PollRoom` | `RoomInv`: `fds` has each open socket once, the loop's `i` is at most one beyond the last, and a socket that waits for POLLOUT has NULL in its pointer or, if it was told of a text and has not sent it, another descriptor; the swap-remove of a sequence without repetitions is the step that needs it all |
| `SharedRightly` | `ThreadsShareRightly` | `SharingInv`, one part for each of six programs; see below |
| `EchoedAndSaved` | `ProcessesEchoWhole` | `EchoInv`, `ForkInv`, `SavedInv`; see below |
| `ListKept` | `ListKeeps` | `ListInv`: some sequence of addresses goes from one dummy node to the other, both kinds of link follow it, and its nodes hold the contents; inserting and removing at a place give the next sequence |
| `MedianAnswered` | `MedianAnswers` | `MedianInv`: the entries are split in two halves, none in the smaller above one in the larger, of the same size or one more in the larger; so the tops are the two numbers in the middle, and the rest is about the half that the division loses |
| `JoinedIsConnected` | `ConnectedAsJoined` | `UnionInv`; see below |
| `WaterFindsItsWay` | `FlowsAsConnected` | `GridInv`; see below |

**The timer list.** `Linked` speaks of neighbours only: the two directions agree, ends are
ends, neighbours are sorted. That is not inductive, since it allows a cycle beside the chain,
from which neither completeness nor "the head is the earliest" follows. The strengthening
(`IInv` in `NonactiveConnProofs`) says that there is a numbering of the timers that grows
along `next`; existence of a numbering excludes cycles, gives the order of any two timers,
and is maintained by a new numbering per action, without induction over the list.

**The server that uses it.** `ServerUsesTheList` says `ServerSpec => Spec`. That a handler's call
is legal depends on the server's own state, and that state on the list, so the three invariants are
inductive only together (`ServerInvariant`): `IInv` of the list; `SInv`, which is `OneTimerEach`,
`AlarmNeverLost` and what else is settled between rounds; and `DInv`, which says that a
connection's timer is due three slots after it was last read, from which a new expiry is never
an earlier one. `ListLinked` and `ListImplementsTimers` then hold inside the server.

**Messages of the chat room.** `NoEcho` and `CaughtUp` are about the end of a chain (child,
slot, number in a pipe, parent, numbers in other pipes, other children). `Quiet` says, for as long
as nobody has left, what every station of it holds: indices are those children were forked
with and nobody shares one, a slot holds messages of its own child only, a number on its way to
a child is another child's, and whoever has not yet been sent what a slot holds has a number
on its way, or the parent has, or the writer is about to send one, or an edge of a descriptor
will still be reported. `QInv` is `NobodyLeft => Quiet`: a departure makes it vacuous, and the code
is not claimed to be right then.

**Tables of the servers.** `TableConsistent` of the reactor is not inductive: nothing in it
says that a descriptor is served by an entry or was turned away, but not both, that nothing is
reported between rounds, or how old an entry is. `TableInv` adds these. From it follow the two
facts all steps rest on: an entry in use is the only one of its descriptor (`OneEach`), and an
entry has at most one report waiting, which is the one it waits for (`Reported`). Then it is
enough to look at the two ways an entry changes, `CloseKeeps` and `SwitchKeeps`; every callback
is one of them. For the one-shot server `OneshotInv` follows a connection from one who is to see
to it to the next: the ready list while it is armed, the reports, the shared argument, a thread. Only
`StartWorker` can drop it on the way, by overwriting an argument that nobody has read, and that is when
it enters `lost`.

**Programs with threads.** `QueueInv`: what was processed and what is queued are the numbers
produced, in order, and a consumer that has fallen asleep still has a producer to notify it.
`OutputInv`: whose turn it is follows the parity of `idx`, and nobody has read an `idx` that
it has not had, so the stale value of the unlocked read can only keep a thread waiting.
`StackInv`: the values pushed so far lie on the stack in their order or have been popped, once.
`LazyInv`: who is past the call finds the resource whole, except by double-checked locking.
`GameInv`: of each player what has been applied and what waits is what came, in that order.
`ParallelInv`: every block is summed by a thread that is joined when it is done, and the
results added so far are the sum of a first part of the elements, in closed form.

**Process-per-client servers.** `EchoInv` counts the lines of a client over the places they can be
in (sent, in the socket, in the child, on their way back, read) and says who still holds which
end, so that an end is seen only after the last line. `ForkInv` counts SIGCHLDs against zombies,
`SavedInv` the lines that were echoed against those in the file, in the pipe and about to be
written. A total over all clients is computed recursively, one client after the other; the lemmas
up to `TotalMoves` show that it is a cardinality, and so that it changes by one when one
client's number does.

**Union-finds and percolation.** A root is what a recursive walk computes, so its value for
every input is not in reach by induction over the walk. The invariants say instead that there is
a function that names the root of each element, and another that bounds how far it is from its
root and shrinks along `id`; in the weighted kinds 2 to the power of that bound is no more than
the size of the set, which is what makes the depth logarithmic
(`Forest`, `Kept`). Where the walk itself has to be compared with that function, a least element
on which they differ leads to a contradiction (`HasSmallest`); the same argument takes care
of the logarithm, of `Walk` in the list, and of the order of the numbers of the median.
`GridInv` applies it to both union-finds of the grid: each has joined exactly what the edges
between open sites join (`Spanned`), one with the bottom (`Piped`), one without (`Drained`), so
that `isFull` is the least set of sites that water reaches (`Wet`), and no backwash.

## 5. Findings

Six statements in comments and tests of the programs are not what the code does; each has a
run that TLC refutes.

- `ChatRoom_slots`: the notes at `chatroom_server.cc:393` say that every child writes a
  slot of its own. The table moves an entry into the hole of a user who left, its child
  keeps the old index, and the next child is forked with that index.
- `ChatRoom_kill`: line 99 says the handler ends a child. It sets a flag; a child that is
  between the test of the flag and `epoll_wait`, or has not yet installed its handler,
  goes on until its client speaks or leaves.
- `Reactor_idle`: line 257 of `Reactor.cpp` says that each sweep tests 100 connections.
  `checkpos` is never advanced, so only the first entry is tested, a hundred times.
- `Oneshot_once`: line 172 of `epolloneshot.cc` says that one thread at a time serves a
  connection. Two reports in one round can give two threads the same argument; the other
  connection is then disarmed for ever. `Attended` says of all the others that they are not.
- `PollRoom_own`: lines 16 and 17 of `HP/ch09/chatroom_server.cc` say that a text is sent to
  every client but its sender. It is handed on as a pointer to the sender's entry (line 162), and when
  somebody leaves the last user's entry is copied over his (line 129): the pointer then
  leads to another client's text, who may be the one that is about to be written to.
- `SmartPtr_moved`: line 33 of `smart_ptr.cpp` names the move constructor, and lines 122 and 126
  of `test()` move and assign. The pointer moved from keeps its pointers (line 36), gives up
  the count a second time in its destructor, and the object is deleted under its owner.

## 6. What is only checked, and what is not modelled

Only model-checked: liveness (`ZombiesReaped`, `OrphansExit`, `SilentIsClosed`,
`DataIsTaken`, `ThreadsEnd`, `ClientsLetGo`, `LoopsServe`), since the prover does not treat
fairness and ENABLED. With it `EchoLoops`, `UnifiedEvents` and `HalfClose`, which have liveness
properties only, are only model-checked. What a recursive definition computes is proved where
another description of the value is known (a root by a function that names it, a walk by the
sequence it follows); in general induction over data is out of the prover's reach. No safety
property of a passing run is left without a theorem.

Inside the modelled programs the following is left out: in `ChatRoom`, unexpected errno
values of `epoll_wait` and `recv`, full pipes and partial sends; in the timers, the
destructors; in `NonactiveConn`, failing system calls; in `Reactor`, failing `fcntl` and
`epoll_ctl`, and what a client does whom the full table turned away; in `EpollOneshot`, a
failing `pthread_create` or `accept`; in `PollRoom`, a failing `poll`, and SIGPIPE, which takes a
reset that falls between `poll` and the `send` of the same round, after the client's end (a
reset that `poll` sees takes the branch of POLLERR or POLLHUP); in `EchoLoops`, failing `select`,
`epoll_wait` and `accept`; in the process-per-client servers, errors of `read` and `write`, SIGPIPE
among them, which there ends one child as its exit does; in `UnifiedEvents`, a full pipe;
in `MedianFinder`, sums of two numbers that an `int` does not hold (the addition on line 34 would
be undefined); in `PercolationStats` the statistics of the means. Formatting and logging are left out
everywhere.

Not modelled, and why:

- `HP/ch09/select.cc` and `nonblocking_connect.cc`: one connection, one `select`; what is
  interesting about them (urgent data, `SO_ERROR`) is the kernel's.
- `HP/ch11/nonactive_conn2.cc`: a copy of the idle-connection server that includes
  `time_heap.h` but uses the names of `timer_list.h`; it does not compile.
- CC chapter 3's listings whose mutex guards one access (two locks with `std::lock`, the
  shared mutex, the list with a mutex): a critical section of one step each. CC chapter 2's
  listings that start a thread and join it once.
- The singleton and the observers: demos of one thread with one pointer or one vector.
- Small socket, pipe, signal, shared memory and out-of-band demos: straight-line programs that
  call the kernel once or twice and keep no state. libevent demos: the state is the library's.
  Pattern demos and introductory Java programs: they print.

## 7. Plan

Done, in the order of importance: the chat room (the program with the most actors), the
timers and their server, the event servers with a protocol of their own, the hierarchical
mutex and the condition variable; then the remaining loops, process servers, threads,
owners, containers and union-finds; theorems for every safety property of these.

Left:

1. The safety part of what the liveness properties of the loops rest on, as invariants with
   proofs: in `EchoLoops`, data that wait are ready or are being read (for the level-triggered
   loops and those that drain); in `UnifiedEvents`, a signal is pending, in the pipe or acted on;
   in `HalfClose`, what the client has not read is in the socket or in a buffer.
2. The hazards that no property covers (`PROJECT.json` has a note for each): what the chat room's
   edge-triggered sockets and pipes leave unread, slots copied while they are written, failing `fork`
   and `accept`, the reactor's lost descriptors and overwritten length, the loops that one client can
   stop. The code gives no promise there that would hold; each is a candidate for a run that shows
   what is lost.
3. An abstract stack and an abstract reference-counted object, with `ThreadsafeStack` and
   `SmartPtr` (without moves) refining them.
4. `select.cc` with urgent data beside normal data, should a property worth stating turn up.
