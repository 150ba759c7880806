# Primordial Soup in TLA+

Primordial Soup is a small virtual machine for Newspeak.  One process runs
*isolates*: each has a heap, an interpreter and a message loop of its own and
runs on one thread; isolates share nothing but messages they send to each
other's ports.  Inside an isolate Newspeak code runs in *turns*: the loop takes
a message, a timer or a ready descriptor, has the interpreter run it to its
end, and waits for the next one.

These modules model the VM from the threads down to the digits of an integer:
what runs concurrently, the tables it is found through, the collector and the
memory under it, the interpreter's stack and its inline cache, the compiler's
bytes, and the primitives that compute.  They were written from the C++ in
`src/vm` (the epoll variant of the message loop) and the Newspeak in
`src/newspeak` that is the other half of a mechanism (streams, timers, the
symbol table, the code generator).  Every definition has the lines it stands
for in `PROJECT.json`, under `map`.

Contents: [the system](#the-system), [modules and code](#modules-and-code),
[abstractions](#abstractions), [bounds](#bounds), [fairness](#fairness),
[runs](#runs), [proofs](#proofs), [only model-checked](#only-model-checked),
[what the models say about the code](#what-the-models-say-about-the-code),
[not modelled](#not-modelled), [plan](#plan).


## The system

    main()  --SIGINT--> Isolate::InterruptAll --> every listed isolate
      |
    Isolate (main) --spawn--> ThreadPool --thread--> Isolate (child) ...
      | owns                                            | owns
      Heap, Interpreter, MessageLoop(HandleMap)         Heap, ...
      |                                                 |
      +------ PortMap: port -> loop, mutex -------------+

| Part | State | Operations | Shared with | What is hard | What makes it correct |
|---|---|---|---|---|---|
| ThreadPool (`thread_pool.cc`) | lists of workers, counters, join list, each worker's task and done flag | Run, worker loop with reaping and time-out, Shutdown | every isolate that spawns, the main thread, the workers | the worker Run picked is used after the lock is gone; a five-second time-out races Run and Shutdown; joins with monitors held | every task taken runs once before Shutdown returns; no deleted worker is touched; every thread is joined once; Shutdown ends |
| PortMap (`port.cc`) | open-addressed table, `used_`, `deleted_` | CreatePort, PostMessage, ClosePort, CloseAllPorts | every isolate, under one mutex | tombstones, wrap-around, growth, signed port numbers | behaves as a partial function from ports to loops; probes end |
| HandleMap (`handle.cc`) | open-addressed table, next id | Register, Insert, Remove, Lookup | one loop | a rehash may start a rehash; `used_` drifts | a lookup finds exactly the live handles and ends |
| Symbol table (`KernelForPrimordialSoup.ns`) | weak array, count of used entries, marked strings | asSymbol, rehash | the collector, which clears entries | entries cleared while a search or a rehash is on | one string for a sequence of bytes |
| MessageLoop (`message_loop.cc`, `message_loop_epoll.cc`) | queue, eventfd, `open_ports_`, `open_waits_`, timer descriptor, `isolate_`, exit code | Run, PostMessage, DispatchMessage, RespondToEvent, MessageEpilogue, Exit, Interrupt | senders, the signal handler, its interpreter, the kernel | notify only when the queue was empty; end by itself exactly when nothing can wake it; drain when ending; re-arm the timer only when its due time changes | no lost wake-up; messages in order, each dispatched or deleted once; no port leads to an ended loop; no timer is missed; a signal that reaches the program is still true |
| Isolate (`isolate.cc`) and main (`main.cc`) | list of isolates under a monitor, pool, the process | construct, delete, Spawn, InterruptAll, PrintStack, Shutdown | all threads, signal handlers | a handler runs on any thread at any point, also on one that holds the monitor | the handler touches only live isolates and ends those it reached; nothing is left when the process ends |
| Heap (`heap.cc`, `heap.h`, barrier in `object.h`) | two semispaces and old space, remembered set, class table, weak and ephemeron lists, mark bits; headers and free lists | allocate, store, become, Scavenge, MarkSweep, allInstances, referencesTo: | its interpreter (roots, lookup cache) | an object reached by a stale pointer, missing in the remembered set, or visited too early; a size that is wrong | nothing alive is lost, nothing dead stays after a mark-sweep, no pointer dangles, weak references are as the key's fate says; every pass over a space finds its objects |
| Interpreter (`interpreter.cc`) | frames on a stack, activations that stand for them | send, returns, EnsureActivation, FlushAllFrames, CreateBaseFrame | heap (roots) | an activation outlives its frame; non-local return through base frames | frames and objects together are a chain of contexts; `ensure:` is never passed by |
| Sends and LookupCache (`interpreter.cc`, `lookup_cache.*`) | cache of lookups by class id and address | the five kinds of send, perform:, Clear | collector, mirrors that install methods | ids and addresses change under the cache; three access modifiers against five rules | a hit is what a full lookup would find; a private method stays private |
| Code generator and bytecode loop (`Newspeak2PrimordialSoupCompilation.ns`, `interpreter.cc`) | code, operand depth, labels; ip, stack pointer | emit, patch, run | bytes only | short and long encodings, depths across branches | the interpreter does what was meant, at the depth that was counted |
| Numbers (`large_integer.cc`, `primitives.cc`) | none | digit arithmetic, three representations | primitives | carries and borrows at digit boundaries, the limits of every representation | equals integer arithmetic |
| Elements (`primitives.cc`, `interpreter.cc`, `object.cc`) | arrays, strings, closures | at:, at:put:, copies, comparisons, hash, allocation | collector, by every allocation | an address kept over an allocation; overlapping copies; positions at the ends | the promised contents, and nothing else changed |
| Actors (`Actors.ns`) | queues of actors, promises and reactors, pending list, timer heap | eventual sends, resolve, drainQueue, timers | its isolate's loop and ports | delivery order, a promise resolved twice or by a cycle, exceptions that leave a queue half drained, current actor of callbacks | per reference order, single resolution, every queued message runs |
| Snapshot, OS and memory layers, other hosts' loops, Newspeak library | see [not modelled](#not-modelled) | | | | |


## Modules and code

One module per component; an abstract module where the component promises
something that can be said without its mechanism; `MC*` modules that only
instantiate for TLC, some of them several components side by side; modules of
proofs.

    TaskPool   <=refines= ThreadPool  <-extends- MCThreadPool, ThreadPoolProofs
    PortTable  <=refines= PortMap     <-extends- PortMapProofs, MCPortMap
    Symbols                           <-extends- SymbolsProofs
    Dispatch                          <-extends- DispatchProofs, MCDispatch
    MCPortMap, Symbols, MCDispatch    <-extends- MCTables -instance-> HandleMap
    Isolates (loops + list + signals + process; a pool and a port map as
              TaskPool and PortTable describe them)  <-extends- MCIsolates, IsolatesProofs
    LoopEvents (waits, streams, timers of one loop)  <-extends- LoopEventsProofs
    Heap <-extends- MCHeap <-extends- MCHeapAll -instance-> HeapMemory
    Heap <-extends- HeapProofs <-extends- CollectionProofs
    Contexts   <=refines= Activations <-extends- MCActivations
    LargeIntegers <-extends- Numbers <-extends- MCNumbers <-extends- MCComputation
                       MCComputation -instance-> Elements, Bytecodes, Activations
    Bytecodes                         <-extends- MCBytecodes

**ThreadPool** models `thread_pool.cc`.  A section under `mutex_` is one action.
`Worker::monitor_`, held over several of them, is a function of the worker's
`pc` (`HoldsMonitor`); `exit_monitor_` is held while Shutdown notifies.

| Actions | Code |
|---|---|
| RunRefused, RunNewWorker, RunIdleWorker, then SetTask, StartThread | `ThreadPool::Run`, in the three stretches separated by the release of `mutex_` and of the worker's monitor |
| TakeTask, TaskReturns, AfterTask | `Worker::Loop`, the task's code in between |
| SkipIdle, SetIdle, TakeExited, Join, JoinDone | `SetIdleAndReapExited`, with the second look at `shutting_down_` |
| time-out, wake-up and exit actions | `Worker::Loop`'s wait, `ReleaseIdleWorker`, `Worker::Main` up to `delete worker` |
| ShutdownStep's actions, NotifyWorker | `ThreadPool::Shutdown` |

`freedUse` is a history variable: SetTask has written to a deleted worker.  The
task is then lost, which is the mildest thing undefined behaviour may do.

**TaskPool** is what callers rely on: a task taken is run to its end, once,
before the pool closes.

**PortMap** models `port.cc`, one action per public function, with the table's
slots, tombstones, both counters, the growth and flush rule of
`MaintainInvariants` and `Rehash`.  The signed remainder of `Rehash` and the
unsigned one of `FindPort` are both there.  **PortTable** is the partial
function it stands for.

**HandleMap** models `handle.cc`.  `Rehash` inserts through `Insert`, which may
rehash again; the operators recurse as the code does, so this module is for TLC
only.

**Symbols** models `intern:` and `rehashSymbolTable` of
`KernelForPrimordialSoup.ns`, one probe or one moved entry a step, beside a
collector that may clear any entry nothing else refers to between two of them.

**Isolates** models `message_loop.cc`, `message_loop_epoll.cc`, `isolate.cc` and
the handler in `main.cc`.  `pc[i]` is where the isolate's thread is:

| pc | Code |
|---|---|
| unborn, tasked | not spawned; a `SpawnIsolateTask` is in the pool |
| born | the constructor listed it; its first message is not posted yet |
| check, poll, event, take, dispatch | `EPollMessageLoop::Run`: the test of `isolate_`, `epoll_wait`, an event's turn, `TakeMessages`, the batch |
| activated, turn | `DispatchMessage` before `isolate_->Interpret()`; Newspeak code runs |
| toPrint, printing | `StackOverflowOrInterrupt` and `PrintStack` |
| closing, drain, leaving | the end of Run: `CloseAllPorts`, deleting the queue, the destructor's `RemoveIsolateFromList` |
| left, shutdown, gone | the Isolate is deleted; main waits in `Isolate::Shutdown`; the thread is done |

The actions of a turn are the primitives: OpenPort, TurnClosesPort, Send, Spawn,
TurnExits (`MessageLoop_exit`), TurnFinishes (`MessageLoop_finish`, with
`MessageEpilogue`).  `Deliver` pushes the SIGINT handler on some thread, whose own
steps then stop (`Runs`), and InterruptAll, InterruptInterpreter, InterruptLoop,
InterruptNotify, HandlerReturns walk the list.  `posted` and `settled` are
histories of a loop's messages.

**LoopEvents** models what a loop waits for besides messages, with its two
clients: `AwaitSignal`, `RespondToEvent`, `StartProcess`, `Read`, `Write`,
`Close` and the timer descriptor of `message_loop_epoll.cc`, the streams and
processes of `IO.ns`, the timer heap of `Actors.ns`.  A child writes, reads,
closes and exits, and the clock advances, between any two steps of the loop.
`pc` is where the loop is: `poll` (epoll_wait), `event` (RespondToEvent for the
event at hand), `timers` and `callback` (drainTimers and a timer's block),
`program` (Newspeak code of the turn), `over`.  The history variable `hasty` holds
the streams that a timer's callback used while a signal for them waited.

**Heap** models the collector.  An object keeps its identity when it moves; a
pointer carries the space its target was in when it was written, so a pointer
the collector forgot to update is seen to dangle.  The program's actions are New,
NewInstance, Behavior_adoptInstance, Store (with the write barrier), Load, Drop
and BecomeForward.  A collection is a sequence of steps, each visiting one object
of one list:

| Actions | Code |
|---|---|
| StartScavenge, ScavengeRemembered, ScavengeRoots | `Heap::Scavenge`, `FlipSpaces`, `ScavengeRoots` |
| TestScavengeLoop, ScavengeToSpace, ProcessTenureStack, ScavengeEphemeronList | the loop of `Scavenge`, and the lists it works on |
| MournScavenge | `MournEphemeronList`, `MournWeakListScavenge`, `MournClassTableScavenge`, the end of the scavenge |
| StartMarkSweep, ProcessMarkStack, MarkEphemeronList | `MarkSweep`, `MarkRoots`, the ephemeron passes |
| MournAndSweep | the mark-sweep's mourning, `SweepNewSpace`, `Sweep`, freeing class ids |

`before` (what was alive) and `reach` (what may be kept) are recorded when a
collection starts and are used only by properties.  State variables are
named as in the code (`ephemeron_list_`, `weak_list_`, `class_table_`, ...).

**HeapMemory** is the same heap seen as memory: spaces cut into objects,
with headers whose size field overflows, free lists by size class, splitting and
sweeping, evacuation in address order, `Truncate`, corpses of become, the tenure
stack in to-space, and the walks of `InstancesOf` and `ReferencesTo`, which
step from header to header.  A collection is one step there.

**Contexts** is the machine the image is promised (class `Activation`,
`Mirrors.ns`' `Simulator`): every activation is an object, one of them runs.
**Activations** is the interpreter that implements it: frames on a bounded
stack, activation objects "married" to a frame by its address, base frames,
`EnsureActivation`, `FlushAllFrames`, stack overflow, local and non-local
return, `ensure:`, simulation roots, and the primitives by which programs change each
other's contexts.  The history variable `contexts` carries the abstract chain.

**Dispatch** models the sends: ordinary, super, self, implicit receiver and
outer sends with their lookups through superclasses and enclosing objects, the
access checks, `doesNotUnderstand`, `perform:`, and the two halves of the
lookup cache, between collections that move and renumber what it is keyed by.

**Bytecodes** models the code generator with its depth and its labels, and the
interpreter's decoding.  The compiler's walk is any sequence of visits to the
nodes of a method; the two sides share nothing but bytes.

**LargeIntegers** has the digit algorithms of `large_integer.cc` for any digit
width, **Numbers** the primitives that choose between small, medium and large
integers.  **Elements** has the primitives of arrays, byte strings and closures,
the interpreter's short cuts for `at:`, `at:put:` and `size`, and string hashes.
A C++ local carries the half of the heap it was read in, and every allocation
may be a collection that moves all objects.


## Abstractions

* **Critical sections.** What happens under one lock, with nothing blocking
  inside, is one step.  A field another thread may change without the lock is
  read in a step of its own, as often as the code reads it.
* **Lists as sets.** The pool's lists and the list of isolates are sets, and the
  model takes any element where the code takes the first; the queue and the
  batch of a loop are sequences, because order is a property there.  The lists of
  a collection are sets visited in any order: the code has one order for a given
  heap, so the model has at least its behaviours, and more only in that order.
* **Waits and timers** of a loop are one flag in Isolates, `busy[i]`, that a turn
  sets as it ends; LoopEvents is about what sets it, with no port open.
* **Names for numbers.** Isolates gives out messages and ports in a fixed order
  (`Fresh`).  Class ids in Heap are numbers because the code reuses freed ones in
  order; addresses are not in Heap, offsets are in HeapMemory.
* **Heap**: objects have one slot (an ephemeron two).  **HeapMemory**: what is
  alive is computed at once; the semispaces do not grow; old space keeps all it
  holds a path to; the uninitialised elements of a result array are not modelled.
* **LoopEvents**: a pipe holds a number of bytes; a closed WriteStream stays
  closed (the code sets `ready` true with a nil handle, the program does not
  write to closed streams); a process in another isolate that holds a duplicate of
  a pipe after fork is left out; SIGPIPE is ignored (`main.cc:34`).
* **Activations**: chains of senders have no cycle; contexts that have returned are
  not revived; `methodPut` gives a method of the same shape, `sizePut` never less
  than its temporaries; a turn ends with a sender that is nil or alive; the
  running context is not made dead by reflection.
* **Dispatch**: an enclosing object is not the receiver itself; every scope
  outward of a method has its application (`Runs`); `adoptInstance` only of
  objects that enclose no class.
* **Dispatch**: arguments are left out, and with them `perform:`'s answer to a wrong
  number of them.
* **Bytecodes**: what the stack holds is not modelled, only how much.  Sends have at
  most 15 arguments, which is what the encoding holds.  That of closures holds 15 too,
  of which the interpreter takes three bits: `computation` has closures of 7 arguments,
  `closure_arity` those of 8 and 15.
* **Elements**: the replacement primitives get receivers of the classes their
  callers pass; asserted classes of receivers are assumed.


## Bounds

| Bound | Value | Why it is enough |
|---|---|---|
| Worker, Task | 3 workers and 4 tasks, two of which spawn where tasks may; 2 and 3 in pool_lost_task | an idle worker, a new one and one that exits can exist together; a task can be in Run while another runs and a third is reaped |
| Port, InitialCapacity | five ports that collide modulo 4 and 8, capacity 4 growing to 8 | the table grows, flushes tombstones, and wraps; each happens more than once on the way |
| LastId (HandleMap) | ids up to 10, nine handles | enough for growth, for a flush, and for the rehash inside a rehash |
| LastString (Symbols) | five strings, two of a content, hashes that collide, tables of a snapshot with one or two symbols | a search that passes a cleared entry, a rehash with a string of equal bytes in the table |
| Isolate, Port, Message, Quotas | main and one child; either three messages, one port and no SIGINT, or two messages and one SIGINT | a sender, a receiver, a port; two messages in one batch with a third behind it; one SIGINT shows the races with construction, deletion, turns and waits |
| ForeignClose | FALSE | the library closes only ports it opened; with TRUE, RoutesToLoops and the count of ports fail |
| Child, Timer, Durations, MaxNow | one child with three pipes; a repeating and a plain timer, of 0 or 1 ms; clock up to 2 | equal due times, a timer that is due again when it fires, one added in a callback; events of two pipes in one poll |
| Capacity, Chunk, MaxPending | pipes of one byte, chunks of two, one pending | every write is partial, the pipe is full, the writer waits |
| Beside | the plain timer runs beside a child, the repeating one only before a child is started | callbacks act on the streams of a running child, also while a signal for them waits, at two due times |
| Obj, Cid, Mixes, MaxStack | three objects, one of a special kind among two others (weak array and plain objects; plain object and two behaviors; ephemeron and plain objects; two ephemerons), two class ids, two roots | a chain of two from a root, a new and an old object with the special one between; two ephemerons that depend on each other |
| FreshRoot, Unbarriered | TRUE and {} in the passing run | each rules out a finding in the collector and is lifted by another config.  FreshRoot (heap_fire): a scavenge starts only when no ephemeron is old or something on the stack is new (in the VM, almost always: the stack holds activations and fresh objects).  Unbarriered (MCHeapAdopt): the objects that may get a class that is new when they are old; ClassesSound and RememberedExact say something of all others and are proved for any such set |
| HeapMemory's | a semispace of 5 units, two regions of 6, the largest tagged size 2, large from 4 on, 2 size classes, 5 calls after a snapshot | sizes on both sides of each limit, splitting, coalescing, a region that is full (`full`), a result array that must be cut |
| StackSizes, MaxContexts, MaxTurns, MaxReflections | a stack for one frame and a half, four contexts, one turn, one reflective call, three methods and one closure | the third call overflows; a closure outlives and returns past its home; one of the contexts is an object while the others are frames |
| Entries, Placements, MaxChanges | two cache slots, two placements, three changes, five classes in two nested mixins | every lookup collides; an address is reused by another selector |
| kDigitBits, kMintDigits, kSmiBits | digits of 3 bits, int64 of two digits, kSmiBits 4 (small integers from -16 to 15) | three-digit operands of digits 0, 1, 5, 6, 7 put a carry and a borrow on every boundary |
| kBitsPerByte, kWordBytes, Indices | bytes of 2 bits, words of 3 bytes, positions -1..5 of arrays and strings of up to four | both ends and beyond of every range, every overlap |
| Operands, Arities, Temporaries, Lengths, MaxVisits | operands on both sides of every limit between encodings; methods of 9 arguments and 9 temporaries; four visits | offsets on both sides of 7, so that parameters and locals take their short and their long forms; a conditional in a loop in a closure; jumps that need the long form |

Symmetry is used where the permuted values are interchangeable in the initial
states and in Next, and only in runs without liveness properties (the temporal
properties of `heap` and `tables` are properties of steps).  MCHeap permutes all
objects but `One`, the one whose kind may differ.

`CHECK_DEADLOCK FALSE` stands where the system may really stop: the pool after
Shutdown, tables when names are used up, the process when it has ended or
every isolate waits, the heap when every object is in use and nothing is left to do,
and the machines whose number of calls, turns, sends or visits is bounded.


## Fairness

* **ThreadPool** (`Spec`): every thread's steps inside Run, every worker's steps,
  a task's return, notification, joins and Shutdown's steps are weakly fair.
  Threads are scheduled by the OS; a lock is held over a bounded number of steps;
  a task returns because the run that checks liveness is about Shutdown, which
  waits for tasks by design.  The calls of Run, and the time-out, are not forced.
* **Isolates**: `FairSpec` makes each isolate's loop steps, the main thread's
  shutdown and the handler weakly fair; `FairTurns`, under which the run is
  checked, adds that turns end, without which no message behind an endless turn
  settles.  With a SIGINT in the quota turns need not end, so InterruptEnds is
  checked of endless turns: their own check for interrupts is a loop step.
* **LoopEvents** (`FairSpec`): the steps of a turn are weakly fair, as the thread
  runs on and turns end.  That epoll_wait returns a ready descriptor is strongly fair for the
  timer, for each process and for each child's stdout: it takes those that stay ready
  in turns.  Nothing is assumed of a child's stdin, since no answer depends on it.  The
  child's, the clock's and the program's steps are not forced.
* **Heap**: `FairSpec` says a collection goes on once begun: it is one thread's
  straight-line code.
* **TaskPool**: a task taken is finished, and a closing pool closes.  That
  ThreadPool implements this under its own fairness is part of AloneImplementsTaskPool.


## Runs

| Run | Config | Checks |
|---|---|---|
| pool | MCThreadPool | with tasks that call Run while Shutdown runs: counters and lists agree, at most one hand-off per worker, the picked worker lives until Shutdown begins, the main thread never touches a deleted worker, each thread is joined once and a closed pool has joined all; with only the main thread calling Run, the refinement **AloneImplementsTaskPool** (safety and fairness: Shutdown comes to its end) |
| pool_lost_task | ThreadPoolLost | *violation* of **ShutdownWaitsForTasks**: a task taken from a worker is lost when Shutdown overtakes the call |
| tables | MCTables | the port map implements **PortTable** (PortMapBehaves), its probes end and its counters are exact (ProbesStop); lookups of the handle map find exactly the live handles, and end (FindsLiveHandles); one canonical string per sequence of bytes, and every search ends (SymbolsSound); a hit of the lookup cache is what a full lookup would find (CacheTrue); access modifiers hold (AccessHonoured) |
| isolates | MCIsolates | no lost wake-up, every message in order and once, the port map leads only to loops that still drain, the handler touches live isolates only, an abandoned turn never leads back to waiting; every message posted is dispatched or deleted when turns end, also one already in a batch (EveryMessageSettles), and an interrupted isolate ends |
| heap | MCHeapAll | objects: no dangling pointer, class ids lead to classes, the remembered set is complete and has no duplicates, a collection keeps what was alive, a mark-sweep keeps nothing else, become keeps the class of every instance; memory: every walk finds its objects, free lists and counts are right, no write past a result array or the tenure stack |
| heap_fire | MCHeapFire | *violation* of **ValueKeptWhileKeyAlive** |
| referrers | MCHeapMemoryReferrers | *violation* of **NoOverrun** by referencesTo: |
| computation | MCComputation | every number primitive on every pair of operands (NumbersExact, but for the two violations below); every primitive of indexed objects at every position; every small method: run as compiled, at the depth the compiler counted; frames and objects implement **Contexts** (ImplementsContexts), what class Activation answers is true (AnswersSound), and `ensure:` is never skipped (EnsureNotSkipped) |
| numbers_carry | MCNumbersCarry | *violation* of **CarriesAbsorbed**, an assertion of the code |
| numbers_smallest | MCNumbersSmallest | *violation* of **SmallestRepresentation**, which the design promises |
| closure_arity | MCBytecodesArity | *violation* of **RunsAsCompiled** by closures of more arguments than `computation` has |
| loop_events | MCLoopEvents | waits are counted, no timer is missed, signals that reach the program are still true unless a timer's callback used the stream while its signal waited; all that happens outside is answered |

Runs that put instances side by side (`pool`, `tables`, `heap`, `computation`) choose one
in the initial state (`tested`) and never mix their steps.  Each passing property has
been seen to fail on at least one plausible mutation of the code; the mutated
operators stand before the definitions they mutate, marked `mutant`, and no
specification uses them.

Configs that are not among the runs, each of which refutes a property.  The first four
and the last lift an assumption or an exemption of a passing run or of a theorem and so
show that it is needed:

| Config (module) | Refutes | Shows |
|---|---|---|
| MCPortMapSigned (MCPortMap) | StaysInBounds | `port.cc:56`: with the code's own capacity of 8 and one negative port, Rehash stores in front of the array |
| MCHeapAdopt (MCHeap) | EveryClassSound | ClassesSound without its exemption: an old object given a new class (Unbarriered = {b}) loses it |
| MCHeapMemoryShift (HeapMemory) | WalksFindObjects | LargeShifts = TRUE: shifts shorten their result with `set_size` alone |
| MCLoopEventsBeside (LoopEvents) | EverySignalServed | SignalsServed without its exemption: a callback closes a stream whose signal waits |
| MCActivationsTurns (MCActivations) | SenderIsNoAddress | with two turns a sender slot keeps a stale frame address (`interpreter.cc:1030` against the assertion at line 811) |
| MCBytecodesFit (MCBytecodes) | FramesFitActivations | an activation has room for 35 values, the compiler does not look |
| MCIsolatesExit (MCIsolates) | MainExitEndsProcess | "also exits the process" (`Actors.ns:587`): `Isolate::Shutdown` waits for every other isolate first |
| MCBytecodesResumed (MCBytecodes) | StackAsTracked | HandlersResume = TRUE: a resumed NonBooleanReceiver leaves one value too many |

`GCEnds` (Heap, under FairSpec: every collection ends) holds for two ephemerons, and
is in no run.


## Proofs

Proved with TLAPS, for every value of the constants:

| Module | Theorem | Property | Assumes |
|---|---|---|---|
| ThreadPoolProofs | TypeCorrect, CountsAgree, HandOffIsExclusive, PickedStaysAlive, EveryThreadJoinedOnce | TypeOK, CountsMatchLists, OneHandOffPerWorker, PickedWorkerAlive, JoinedOnce | |
| | NotificationsReachLiveWorkers, LeavingIsUnlisted | NotifiesLiveWorkers, LeavesUnlisted | |
| | OnlySpawnersLoseWorkers | NoUseAfterFree | |
| | ShutdownWaits | ShutdownWaitsForTasks | SpawningTask = {} |
| | TasksKeepTheirPlace, StepsImplementTaskPool | every step of ThreadPool is a step of TaskPool or a stutter: the safety half of AloneImplementsTaskPool | SpawningTask = {} |
| IsolatesProofs | LoopsAreWoken, HandlerIsSafe, AbandonedTurnsStop | NoLostWakeup, HandlerTouchesLive, AbandonedMeansStopped | |
| | PortsLeadToLoops, MessagesKeepOrder | RoutesToLoops, MessagesInOrder | ForeignClose = FALSE |
| LoopEventsProofs | OpenWaitsAreTrue, TimersAreNotLost, SignalsStayTrue | WaitsCounted, NoLostTimer, SignalsServed | |
| DispatchProofs | CacheIsTransparent, EntriesStaySound, AccessIsHonoured | CacheTrue, (the invariant), AccessHonoured | |
| HeapProofs | HeapIsSound, BecomeKeepsEveryClass, RememberedIsExact, ClassesAreSound | HeapSound, BecomeKeepsClasses, RememberedExact, ClassesSound | |
| CollectionProofs | GarbageIsCollected | CollectsGarbage | |
| | LivingAreKept, ValuesAreKept | GCKeepsLive, ValueKeptWhileKeyAlive | Unbarriered = {}, FreshRoot = TRUE |
| PortMapProofs | ProbesAlwaysEnd | ProbesStop | |
| | RoutesInBounds | PortMapBehaves | []StaysInBounds: Rehash has stored nothing outside of the table |
| SymbolsProofs | OneSymbolForEachString | SymbolsSound | |

Beside these the only assumptions are the named ones in the modules
(ConstantsAssumption, IsolatesAssumption, LoopEventsAssumption,
HierarchyAssumption and so on), which say what kind of thing a constant is and
are evaluated by the runs.  Sets may be infinite, but for the objects and class ids of
Heap and the symbols of a snapshot; that a list is finite is part of the invariant
where its size matters.  Five hypotheses are not about kinds, and each is necessary:

* `SpawningTask = {}`: only the main thread calls Run.  The run pool_lost_task
  refutes ShutdownWaitsForTasks without it.
* `ForeignClose = FALSE`: an isolate closes only ports it opened, as `Actors.ns`
  does.  With TRUE an isolate's `open_ports_` counts another's port, goes below
  what it holds, and its loop ends with a port still in the map.
* `Unbarriered = {}`: no old object is given a class that is new.  Such a class may be
  freed with the next scavenge, so that a live object is lost (MCHeapAdopt).
* `FreshRoot = TRUE`: something on the stack is new when a scavenge finds an old
  ephemeron.  The run heap_fire refutes ValueKeptWhileKeyAlive without it.
* `[]StaysInBounds`, of RoutesInBounds: the theorem is for any ports, half of which are
  negative in the code, and says that Rehash's store outside of the table
  (MCPortMapSigned) is all that can go wrong with a route.  ProbesStop does not need it.

Other properties are weaker than one would wish, since the code does
not keep more; their theorems have no hypothesis, and another config refutes the
property without the exemption:

* ClassesSound and RememberedExact exempt the class of the objects in `Unbarriered`, any
  set: those that get a class that is new while they are old, which adoptInstance and
  class creation do without a write barrier.  They say that the damage stays there: every
  other object keeps its class, and HeapSound and BecomeKeepsClasses hold of all
  (MCHeapAdopt refutes EveryClassSound).
* SignalsServed exempts the streams in `hasty`, those that a timer's callback used while
  a signal for them waited for its handler (MCLoopEventsBeside refutes EverySignalServed).
  A stream is hasty for no other reason, and reading is exempt only in that the
  primitive may find the stream closed: a stream never ends before its last byte.

None of the properties is inductive alone.  The invariants and why they are needed:

**ThreadPool**: `Control /\ Counted`, then `Reaping /\ Sweep`, then `Flight`.
*Control* ties the lists to where threads are: before Shutdown `all` is exactly
the workers that have not left, after it the lists are empty (`Listed`); only
Shutdown makes a worker leave unreleased (`Told`); a call of Run past its lock has
a worker nobody else has, which is not idle, still waits and has no task - or, only
when the caller is a worker and Shutdown has begun, may have gone (`Calls`); a
worker has no task between taking it and being idle again (`Tasks`); a deleted
worker was touched only if tasks spawn (`Blame`).  The exception in `Calls` is
where the finding in the pool is: for the main thread it cannot arise, since the
same thread calls Run and Shutdown.  *Counted* adds that the counters are the sizes
of the lists, by the library's theorems on cardinalities.  For JoinedOnce,
*Reaping* says that a thread that has ended and is not joined is in exactly one
place, the join list or one reaper's batch, and *Sweep* that what Shutdown takes
covers the rest.  For the refinement, *Flight* follows a task from Run to its end: it
is in the call, in one worker's slot, or in one worker's hands, and in none twice.

**Isolates**: `Types /\ Walking /\ Woken /\ Stopped` without assumptions.  *Walking*
says that the list is exactly the isolates between constructor and destructor,
and that what the handler has still to visit is on it: the list cannot change
under the handler, because it holds the monitor.  *Woken* extends NoLostWakeup
to every pc but the one between reading the eventfd and taking the queue, where
the notification is gone and the messages are not.  *Stopped* bridges the two
steps of InterruptAll, interrupt the interpreter and exit the loop.
*PortsCounted* makes `open_ports_` the cardinality of the ports the map gives to a
loop, from which it follows that a loop that has ended has none.  *InOrder* is
`posted = settled \o batch \o queue` with where a batch may be non-empty; the
loop leaves only an empty one.

**LoopEvents**: `Types /\ Counted /\ Timed`.  *Counted* says that `open_waits_`
is the number of handles with a subscription or a process, and exactly those are in
the epoll set.  *Timed* has two phases: the descriptor is armed for `wakeup_`, or it
has been read in this turn, and then `wakeup_` is past and no timer due by then
is left when the program runs again (`Armed`, `Read`); without the second, re-arming
"only when the due time changes" would seem to lose a timer.  That the heap's first
timer is due first is PeekIsFirst.  `Streams` ties reader and writer to their handles, and
*StillTrue* says of the signal on its way from epoll to the stream that what
it reports has not been taken back, unless the stream is hasty; a hasty ReadStream is
closed, so that it neither reads nor ends.

**Dispatch**: `Types /\ Identified /\ Shaped /\ Sound`.  *Sound* says that every
entry, hit or not, is the result of some lookup with those ids and addresses as
they are now; *Shaped* that the entry's absent receiver can be rebuilt from the
hit; *Identified* that no two classes have one id.  Installing a method or
collecting clears the cache; adopting an instance does not, and need not, since
entries do not mention objects.  For AccessHonoured the enclosing objects found by
the interpreter's walk are shown to be those of the source's scopes (EncloserSteps,
ScopesEnclose): the recursive functions are unfolded at a least counterexample.

**Heap**: `Types /\ Tabled /\ (Idle \/ Copying \/ Marking)`.  *Tabled* says that the
class table and the ids in behaviors agree and only plain objects have classes that
are registered.  The rest depends on where the collector is:

* *Idle*, the program runs: every pointer leads to its object (`Settled`), the
  header bits are the remembered set, it is old, and every old object with a new
  target is in it (`Noted`).
* *Copying*, a scavenge: a pointer may still lead to from-space, but there to an object
  that has not been freed (`Leads`).  Every object in to-space or old space is waiting,
  in the work lists or put aside with the weak arrays and ephemerons and never in both
  (`Apart`: two visits would remember it twice), or it has been visited; then none of
  its pointers leads to from-space (`Traced`) and, if it is old, it is noted.
  Mourning deals with what was put aside, and when nothing waits this is Idle.
* *Marking*, a mark-sweep: nothing moves; a marked object waits in one list or has been
  visited, and then what it points to is marked (`Reached`), so that the sweep frees
  nothing a survivor points to.  Its bit is cleared when it is marked and set again
  when it is visited, which is why the bits say nothing in between.

For become, `Tables` is the invariant of ForwardClassIds' loop over class ids: the
behaviors to be forwarded among the ids passed so far are dealt with, the
ids of all others agree with the table, and every entry leads, once forwardings are
followed, where it led before.  The loop is a recursive function;
that it keeps `Tables` is shown at the least id that would break it.

**Collections** (CollectionProofs): GCKeepsLive and CollectsGarbage compare each step
with `before` and `reach`, what the roots reached when the collection began.  A *closed*
set is one that nothing outside is reached from: a plain object's slot and class lead
into it, an ephemeron's value does if its key is in it.  `Alive` of some roots, which
Heap defines as an iteration, is the least closed set around them: it is closed
because an iteration that still grows after as many rounds as there are objects would
have more members than there are, and least because no round leaves a closed set.
After that the iteration is not used again.  For what is freed, `Within` says that a
collection has come across members of `reach` only, which is closed.  For
what is kept, `Kept` says the converse with the closed set unknown: no
member of `before` is free yet, and every set that has the roots and is closed in the
fields as they are now contains all of them.  When nothing is left to visit, what the collection has reached is
itself such a set (`ThereClosed` of a scavenge, `MarkedClosed` of a mark-sweep), so
it contains `before`.  The delicate part is the ephemerons then left on the list:
their keys must be dead (`Hopeless`), which holds only if a pass over the list followed the
last object reached, and a scavenge that copies nothing makes no pass; `Spark`
carries FreshRoot's new object on the stack from the start of a scavenge to its loop.

**PortMap**: `Typed`, `Probed` and `Counted`.  *Probed* says that every entry is reached
from its home by a probe that passes no slot that was never used and no other entry of
its port; tombstones are what makes closing a port preserve it.  The routes are then
determined by the set of entries alone, wherever they lie, so a rehash changes none.
*Counted* is exact while nothing was stored outside and otherwise an upper bound, which is
all that the end of a probe needs: `used_` is at most three quarters and `deleted_` at
most half of the rest, so a slot is free.  Rehash is a recursive function; `Moved`, the
invariant of its loop (a table that is probed, holds the entries so far, and has
room for the rest), is shown at the least index that would break it.

**Symbols**: `Good` of each table in use (`Found`, as Probed above; `Distinct`, no two
strings of the same bytes) and, by the step, `Sought` - what a search has passed is not
what it looks for, and the entry it would reuse is a cleared one among them - or
`Moving` - how far a rehash is, and that the new table has room for what is left.  Both
survive the collector, which only clears entries: a cleared entry is not unused, so a search
passes over it, and entries that die after they were counted leave more room, not less.
That held symbols are in the table, and those of the two tables the same, is what makes
two searches for the same bytes end at one symbol.

Each module has one lemma per conjunct of the invariant, with one step per action
under it; a "kept" lemma covers the actions that leave the part alone.


## Only model-checked

* **Liveness**: EveryMessageSettles, InterruptEnds, Answered and the fairness half of
  AloneImplementsTaskPool; the prover has no rule for ENABLED, so none for fairness.
* **Recursive definitions** in HandleMap, HeapMemory, Numbers, Elements and Bytecodes: what they compute for every input needs induction over data,
  and a module that declares a RECURSIVE operator is closed to the SMT backend.
  The runs check them against reference definitions on all inputs within the bounds.
* **Activations**: the refinement to Contexts and EnsureNotSkipped.
* **Heap**: GCEnds, which is a liveness property too.


## What the models say about the code

Disagreements between the code and what the repository says of it; each has a
run that finds it:

1. `thread_pool.cc:61` (pool_lost_task): Run picks an idle worker under `mutex_` and
   calls SetTask after releasing it.  If Shutdown runs in between, which it can
   when the caller is a child isolate, the worker leaves and deletes itself; SetTask
   writes to freed memory and the task never runs.  `isolate.cc:28` says that the
   pool's destructor waits for all tasks.
2. `heap.cc:330` (heap_fire): the scavenger's loop, the only place that fires
   ephemerons, is not entered when roots and remembered set copied nothing; an old
   ephemeron with a live old key and a new value then loses its value.
3. `heap.cc:1512` (referrers): referencesTo: of an object that refers to itself finds
   the result array as one more referrer and writes past its end.
4. `large_integer.cc:470` (numbers_carry): And of two negative integers drops a carry out
   of the last digit, which the assertion there says cannot be: -(2^64-1) bitAnd:
   -(2^64-2) is 0.  Xor, `//` and `>>` have the same.  NumbersExact says that nothing
   else makes a result inexact.
5. `large_integer.cc:1573` (numbers_smallest): FromUint64 leaves the largest small
   integer as a medium one and the largest medium one as a large one; `docs/design.md:33`
   promises the smallest representation.  NumbersExact says that no other primitive
   leaves a larger one.
6. `interpreter.cc:1570` (closure_arity): the code generator accepts closures of up to 15
   arguments (`Newspeak2PrimordialSoupCompilation.ns:223`), of whose number the
   interpreter takes three bits: a closure of 8 becomes one of none.

Found by the configs above, outside the runs:

* `port.cc:56`: Rehash takes the remainder of the signed port, FindPort and
  CreatePort that of the unsigned one; half of all ports are negative.
* `primitives.cc:2903`, `heap.h:159`: an old object gets a class that is new
  without a write barrier, and the next scavenge may free the class (MCHeapAdopt).
* `large_integer.cc:801`, `:859`, `:1483`: shifts and NewFromShiftedInt64 cut their
  result with `set_size`; when the size does not fit the header, the next walk
  lands between two objects.
* `object.h:556`, `interpreter.cc:1633`: a method may need more temporaries and operands
  than an activation has room for; the size the compiler computes
  (`Intermediates.ns:48`) is never read.
* A timer's callback in the turn in which a stream's READ signal is queued may close
  the stream (`rawRead:` of nil) or fill the pipe (EAGAIN is taken for an error)
  (MCLoopEventsBeside).

Modelled, but nothing in the repository promises the contrary: a turn that
finishes after SIGINT stopped its loop overwrites the exit code with success; a
handler on another thread between `message_loop.cc:19` and `:26` leaves the loop
with a null isolate (`process = "crashed"`); Isolate::Spawn ignores a refused task; two
SIGINTs may make a thread wait for a monitor it holds; a writer that has nothing to
write keeps WRITE subscribed and its loop spins; streams clear their handle before
they look it up in `handleMap`, which therefore never shrinks; `every: 0` would
spin; become copies the identity hash with the header (`heap.cc:1125`).


## Not modelled

| Part | Why |
|---|---|
| Actors.ns but for its timers | sequential code of one isolate above the turns of Isolates; its hazards are listed in PROJECT.json |
| kqueue, IOCP, Fuchsia and Emscripten loops | the same queue and ports in other system calls |
| Snapshot, Serialization.ns | straight-line decoding of a file the build produces |
| Floats, clocks, access to parts of floats in byte arrays | the host's arithmetic |
| Virtual memory, OS layer, printing, helpers, double conversion | system calls or stateless code; monitors and threads appear as what they guarantee |
| Newspeak libraries, parser and the rest of the compiler | sequential code with tests of its own |


## Plan

1. **Activations**: the refinement to Contexts, an action at a time, from an invariant that
   relates frames, married objects and the history `contexts`.
2. **Actors**, with an abstract specification of eventual sends (per reference
   order, single resolution): the surplus of pendingActors entries that brings an
   actor back after an exception left its queue half drained, the order between
   actors, resolution cycles across actors, the current actor of timers and ports
   (a port's message and a timer's callback run as whichever actor was drained last,
   `Actors.ns:557`, against the comment at line 40).
