# Verification of cpp_event_framework

TLA+ models of the event framework and of its active objects, the TLC runs that
check them and the theorems TLAPS proves about them. The source is
`include/`: a hierarchical state machine (`cpp_event_framework`), and active
objects on top of it in two editions, one with `shared_ptr` and heap
(`cpp_active_objects`), one with raw pointers and static memory
(`cpp_active_objects_embedded`). Line numbers below refer to those headers.

## 1. Inventory

| component | state | operations | interacts with |
|---|---|---|---|
| `EventQueue` (implements `IEventQueue`) | `queue_` (list of target and event), `sem_`, `mutex_` | `EnqueueBack`, `EnqueueFront`, `Dequeue` | called by every sending thread and by the worker |
| `ActiveObjectBase` | `queue_` | `SetQueue`, `Take`, `TakeHighPrio` | inserts into the queue |
| `ActiveObjectDomainBase`, `SingleThreadActiveObjectDomain` | `queue_`, `thread_` | `RegisterObject`, `Run`, `Stop`, destructor (stop, join) | its thread dequeues and dispatches |
| `Hsm` | `fsm_`, `deferred_events_` | `Dispatch`, `DeferEvent`, `RecallEvents` | called back by the state machine; recalls through `TakeHighPrio` |
| `Statemachine` | `current_state_`, `working_`, `initial_` (history) | `Init`, `Start`, `React`, `RecallEvents`, `CurrentState` | calls the user's handlers and actions, and the defer and recall callbacks |
| `Statemachine::Transition`, `State` | target, action list | construction, assignment | returned by handlers |
| `StaticPool` | free list threaded through the elements, `fill_level_` | `do_allocate`, `do_deallocate`, `do_is_equal`, `FillLevel` | memory of signals and of the embedded queue's nodes |
| `Pool` | queue of free elements | the same | memory of signals |
| `Signal`, `SignalBase`, `NextSignal`, `CustomAllocator`, `SignalPoolElementSizeCalculator` | id; the allocator of a family of signals | `MakeShared`, `FromSignal`, `Check`, `SetAllocator` | allocate from a pool, are kept alive by queue entries, deferred events and handlers |
| `DemangledTypeName` | none, text operations at compile time | `GetDemangledTypeName` | names of signals |
| embedded edition | as above, list bounded by `NumEntries`, raw pointers | as above, and a destruction whose order no header imposes | the queue allocates its nodes from a `StaticPool` |
| `examples/activeobject` | a machine of two states in an active object | handlers, `SomeGuardFunction`, `CurrentState` | run by a domain in `test/ActiveObjectFramework_unittest.cxx` |

Hard behaviours, and what makes each component correct:

- **Queue.** Insert and `release()` are two steps, so are `acquire()` and pop;
  any thread runs in between. A pop must find an entry; a waiting thread must not
  wait while there is an entry for it; the semaphore has a range.
- **Domain.** One worker, any number of senders, an owner that stops the domain
  while events arrive. Per object, events are handled in the order they were sent
  unless they were sent with high priority; none is lost or doubled by deferral
  and recall; everything sent before the stop is dispatched; join returns.
- **State machine.** The path of exits and entries depends on the current state,
  the replying ancestor, the target and the history. Entry and exit actions
  alternate and nest, the active states between calls are the current state and
  its ancestors, history is the last active child, every call returns and leaves
  the machine ready; to the outside a call is one step of a statechart.
- **Transition objects.** One points into itself and is copied and assigned on
  its way from the handler to `React()`.
- **Pools.** The free list never hands out an element twice, the counter agrees
  with the list, exhaustion is noticed, blocks do not overlap.
- **Signals.** Ids tell the classes of a chain apart, events carry the id of their own
  class, and a pool outlives its events.
- **Embedded edition.** A bounded pool of nodes, a bounded pool of events, and
  raw pointers, so that everything depends on who lets go of what, and when.

`PROJECT.json` lists each hazard with its line and the properties that cover it.

## 2. Modules

| module | models |
|---|---|
| `BlockingDeque` | what `IEventQueue` promises: atomic deque operations, `Dequeue` waits while empty and no longer |
| `EventQueue` | `EventQueue.hxx`, split at mutex and semaphore; refines `BlockingDeque` |
| `ActiveObjectDomain` | domain, worker, objects, deferral; an instance of `EventQueue` is its queue |
| `EmbeddedDomain` | the embedded edition: bounded queue, event pool, owners of events, the end of all parts; on `EventQueue` |
| `Statemachine` | `Statemachine.hxx`, one step per user callback |
| `Statechart`, `StatechartRefinement` | the state machine whose calls are atomic, and that `Statemachine` implements it |
| `Deferral` | `Statemachine` in an active object with recalls in entry and exit actions; extends `Statemachine` |
| `TransitionObjects` | `Transition`: constructors, factories, copy, assignment, `ExecuteActions` |
| `ExampleActiveObject` | the example, composed of instances of `Statemachine` and `EventQueue` |
| `Allocator` | what a pool promises |
| `StaticPool`, `Pool` | the two pools; each refines `Allocator` |
| `PoolLayout` | sizes and distances of their elements, as operators |
| `Signals` | families of signals on pools; extends `TypeNames` |
| `TypeNames` | the text operations of `DemangledTypeName.hxx`, as operators |
| `EventMemory` | the pools, their layout and the signals, put together for one run |
| `MC...` | instances for TLC |
| `EventQueueProofs`, `ActiveObjectDomainProofs`, `EmbeddedDomainProofs`, `TransitionObjectsProofs`, `ExampleActiveObjectProofs` | theorems about the module of that name |
| `StatemachineProofs` | theorems about `Statemachine` and `StatechartRefinement` |
| `DeferralProofs` | theorems about `Deferral`; extends `StatemachineProofs` |
| `EventMemoryProofs` | theorems about `StaticPool`, `Pool`, `PoolLayout`, `Signals`, `TypeNames` and what `EventMemory` makes of them |

**EventQueue.** `queue`, `sem` are `queue_`, `sem_`. `op` says where each
thread is in a call: after the critical section of an enqueue and before
`release()` (`"release"`), in `acquire()` (`"acquire"`), or past it and before the
pop (`"pop"`). A critical section is one action, because every access to the list
is in one. `acquire()` and `release()` are the library's: `release()` on a counter
at its maximum is outside the standard's precondition, and `SemAfterRelease`
allows both outcomes libraries have (libstdc++ counts on, a two-valued
semaphore stays).

**ActiveObjectDomain.** `wpc` is the worker's place in `Run()`: in `Dequeue`,
about to dispatch, in the actions of a handled event, in the loop of
`RecallEvents()`, or returned. Each push of that loop is a step, so senders
interleave. An event is the number of its `Take`. Whether `React()` defers or
handles an event, and what its actions send and recall, is nondeterministic;
handlers only decide, actions act. The ghost variables `urgent`, `handled`,
`stopAt` remember what the properties speak about. `Places` are the positions where
events wait (the queue, `deferred_events_`, the worker's hands), `EventAt` and
`Before` their events and their order; `ArrivalOrder` and `ExactlyOnce` are about these.

**EmbeddedDomain.** Events are the elements of the event pool and go round for
ever, so nothing counts them. `Owned` collects the owners: the temporary of the
expression `x.Take(Event::MakeShared())` (`hand`), queue entries,
`deferred_events_`, and `Run()`'s `entry`. `Take` is three steps: make, insert,
drop. Whether an application uses `TakeHighPrio()` is chosen once
(`urgentSends`). `Stop` and `Join` are the domain's destructor (`opc`); `gone` are the
parts that have been destroyed. No header imposes an order on objects, domain, queue and
event pool, so the model has none of its own: what goes before what is a constant of the
application, `GoesAfter`, and each part may be destroyed in any order that this leaves. It
has two orders, for an application that waits before its scope ends until all it sent has
been handled (`Settled`), and for one that does not. `ScopesNest` says which
orders are sound: the queue outlives the domain always; without the wait the objects
outlive the domain, and the event pool outlives objects and queue. The repository's test
waits, and destroys object, domain, pool and queue in this order: this is one of the orders
of the run. The one thing the model asks beyond this is that producers have
quit before a part they have a raw pointer to is destroyed; the domain may be destroyed
while they go on.

**Statemachine.** A machine is given by constants (parents, initial states,
history states, the possible replies of each handler). `pc` is the place in
`Start()` or `React()`; each handler call, exit, transition action and entry is a
step. `path` is the set of states still to be entered from the common parent down
to the target; they are entered outermost first, which is the order of the code's
recursion. `LevelTransitions` says of a machine's constants that no handler asks for a
transition into or out of a composite state around the state where the machine rests, which is
what the machine needs to keep entries and exits paired. `FindCommonParent`'s double loop returns the innermost state that is
above (or is) both. The ghosts `entered` and `lastChild` count entries less exits
and remember the child entered last. `Start()` clears them: it forgets the active
states, and runs no exit action (the repository's test starts one machine twice).

**Statechart.** Its state is the resting state and the history; `React(e)` is one
step, defined from the sets of ancestors alone; `Rest` is the one state that
steps to the initial or remembered child lead to. `StatechartRefinement` adds to
`Statemachine` two variables that record both whenever a call returns; that step
is the step of the statechart, all others are stutters.

**Deferral.** Extends the state machine with the object's messages: `inbox`
(its entries in the queue), `deferred` with the state that deferred each,
and the loop of `Hsm::RecallEvents()` inside an entry or exit action
(`recalling`, `cursor`), between whose pushes other threads send. Which actions
recall is given by constants. `RecallsOnExit` and `DefersFirmly` are about
these constants: each state that defers recalls when it is left; it defers an event always, and
its substates leave the event to it.

**TransitionObjects.** Slots stand for the variable of the handler, its result
and the variable of `React()`. `actions_` is a span into a slot or into an
application's array; reading a span into a slot that is dead yields any action.

**ExampleActiveObject.** The owner constructs the object (which runs `Start()` in
its thread), registers it, and stops the domain; threads send `Go1`, `Go2`; the
worker runs the machine's steps. `sent` and `done` relate what `CurrentState()`
shows to the sequence of events: `StateAfter` is the one course of states that the events,
taken in the order of the queue, lead through.

**StaticPool.** `next` is the union's link of each element: the holder of an
element may overwrite it (`Use`) with anything (`Junk`). A critical section is
one action per assignment, and the mutex is a variable that the calls wait for, so that
it is the lock and not the model that keeps calls apart, and what `FillLevel()`
reads without it is visible. `do_deallocate` takes any held element from any
thread. **Pool** has a `std::queue` inside the critical section and needs one
action per call. `PoolLayout` is the arithmetic of both, in bytes.

**Signals.** `kId` and `UsesCustom` follow the chain of `NextSignal`. `Args` is the list
given to the pool size calculator, by hand, and may lack classes: then `MakeShared()` of
one that does not fit fails the pool's assertion, which is a guard here. Events carry
the id and the memory resource they were made with, by plain pointer; a pool
exists while the application or `shared_allocator` holds it, and the application
may let go of one at any time unless it gave it away by plain pointer.
**TypeNames.** A text is a sequence of words; positions are `size_t`, so `find`
that fails and one more is 0.

**EventMemory.** Pools and signals share no variable. A behaviour is about one of
them (`part`), which keeps their state spaces apart; signals rely on `Allocator`
only. `BlocksSound` relates `PoolLayout` to what is handed out, for every element size and
`Alignment`, and says for each of its parts which of them it is true for;
`AdmittedBlocksApart` is the part the code gets wrong. `TextAsExpected` states what a
compiler's text must be, `IdsApart` what an application's ids must be for all
classes, and not only those of a chain, to be told apart.

## 3. Runs

| run | checks | bounds |
|---|---|---|
| `queue_counting` | exact accounting of permits, no pop of an empty list, no stranded waiter, refinement of `BlockingDeque` with its liveness | 3 threads, 2 entries, 3 in the queue, semaphore of range 3 |
| `queue_binary_lost_wakeup` | **violated**: `NoStrandedWaiter` with range 1 | as the first |
| `domain` | order, exactly-once, drain before exit; join returns and queued events are dispatched, or a permit was lost | 1 sender, 2 objects, 3 events, and the worker's own sends; range 1 |
| `machine_tree` | balance and nesting of entries and exits, history, readiness, return of calls, refinement of `Statechart` | 9 states, 3 levels, 2 history states one inside the other, a composite without initial state; all replies |
| `machine_traffic_light` | messages under deferral and recall: none lost, doubled or overtaken by one of its kind, none deferred by a state that was left | the test's 6 states and 6 events, 6 messages |
| `machine_self_of_composite` | **violated**: `EntryExitAlternate` | the traffic light with one more self transition |
| `machine_into_substate` | **violated**: `ParentsActive` | the tree with one more transition |
| `transition_objects` | the actions that run are those the handler asked for | 1 target, 2 actions, lists of 0 to 2 actions, 3 levels |
| `event_memory` | free list, counter, layout, elements handed out once (refinement of `Allocator` by both pools); casts in a chain, pool life and names of signals | 2 threads, 4 elements, element sizes 1 to 33, alignments 1, 4, 8, 16, 32; 6 signal classes in two chains, 2 pools of 2, 3 events |
| `static_pool_alignment` | **violated**: `AdmittedBlocksApart` | as the first |
| `embedded_domain` | nodes suffice, nothing that was destroyed is used; the destructor returns and events return, or a permit was lost | 1 producer, 2 objects, 3 events for ever, 4 nodes; every order of the end in which the scopes nest; range 1 |
| `example_active_object` | what `CurrentState()` shows, and that the object settles | 2 senders, 4 events; range 5, as wide as the queue can get |

The range is that of the queue's semaphore. With the default range of 1 a library may
lose a permit, after which nothing need happen any more: there the liveness properties
promise what they say *or* that a permit was lost (`PermitLost`, the negation of the
queue's `PermitsExact`). So they cover each run in which the semaphore happened to suffice,
and that it need not is shown by `queue_binary_lost_wakeup` alone. `Settles` is
checked with a semaphore that can count every entry.

Why the bounds are enough. Queue: any two of the three two-step operations can be
in progress while a third thread takes part, the queue can hold more entries than
a binary semaphore can count, and front and back inserts are distinguishable.
Domain: an object can have two deferred events while a third is handled and
recalls them, or one, and another arrives between the push and the `clear()`; the other
object's events stand between, and the safety properties are proved for any number of events;
the traffic light has six. Tree: every relation of source, replying ancestor and target
occurs (siblings, cousins, self, into and out of one or two levels, history of
history) except transitions between a resting state and its own ancestor or
substate, which is what the two violation runs are about. Traffic light: with six
messages two of one kind can be deferred, recalled, deferred again and recalled
while a third arrives and the machine goes round once. Pools: with four
elements two threads can be inside calls while others are held, free and in any order of
the list; the pool can be empty and full. The sizes go through all remainders of
the alignments, which lie below, at and above a word and the alignment of `operator new`. Signals: a chain that inherits its allocator, one that does not,
three events on two pools. Embedded: an object can defer two events that are
recalled while the third is under way, and the queue fills to its last node; the end may
begin in the middle of it, or after the wait.
Example: the machine goes round twice. The signals are those of
`test/Events_unittest.cxx` with the ids they have there, which meet at 3: `CastSound` is
about the classes of one chain (see Divergences). No run uses symmetry.

`CHECK_DEADLOCK FALSE` is set for the queue, where all threads may wait in
`Dequeue()`, for the domains and the example, which end, for the deferring machine, whose
messages are bounded, and for the event memory, where an allocation from an empty pool
ends the program.

### Fairness

The queue: a thread inside a call goes on, that is, weak fairness of the steps
after its first; nobody is obliged to call. The domains and the example: the worker
thread runs and the user's handlers and actions return; a thread inside an enqueue
or `join()` goes on, and in `EmbeddedDomain` a producer that holds an event
finishes the expression. Nobody has to send or to stop. In `ActiveObjectDomain` the number of
events is bounded (`MaxEvents`): without a bound, senders that keep using
`TakeHighPrio()` keep the end entry from the front of the queue for ever, and
`StopTerminates` is false. `EmbeddedDomain` has no such bound: there the same
property, and `EventsReturn`, are stated for applications that do not use
`TakeHighPrio()`, and then hold although others never stop sending; that an object which
keeps sending to the front keeps the destructor from returning is not caught by either
(see Divergences). The state
machine: the callbacks of a running call return.

### Findings

1. `EventQueue.hxx:33` (and the embedded edition): the semaphore is a counting
   one by its use and a binary one by its default type.
2. `Statemachine.hxx:795`: a self transition of a composite state, taken while a
   substate is current, enters the state without having exited it.
3. `Statemachine.hxx:797`: a transition from a composite state without initial
   state to its substate exits the composite and does not enter it again.
4. `StaticPool.hxx:44`: with an `Alignment` below 8 the words of an element may be fewer than
   its bytes, and a block that `do_allocate()` admits (83) reaches into the next element. With
   an `Alignment` above 8 the array is still aligned to 8 only (49); `BlocksSound` promises
   alignment where that of the memory is a multiple of the one asked for.

The state machine findings are reproduced by compiling a machine of two states
with an entry and exit logger, the last one by compiling a
`StaticPool<2, 9, std::mutex, DefaultAssertionProvider, 4>`, whose assertion admits 12 bytes
and whose two blocks are 8 bytes apart.

### Divergences

Seen while modelling, and left to this list: each is a single line that goes
wrong by itself, and a model of it would only repeat it. The models stay on the
side where the code works, or say what an application must do for it to work.

- `README.md:398-409` recalls deferred events by calling `React()` from
  `on_recall_deferred_events_`, which an entry action runs. That is a `React()`
  inside `React()`, and the assertion of `Statemachine.hxx:525` ends the program.
  `Hsm` does it right, by `TakeHighPrio()`, and that is what the modules model.
- `Statemachine.hxx:508-515`: `Start()` does not set `working_`. An entry action
  of an initial state that calls `React()` passes both assertions while the
  current state is `kInTransition`, whose handler is null.
- `Statemachine.hxx:636`, "Defer event until state is exited": leaving the state
  recalls nothing. `DeferredUntilExit` holds for machines whose exit or entry
  actions recall.
- `Pool.hxx:114`: `FillLevel()` computes the size of a `std::queue` without the
  mutex; while another thread allocates it can return a number near 2^64.
- `Pool.hxx:104`, `StaticPool.hxx:113`: `do_is_equal()` compares with `==`, which
  for two different resources calls `do_is_equal()` again, without end. Assigning
  containers between two pools does this.
- `test/Events_unittest.cxx:51-65`: the first ids of the test's two chains are chosen by
  hand and meet at 3 (asserted at 92), so that `FromSignal()` (`Signal.hxx:213`) of
  `PooledSimpleTestEvent` accepts a `TestEventWithBaseClass` and casts it. What the
  library can promise is about one chain, and that is what `CastSound` says;
  `CastsAreToTheClass` says what the ids of chains must be for more.
- `README.md:164`: the list of a pool's signals "must contain ALL signals", and is written
  by hand. One that is missing is noticed by the pool's assertion if it is larger than
  the elements. No property says that a list is complete.
- `test/ActiveObjectFrameworkEmbedded_unittest.cxx:40-66`: the queue, the event pool, the domain
  and the object are declared in this order, so the object is destroyed before the worker
  is stopped and joined, and the event pool before the queue. This is sound only because the
  test sleeps before until all it sent has been handled (`Settled`); without the sleep the
  worker may call an object that is gone, and the queue return events to a
  pool that is gone. No header and no document says in which order to destroy the parts.
- `ActiveObjectBase.hxx:58` and its embedded twin: an object that keeps sending itself urgent
  events, or a thread that does, keeps the end entry of `Stop()` behind them, and the
  destructor in `join()`, for ever.
- `Statemachine.hxx:602`: `current_state_` is a plain pointer, written by the worker and read
  by other threads through `CurrentState()`. The models read and write it in one step;
  what else a data race may yield is not covered.
- `cpp_active_objects_embedded/ActiveObjectBase.hxx:48-56`: the comment of
  `TakeHighPrio()` says "Enqueue (back)", the code inserts at the front.
- `DemangledTypeName.hxx:50`: with MSVC the code looks for `type_name_array<`; the
  function's name is `TypeNameArray`. The search fails, `kStart` is 15 by wrap-around, the
  `static_assert` passes, and names begin there. The run is about the text of GCC.

## 4. Proofs

TLAPS checks each theorem to its last leaf, for every value of the constants
that the `ASSUME`s of the modules admit. Each safety property of a passing run is a
theorem. Where one holds only of some applications, the theorem has a named hypothesis
about the constants, and TLC evaluates that hypothesis on the instance
of the run (the `ASSUME`s of the `MC` modules; `IdsApart` is the exception, because the ids
of the test, which are those of the run, are not apart):

| hypothesis | what it asks of the application | theorems that need it |
|---|---|---|
| `WideSemaphore` | the semaphore counts as many permits as there can be entries | `PermitsAreExact`, `NoWaiterIsStranded` (`queue_binary_lost_wakeup` shows why) |
| `LevelTransitions` | no transition into or out of a composite around the resting state | those about entries, exits and history (`machine_self_of_composite` and `machine_into_substate` show why) |
| `RecallsOnExit` | states that defer recall when they are left | `DeferredWhileActive`, `HandledAsSent` |
| `DefersFirmly` | a state that defers an event always does, and its substates leave it the event | `HandledAsSent` |
| `ScopesNest` | the embedded parts are destroyed in an order in which none is used after it | those of `EmbeddedDomainProofs` |
| `EnoughNodes` | the embedded queue has more nodes than there are events | `NodesAlwaysSuffice` |
| `IdsApart` | ids of different signal classes differ | `CastsAreToTheClass` (not `CastsAreWithinTheClass`, which is what the run checks) |
| `TextAsExpected` | the compiler's text has the prefix and the suffix where the code looks | `NamesAreOfTheClass` |

All other theorems hold without a hypothesis. The arguments, by component:

**EventQueue.** For any finite set of threads, any entries, any bound of the length and any
range of the semaphore. The inductive invariant is `TypeOK /\ PermitsCovered`: there are at
least as many entries as permits, given and held. `Tail` in `Dequeue` keeps the type only if
the list is not empty, which only the accounting says, so neither part is inductive alone.
`GotoCounts` turns a thread's move between two places of a call into the change of two
cardinalities; `StepEffect` shows that a step leaves `Surplus`, the entries without a
permit, as it is, except a `release()` beyond the range, which may raise it by one.
With a wide semaphore that exception does not occur, and permits are exact.
`RefinesDeque` is `SafeSpec => Promise!SafeSpec`, step by step; without `PopHasEntry`
the pop would not be a step of the deque. `PermitsCovered` is no property of a run: where
the semaphore counts every entry it follows from `PermitsExact`, for every other range
it is proved.

**ActiveObjectDomain.** `QueueUndisturbed` shows that the domain's queue is an
`EventQueue`, so that its invariant can be used. The first invariant, `IInv`, is that of the
queue, `TypeOK`, that the worker is inside `Dequeue()` only where `Run()` calls it
(`InCall`), and that behind the end entry there is nothing sent before the stop
(`EndIsLast`), which gives `DrainBeforeExit`. On top of it `WaitInv` says that the unhandled
events are those that wait in some place (`AllWaiting`), each in one, older ones of an object in front
of younger ones. Its proof (`Moved`) does not look at the lists: a step takes each place
to a place of the same event, keeps the order of each two, and adds or removes at most one. There
the two hard steps are a push of `RecallEvents()`, which takes an event from behind the others
of `deferred_events_` to the front of the queue while new ones come in at its back, and the
dispatch.

**Statemachine.** For any finite tree of states, any nesting of history states and any
replies. `ControlInv` says at each place in the code how `s`, `top`, `target`, `path` and
the history relate; it is inductive by itself and yields `TypeCorrect` and
`ReadyAfterEachCall`. `PairingInv` adds which states are active at each place: between
calls the current state and its ancestors, on the way out those from `s`, on the way in those
above the remaining `path`. It is inductive if transitions are level. `MemoryInv` adds that
an active state is the last child of its parent, from which the history follows.

`RefinesStatechart` is proved without `LevelTransitions`. `CallInv` relates the variables
inside a call to the state the call began in: the states asked lie on the way up from the resting
state (`AskedFor`), the history is that of the beginning overwritten by the states left so far
(`Remembering`), and the state the call goes to is the reply or a start state
(`GoesTo`), from which children lead to the present target. `Rest` is a `CHOOSE`; that there is
exactly one such state rests on `TreeInduction`, what holds of a state whenever it holds of
its parent holds of all, which is shown by a least counterexample. `RecordingOnlyWatches` shows that the two
recording variables constrain nothing.

**Deferral.** The steps are those of the state machine and the object's own. `BaseInv`
(`ControlInv` and the types of the lists) and `CountInv`, which counts the occurrences of
each number in the inbox, the deferred list, the handled list and the hand, give `NoMessageIsLost` for every
machine, level or not. `DeferredWhileActive` needs `PairingInv` in addition: a state
that deferred something is active until its exit action has recalled it, so what is deferred outside a
recall was deferred by an active state. `HandledAsSent` needs `OrderInv`: handled,
deferred, held and waiting messages of a kind are in the order in which they were sent. A
message handled while an older one of its kind is deferred would break it. The state that
deferred the older one is still active then, and `AskedInv` says that `React()`, which asks
upwards, does not get past it: it defers this one, too.

**TransitionObjects.** `Carried` says at each place that the slot in use (the handler's
variable, its result, the variable of `React()`) holds a transition together with the actions
it was asked for, each as one of the constructors leaves it, or as the assignment does. It holds for any targets, any actions and any depth.

**StaticPool and Pool.** `Locked`: the thread that the mutex names is the one inside a call.
`Places`: what it works on is in nobody's hands. With them `FreeListIntact`, whose
witness is one sequence that loses its head or gains one, and `FillLevelTracks`, are
inductive, whatever holders write into their elements (`Use`). Allocation steps are then
steps of `Allocator`. `Pool` needs that each free element waits once (`WaitsOnce`).
`BlocksDoNotOverlap` is arithmetic about sizes and distances with division and remainder, for
any element size and any `Alignment`: multiples of a multiple are multiples (`MultiplesDivide`),
which with `ElementsOfWords` gives the alignment. `AdmittedFitsOnlyWholeWords` shows that the condition
in `BlocksSound` is exact: an element holds the largest block the assertion admits if
and only if that is a number of whole words, or less than a word.

**Signals, EventMemory.** `Owners`: the resource that is set is the shared one or one
given away by plain pointer, which is never let go; an event out of a pool is out of the one
that is set, and of a class that uses it. `PartsUndisturbed` shows that a behaviour of the composed module is one
of each part, so that the theorems of the parts carry over. Ids are a recursive function along the
chain of a family; that there is one, and that its values are what `CastSound` and the types
need, is shown by induction on the order of declaration (`IdsExist`, `IdLaw`), with the
induction theorem about sets of numbers. Along a chain ids only grow
(`LaterIdsAreGreater`), which separates the classes of one chain whatever its first id is.

**EmbeddedDomain.** `IInv` is the invariant of the queue as long as it exists,
the types, the places inside calls (`InCall`, `CallsDone`), what each place of the owner implies
about those that must have stopped (`OwnerOrder`) or gone (`Ending`), and `Apart`: an event that was sent
is in one entry, one `deferred_events_` or `Run()`'s `entry`, and one that a thread has made and
not yet sent is in none. `Apart` makes entries with a target no more than events, hence
`NodesAlwaysSuffice`. `NothingIsLeftDangling` is about every order that `ScopesNest` admits. In an end
without a wait the domain is joined before objects or queue go (`EndsInOrder`), and with an
empty queue, empty objects and a worker that has returned there is no owner left. In one
after a wait everything was calm when it began, and stays so (`Calm`): nobody is left to make an
event (`NobodySends`), no step makes a new owner (`OwnedShrinks`), and the one entry the worker still
meets is the end entry.

**ExampleActiveObject.** The instances of queue and machine bring their invariants.
`PlaceInv`: the queue holds the events sent and not yet dispatched, in order, and the
end entry. `Related`: there is a course of states that the machine follows, its
current state being a member of it or `kInTransition`. `OneCourse`: there is only one
(two would have a first difference), and it is `StateAfter`.

Assumptions worth knowing: sets of threads, states and events are finite; a chain of signals
has an end (`ChainAssumption`); a failed assertion is a step that does not exist, so that an event
larger than its pool's elements, a node too many or an allocation from an empty pool
ends the behaviour.

Only model-checked:

- liveness: `CallsReturn`, `StopTerminates`, `EveryEventDispatched`, `EventsReturn`,
  `Settles`, and the fairness part of `ImplementsDeque`, of which `RefinesDeque` is the
  safety part. Temporal logic with fairness needs `ENABLED`, which TLAPS does not
  handle;
- what the four violation runs show.

## 5. Not modelled, and the plan

Not modelled:

- Callbacks that call `React()` or `Start()` inside a call (assertions forbid the
  first; the list above says what the second does), and copying and moving of
  machines, which copies the members.
- `SetQueue()` racing with `Take()`, two domains on one queue: outside the
  contract that the assertions state.
- The owners of events in the heap edition after the domain has ended: entries
  that were sent too late keep object and queue alive. `DrainBeforeExit` says which they are.
- In `EmbeddedDomain` each event is sent once; an object that forwards the event
  it was given makes two entries of one event, and then `NumEntries` must exceed
  the entries, not the events.
- An event made before its allocator was set: nothing in the code looks.
- `FillLevel()` of `Pool` and both `do_is_equal()`: they change nothing.
- Concepts and the assertion provider (a failed assertion is a step that does not
  exist in the models), interfaces without code, logging callbacks and stream
  operators, and the examples that drive the modelled machine of two states by
  two calls.

Plan:

1. The safety half of the liveness properties: that no place in a call is a dead end
   (each has a step that is enabled by what the invariants say), which leaves to TLC only
   that steps taken fairly arrive.
2. The embedded queue as an `EventQueue`, as `QueueUndisturbed` says of the other
   edition, until it is destroyed.
3. `HandledAsSent` under a weaker hypothesis than `DefersFirmly`: it is enough that
   no handler below handles what a state above it may have deferred.
4. Shorter proofs where two modules prove the same fact about sequences.
