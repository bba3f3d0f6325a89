------------------------- MODULE ActiveObjectDomain -------------------------
(***************************************************************************)
(* A SingleThreadActiveObjectDomain: its queue, the worker thread in Run(),*)
(* the state machine objects (Hsm) registered with it, the threads that    *)
(* send them events and the owner that ends the domain.                    *)
(*                                                                         *)
(* The queue is module EventQueue.  What a state machine does with an      *)
(* event is module Statemachine; here a dispatched event is deferred or    *)
(* handled, and the actions of a handled event may send events and recall  *)
(* the deferred ones.                                                      *)
(***************************************************************************)
EXTENDS Naturals, Sequences, FiniteSets

CONSTANTS Producers,  \* threads that send events from outside the domain
          Objects,    \* the active objects
          Worker,     \* the thread in Run()
          Owner,      \* the thread that registers objects and ends the domain
          NoObject,   \* the null target of the entry that ends Run()
          MaxEvents,  \* bound of the model: events sent in a behaviour
          SemMax      \* range of the queue's semaphore

ASSUME ProducersAssumption == IsFiniteSet(Producers)
ASSUME NoObjectAssumption == NoObject \notin Objects
ASSUME MaxEventsAssumption == MaxEvents \in Nat
ASSUME SemMaxAssumption == SemMax \in Nat

Threads == Producers \cup {Worker, Owner}

(* An event is the number of its Take() or TakeHighPrio(): the order in    *)
(* which the calls inserted.  Event 0 is the null event of the end entry.  *)
Events == 1..MaxEvents

Entries == [target : Objects, event : Events] \cup {[target |-> NoObject, event |-> 0]}

EndEntry == [target |-> NoObject, event |-> 0]

VARIABLES queue, sem, op,  \* of the queue
          registered,      \* objects whose queue_ is set
          deferred,        \* deferred_events_ of each object
          wpc,             \* where the worker is in Run()
          entry,           \* Run()'s entry
          cursor,          \* RecallEvents(): deferred events still to be sent
          opc,             \* the owner: "up", "stopping", "joined"
          taken,           \* events sent so far
          urgent,          \* the events sent with TakeHighPrio()
          handled,         \* the events whose actions have run
          stopAt           \* taken when Stop() inserted the end entry

queueVars  == <<queue, sem, op>>
workerVars == <<wpc, entry, cursor, deferred, handled>>
sentVars   == <<taken, urgent>>
ownerVars  == <<registered, opc, stopAt>>
vars == <<queueVars, workerVars, sentVars, ownerVars>>

(* No more entries than events and the end entry are ever in the queue.    *)
Q == INSTANCE EventQueue WITH MaxLen <- MaxEvents + 1

Init ==
    /\ Q!Init
    /\ registered = {}
    /\ deferred = [o \in Objects |-> <<>>]
    /\ wpc = "dequeue"
    /\ entry = EndEntry
    /\ cursor = 0
    /\ opc = "up"
    /\ taken = 0 /\ urgent = {} /\ handled = {} /\ stopAt = 0

-----------------------------------------------------------------------------
(* ActiveObjectBase.  Both assert that the object is registered.           *)

Take(t, o) ==
    /\ o \in registered
    /\ taken < MaxEvents
    /\ Q!EnqueueBack(t, [target |-> o, event |-> taken + 1])
    /\ taken' = taken + 1
    /\ UNCHANGED <<urgent, workerVars, ownerVars>>

TakeHighPrio(t, o) ==
    /\ o \in registered
    /\ taken < MaxEvents
    /\ Q!EnqueueFront(t, [target |-> o, event |-> taken + 1])
    /\ taken' = taken + 1
    /\ urgent' = urgent \cup {taken + 1}
    /\ UNCHANGED <<workerVars, ownerVars>>

(* The second half of an enqueue, of any thread.                           *)
Release(t) ==
    /\ Q!Release(t)
    /\ UNCHANGED <<workerVars, sentVars, ownerVars>>

-----------------------------------------------------------------------------
(* The owner.                                                              *)

(* ActiveObjectBase; it asserts that the object has no queue yet.          *)
SetQueue(o) ==
    /\ o \notin registered
    /\ registered' = registered \cup {o}

(* RegisterObject().                                                       *)
Register(o) ==
    /\ opc = "up"
    /\ SetQueue(o)
    /\ UNCHANGED <<queueVars, workerVars, sentVars, opc, stopAt>>

Mutant_StopInFront ==   \* the end entry overtakes the events
    /\ opc = "up"
    /\ Q!EnqueueFront(Owner, EndEntry)
    /\ opc' = "stopping"
    /\ stopAt' = taken
    /\ UNCHANGED <<registered, workerVars, sentVars>>

Mutant_StopSilent ==   \* raises a flag and wakes nobody
    /\ opc = "up"
    /\ opc' = "stopping"
    /\ stopAt' = taken
    /\ UNCHANGED <<queueVars, registered, workerVars, sentVars>>

(* The destructor: Stop(), then thread_.join().                            *)
Stop ==
    /\ opc = "up"
    /\ Q!EnqueueBack(Owner, EndEntry)
    /\ opc' = "stopping"
    /\ stopAt' = taken
    /\ UNCHANGED <<registered, workerVars, sentVars>>

Join ==
    /\ opc = "stopping"
    /\ op[Owner] = "idle"
    /\ wpc = "exited"
    /\ opc' = "joined"
    /\ UNCHANGED <<queueVars, workerVars, sentVars, registered, stopAt>>

-----------------------------------------------------------------------------
(* The worker.                                                             *)

CallDequeue ==
    /\ wpc = "dequeue"
    /\ Q!CallDequeue(Worker)
    /\ UNCHANGED <<workerVars, sentVars, ownerVars>>

Acquire ==
    /\ Q!Acquire(Worker)
    /\ UNCHANGED <<workerVars, sentVars, ownerVars>>

Mutant_Dequeue ==   \* the null target is dispatched
    /\ Q!Dequeue(Worker)
    /\ entry' = Head(queue)
    /\ wpc' = "dispatch"
    /\ UNCHANGED <<cursor, deferred, handled, sentVars, ownerVars>>

(* The end of Dequeue() and Run()'s test for the null target.              *)
Dequeue ==
    /\ Q!Dequeue(Worker)
    /\ entry' = Head(queue)
    /\ wpc' = IF entry'.target = NoObject THEN "exited" ELSE "dispatch"
    /\ UNCHANGED <<cursor, deferred, handled, sentVars, ownerVars>>

(* Dispatch() when React() defers the event: no action runs.               *)
Defer ==
    /\ wpc = "dispatch"
    /\ deferred' = [deferred EXCEPT ![entry.target] = Append(@, entry.event)]
    /\ wpc' = "dequeue"
    /\ UNCHANGED <<queueVars, entry, cursor, handled, sentVars, ownerVars>>

(* Dispatch() when React() does not: the actions are about to run.         *)
Handle ==
    /\ wpc = "dispatch"
    /\ handled' = handled \cup {entry.event}
    /\ wpc' = "actions"
    /\ UNCHANGED <<queueVars, entry, cursor, deferred, sentVars, ownerVars>>

(* An action sends an event, to its own object or another.                 *)
Send(o) ==
    /\ wpc = "actions"
    /\ Take(Worker, o) \/ TakeHighPrio(Worker, o)

(* RecallEvents(): one TakeHighPrio() for each deferred event, the last    *)
(* deferred first, then clear().                                           *)
CallRecall ==
    /\ wpc = "actions"
    /\ op[Worker] = "idle"
    /\ deferred[entry.target] # <<>>
    /\ cursor' = Len(deferred[entry.target])
    /\ wpc' = "recall"
    /\ UNCHANGED <<queueVars, entry, deferred, handled, sentVars, ownerVars>>

Mutant_RecallOldestFirst ==   \* iterates forwards
    /\ wpc = "recall"
    /\ cursor > 0
    /\ LET all == deferred[entry.target]
       IN Q!EnqueueFront(Worker, [target |-> entry.target, event |-> all[Len(all) + 1 - cursor]])
    /\ cursor' = cursor - 1
    /\ UNCHANGED <<wpc, entry, deferred, handled, sentVars, ownerVars>>

RecallOne ==
    /\ wpc = "recall"
    /\ cursor > 0
    /\ Q!EnqueueFront(Worker, [target |-> entry.target, event |-> deferred[entry.target][cursor]])
    /\ cursor' = cursor - 1
    /\ UNCHANGED <<wpc, entry, deferred, handled, sentVars, ownerVars>>

Mutant_RecallDone ==   \* clear() forgotten
    /\ wpc = "recall"
    /\ cursor = 0
    /\ op[Worker] = "idle"
    /\ wpc' = "actions"
    /\ UNCHANGED <<queueVars, entry, cursor, deferred, handled, sentVars, ownerVars>>

RecallDone ==
    /\ wpc = "recall"
    /\ cursor = 0
    /\ op[Worker] = "idle"
    /\ deferred' = [deferred EXCEPT ![entry.target] = <<>>]
    /\ wpc' = "actions"
    /\ UNCHANGED <<queueVars, entry, cursor, handled, sentVars, ownerVars>>

(* React() returns, and Dispatch() with it.                                *)
Return ==
    /\ wpc = "actions"
    /\ op[Worker] = "idle"
    /\ wpc' = "dequeue"
    /\ UNCHANGED <<queueVars, entry, cursor, deferred, handled, sentVars, ownerVars>>

-----------------------------------------------------------------------------
Produce == \E p \in Producers, o \in Objects : Take(p, o) \/ TakeHighPrio(p, o)

WorkerNext ==
    \/ CallDequeue \/ Acquire \/ Dequeue
    \/ Defer \/ Handle \/ Return
    \/ \E o \in Objects : Send(o)
    \/ CallRecall \/ RecallOne \/ RecallDone
    \/ Release(Worker)

OwnerNext ==
    \/ \E o \in Objects : Register(o)
    \/ Stop \/ Join \/ Release(Owner)

Next ==
    \/ Produce
    \/ \E p \in Producers : Release(p)
    \/ WorkerNext
    \/ OwnerNext

(* The worker runs, its handlers and actions return, and a thread inside   *)
(* an enqueue or inside join() goes on.  Nobody has to send an event or to *)
(* end the domain.                                                         *)
Fairness ==
    /\ WF_vars(WorkerNext)
    /\ WF_vars(Join)
    /\ \A t \in Producers \cup {Owner} : WF_vars(Release(t))

SafeSpec == Init /\ [][Next]_vars

Spec == SafeSpec /\ Fairness

-----------------------------------------------------------------------------
(* Type invariant. *)
TypeOK ==
    /\ Q!TypeOK
    /\ registered \subseteq Objects
    /\ deferred \in [Objects -> Seq(Events)]
    /\ wpc \in {"dequeue", "dispatch", "actions", "recall", "exited"}
    /\ entry \in Entries
    /\ wpc \in {"dispatch", "actions", "recall"} => entry.target \in Objects
    /\ cursor \in Nat
    /\ wpc = "recall" => cursor <= Len(deferred[entry.target])
    /\ opc \in {"up", "stopping", "joined"}
    /\ taken \in 0..MaxEvents
    /\ urgent \subseteq Events /\ handled \subseteq Events
    /\ stopAt \in 0..MaxEvents

(* How many events of object o wait in its deferred_events_.               *)
Postponed(o) == IF wpc = "recall" /\ entry.target = o THEN cursor ELSE Len(deferred[o])

(* Where the events of object o wait, in the order in which they are to be *)
(* handled: 0 deferred, 1 being dispatched, 2 in the queue.                *)
Places(o) ==
    {<<0, i>> : i \in 1..Postponed(o)}
        \cup {p \in {<<1, 1>>} : wpc = "dispatch" /\ entry.target = o}
        \cup {<<2, i>> : i \in {i \in 1..Len(queue) : queue[i].target = o}}

EventAt(o, p) ==
    CASE p[1] = 0 -> deferred[o][p[2]]
      [] p[1] = 1 -> entry.event
      [] p[1] = 2 -> queue[p[2]].event

Before(p, q) == p[1] < q[1] \/ (p[1] = q[1] /\ p[2] < q[2])

(* The events of an object sent with Take() are pending in the order in    *)
(* which they were sent, at every instant: deferring them and recalling    *)
(* them, one EnqueueFront() after the other while other threads enqueue,   *)
(* brings none in front of an older one (RecallEvents iterates backwards). *)
ArrivalOrder ==
    \A o \in Objects : \A p, q \in Places(o) :
        (Before(p, q) /\ {EventAt(o, p), EventAt(o, q)} \cap urgent = {})
            => EventAt(o, p) < EventAt(o, q)

(* No event is lost and none is handled twice: every event sent waits in   *)
(* one place of one object or was handled, and nothing else waits.         *)
ExactlyOnce ==
    /\ \A e \in Events :
          (e <= taken /\ e \notin handled)
              <=> \E o \in Objects : \E p \in Places(o) : EventAt(o, p) = e
    /\ \A o1, o2 \in Objects : \A p \in Places(o1), q \in Places(o2) :
          EventAt(o1, p) = EventAt(o2, q) => o1 = o2 /\ p = q

(* Run() returns only after all the events sent before Stop() have been    *)
(* dispatched, those sent from actions and those recalled included.        *)
DrainBeforeExit ==
    wpc = "exited" => \A i \in 1..Len(queue) : queue[i].event > stopAt

(* A semaphore at the end of its range, as a binary one soon is, has lost  *)
(* a permit: then nothing is promised.                                     *)
PermitLost == ~Q!PermitsExact

(* The destructor ends: its join() returns.                                *)
StopTerminates == (opc = "stopping") ~> (opc = "joined" \/ PermitLost)

(* An event in the queue is dispatched, unless Run() has returned.         *)
EveryEventDispatched ==
    \A e \in Events :
        (\E i \in 1..Len(queue) : queue[i].event = e)
            ~> (wpc = "exited" \/ (entry.event = e /\ wpc = "dispatch") \/ PermitLost)
=============================================================================
