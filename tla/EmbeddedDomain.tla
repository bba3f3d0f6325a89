--------------------------- MODULE EmbeddedDomain ---------------------------
(***************************************************************************)
(* The embedded edition of a domain: active objects are raw pointers, the  *)
(* queue's nodes come from a pool of NumEntries and the events from a pool *)
(* of their own, to which each returns when its last owner lets go of it.  *)
(* An event is owned by the expression that made it, by queue entries, by  *)
(* deferred_events_ and by the entry Run() is working on.                  *)
(*                                                                         *)
(* Traffic is unbounded: the events of the pool are used again and again.  *)
(* In the end the application destroys the objects, the domain, the queue  *)
(* and the event pool, in an order that is its own: no header imposes one. *)
(***************************************************************************)
EXTENDS Naturals, Sequences, FiniteSets

CONSTANTS Producers,   \* threads that send events from outside the domain
          Objects,     \* the active objects
          Worker,      \* the thread in Run()
          Owner,       \* the thread that registers objects and ends everything
          NoObject,    \* nullptr
          Events,      \* the elements of the event pool
          NoEvent,     \* nullptr
          NumEntries,  \* the queue's template argument
          GoesAfter,   \* the parts the application destroys before each part,
                       \* in an end it waited for and in one it did not
          SemMax       \* range of the queue's semaphore

ASSUME ThreadsAssumption ==
    /\ IsFiniteSet(Producers)
    /\ Worker \notin Producers /\ Owner \notin Producers /\ Worker # Owner
ASSUME NoObjectAssumption == NoObject \notin Objects
ASSUME EventsAssumption == IsFiniteSet(Events) /\ NoEvent \notin Events
ASSUME NumEntriesAssumption == NumEntries \in Nat
ASSUME SemMaxAssumption == SemMax \in Nat

(* What the application owns.                                              *)
Parts == {"objects", "domain", "queue", "pool"}

ASSUME GoesAfterAssumption == GoesAfter \in [BOOLEAN -> [Parts -> SUBSET Parts]]

Threads == Producers \cup {Worker, Owner}
Entries == [target : Objects, event : Events] \cup {[target |-> NoObject, event |-> NoEvent]}
EndEntry == [target |-> NoObject, event |-> NoEvent]

VARIABLES queue, sem, op,  \* of the queue
          registered,      \* objects whose queue_ is set
          deferred,        \* deferred_events_ of each object
          wpc,             \* where the worker is in Run()
          entry,           \* Run()'s entry
          cursor,          \* RecallEvents(): deferred events still to be sent
          hand,            \* the event a thread made and passes to Take()
          sent,            \* whether it has been passed
          quit,            \* the producers that will not send any more
          opc,             \* the domain: "up", "stopping", "joined"
          gone,            \* the parts that have been destroyed
          waited,          \* whether the application waited before it began
          urgentSends      \* whether the application calls TakeHighPrio()

queueVars  == <<queue, sem, op>>
workerVars == <<wpc, entry, cursor, deferred>>
handVars   == <<hand, sent>>
ownerVars  == <<registered, quit, opc, gone, waited, urgentSends>>
vars == <<queueVars, workerVars, handVars, ownerVars>>

(* memory_pool_ has a node for each entry: with all in use do_allocate()   *)
(* fails its assertion.                                                    *)
Q == INSTANCE EventQueue WITH MaxLen <- NumEntries

Init ==
    /\ Q!Init
    /\ registered = {}
    /\ deferred = [o \in Objects |-> <<>>]
    /\ wpc = "dequeue" /\ entry = EndEntry /\ cursor = 0
    /\ hand = [t \in Threads |-> NoEvent]
    /\ sent = [t \in Threads |-> FALSE]
    /\ quit = {}
    /\ opc = "up" /\ gone = {} /\ waited = FALSE
    /\ urgentSends \in BOOLEAN

-----------------------------------------------------------------------------
(* The owners of an event; the pool has it back when there are none.       *)

QueuedEvents == {queue[i].event : i \in 1..Len(queue)}
DeferredEvents(o) == {deferred[o][i] : i \in 1..Len(deferred[o])}
Owned ==
    {e \in Events :
        \/ e \in QueuedEvents
        \/ \E o \in Objects : e \in DeferredEvents(o)
        \/ \E t \in Threads : e = hand[t]
        \/ e = entry.event}

-----------------------------------------------------------------------------
(* x.Take(Event::MakeShared()) by thread t, step by step.                  *)

(* MakeShared(); an empty event pool fails its assertion.                  *)
Make(t, e) ==
    /\ registered # {}
    /\ hand[t] = NoEvent
    /\ op[t] = "idle"
    /\ e \notin Owned
    /\ hand' = [hand EXCEPT ![t] = e]
    /\ UNCHANGED <<sent, queueVars, workerVars, ownerVars>>

Passes(t) ==
    /\ hand[t] # NoEvent /\ ~sent[t]
    /\ sent' = [sent EXCEPT ![t] = TRUE]

(* ActiveObjectBase; both assert that the object has a queue.              *)
Take(t, o) ==
    /\ o \in registered
    /\ Passes(t)
    /\ Q!EnqueueBack(t, [target |-> o, event |-> hand[t]])
    /\ UNCHANGED <<hand, workerVars, ownerVars>>

TakeHighPrio(t, o) ==
    /\ o \in registered
    /\ urgentSends
    /\ Passes(t)
    /\ Q!EnqueueFront(t, [target |-> o, event |-> hand[t]])
    /\ UNCHANGED <<hand, workerVars, ownerVars>>

(* The second half of any enqueue.                                         *)
Release(t) ==
    /\ Q!Release(t)
    /\ UNCHANGED <<workerVars, handVars, ownerVars>>

(* The temporary shared pointer is destroyed.                              *)
Drop(t) ==
    /\ sent[t]
    /\ op[t] = "idle"
    /\ hand' = [hand EXCEPT ![t] = NoEvent]
    /\ sent' = [sent EXCEPT ![t] = FALSE]
    /\ UNCHANGED <<queueVars, workerVars, ownerVars>>

-----------------------------------------------------------------------------
(* The worker.                                                             *)

CallDequeue ==
    /\ wpc = "dequeue"
    /\ Q!CallDequeue(Worker)
    /\ UNCHANGED <<workerVars, handVars, ownerVars>>

Acquire ==
    /\ Q!Acquire(Worker)
    /\ UNCHANGED <<workerVars, handVars, ownerVars>>

(* The node goes back to its pool; the entry is moved out of it.           *)
Dequeue ==
    /\ Q!Dequeue(Worker)
    /\ entry' = Head(queue)
    /\ wpc' = IF entry'.target = NoObject THEN "exited" ELSE "dispatch"
    /\ UNCHANGED <<cursor, deferred, handVars, ownerVars>>

(* entry is a variable of the loop's body: the end of the body releases it.*)
EndIteration == wpc' = "dequeue" /\ entry' = EndEntry

Defer ==
    /\ wpc = "dispatch"
    /\ deferred' = [deferred EXCEPT ![entry.target] = Append(@, entry.event)]
    /\ EndIteration
    /\ UNCHANGED <<cursor, queueVars, handVars, ownerVars>>

Handle ==
    /\ wpc = "dispatch"
    /\ wpc' = "actions"
    /\ UNCHANGED <<entry, cursor, deferred, queueVars, handVars, ownerVars>>

CallRecall ==
    /\ wpc = "actions"
    /\ op[Worker] = "idle" /\ hand[Worker] = NoEvent
    /\ deferred[entry.target] # <<>>
    /\ cursor' = Len(deferred[entry.target])
    /\ wpc' = "recall"
    /\ UNCHANGED <<entry, deferred, queueVars, handVars, ownerVars>>

RecallOne ==
    /\ wpc = "recall"
    /\ cursor > 0
    /\ Q!EnqueueFront(Worker, [target |-> entry.target, event |-> deferred[entry.target][cursor]])
    /\ cursor' = cursor - 1
    /\ UNCHANGED <<wpc, entry, deferred, handVars, ownerVars>>

Mutant_RecallDone ==   \* clear() forgotten
    /\ wpc = "recall"
    /\ cursor = 0
    /\ op[Worker] = "idle"
    /\ wpc' = "actions"
    /\ UNCHANGED <<entry, cursor, deferred, queueVars, handVars, ownerVars>>

RecallDone ==
    /\ wpc = "recall"
    /\ cursor = 0
    /\ op[Worker] = "idle"
    /\ deferred' = [deferred EXCEPT ![entry.target] = <<>>]
    /\ wpc' = "actions"
    /\ UNCHANGED <<entry, cursor, queueVars, handVars, ownerVars>>

Mutant_Return ==   \* entry outlives the loop's body
    /\ wpc = "actions"
    /\ op[Worker] = "idle" /\ hand[Worker] = NoEvent
    /\ wpc' = "dequeue"
    /\ UNCHANGED <<entry, cursor, deferred, queueVars, handVars, ownerVars>>

Return ==
    /\ wpc = "actions"
    /\ op[Worker] = "idle" /\ hand[Worker] = NoEvent
    /\ EndIteration
    /\ UNCHANGED <<cursor, deferred, queueVars, handVars, ownerVars>>

-----------------------------------------------------------------------------
(* The owner.                                                              *)

(* The application has begun to destroy its parts.                         *)
Begun == opc # "up" \/ gone # {}

(* ActiveObjectBase; it asserts that the object has no queue yet.          *)
SetQueue(o) ==
    /\ o \notin registered
    /\ registered' = registered \cup {o}

(* RegisterObject().                                                       *)
Register(o) ==
    /\ ~Begun
    /\ SetQueue(o)
    /\ UNCHANGED <<quit, opc, gone, waited, urgentSends, queueVars, workerVars, handVars>>

(* A producer that has finished its last call.                             *)
Quit(p) ==
    /\ p \notin quit
    /\ op[p] = "idle" /\ hand[p] = NoEvent
    /\ quit' = quit \cup {p}
    /\ UNCHANGED <<registered, opc, gone, waited, urgentSends, queueVars, workerVars, handVars>>

(* What the test's sleep before the end of its scope waits for: all that   *)
(* was sent has been handled, and Run() waits for more.                    *)
Settled == quit = Producers /\ Owned = {} /\ op[Worker] = "acquire"

(* The application destroys part x: after those its scopes put first, and  *)
(* except for the domain, which any thread may go on to send to, when the  *)
(* producers, who have pointers to the rest, have quit.                    *)
Ends(x) ==
    /\ opc # "stopping" /\ x \notin gone
    /\ \/ Begun /\ UNCHANGED waited
       \/ ~Begun /\ waited' = FALSE
       \/ ~Begun /\ Settled /\ waited' = TRUE
    /\ GoesAfter[waited'][x] \subseteq gone
    /\ x # "domain" => quit = Producers
    /\ UNCHANGED <<quit, urgentSends>>

Mutant_Stop ==   \* a flag in place of the entry
    /\ Ends("domain")
    /\ opc' = "stopping"
    /\ UNCHANGED <<registered, gone, queueVars, workerVars, handVars>>

(* The domain's destructor: Stop(), then thread_.join().                   *)
Stop ==
    /\ Ends("domain")
    /\ Q!EnqueueBack(Owner, EndEntry)
    /\ opc' = "stopping"
    /\ UNCHANGED <<registered, gone, workerVars, handVars>>

Mutant_Join ==   \* the thread is not joined
    /\ opc = "stopping" /\ opc' = "joined"
    /\ op[Owner] = "idle"
    /\ gone' = gone \cup {"domain"}
    /\ UNCHANGED <<registered, quit, waited, urgentSends, queueVars, workerVars, handVars>>

Join ==
    /\ opc = "stopping" /\ opc' = "joined"
    /\ op[Owner] = "idle"
    /\ wpc = "exited"
    /\ gone' = gone \cup {"domain"}
    /\ UNCHANGED <<registered, quit, waited, urgentSends, queueVars, workerVars, handVars>>

DestroyObjects ==
    /\ Ends("objects")
    /\ deferred' = [o \in Objects |-> <<>>]
    /\ registered' = {}
    /\ gone' = gone \cup {"objects"}
    /\ UNCHANGED <<opc, wpc, entry, cursor, queueVars, handVars>>

(* ~EventQueue(): the entries nobody will dequeue are released.            *)
DestroyQueue ==
    /\ Ends("queue")
    /\ queue' = <<>>
    /\ gone' = gone \cup {"queue"}
    /\ UNCHANGED <<registered, opc, sem, op, workerVars, handVars>>

DestroyPool ==
    /\ Ends("pool")
    /\ gone' = gone \cup {"pool"}
    /\ UNCHANGED <<registered, opc, queueVars, workerVars, handVars>>

-----------------------------------------------------------------------------
(* The rest of an expression whose MakeShared() has returned.              *)
Completes(t) == (\E o \in Objects : Take(t, o) \/ TakeHighPrio(t, o)) \/ Drop(t)

Sends(t) == (\E e \in Events : Make(t, e)) \/ Completes(t)

WorkerNext ==
    \/ CallDequeue \/ Acquire \/ Dequeue
    \/ Defer \/ Handle \/ Return
    \/ wpc = "actions" /\ Sends(Worker)
    \/ CallRecall \/ RecallOne \/ RecallDone
    \/ Release(Worker)

OwnerNext ==
    \/ \E o \in Objects : Register(o)
    \/ Stop \/ Release(Owner) \/ Join
    \/ DestroyObjects \/ DestroyQueue \/ DestroyPool

Next ==
    \/ \E p \in Producers : (p \notin quit /\ Sends(p)) \/ Release(p) \/ Quit(p)
    \/ WorkerNext
    \/ OwnerNext

SafeSpec == Init /\ [][Next]_vars

(* The worker runs and its actions return; a call on the queue goes on; a  *)
(* producer that holds an event finishes its expression.                   *)
Spec ==
    /\ SafeSpec
    /\ WF_vars(WorkerNext)
    /\ WF_vars(Join) /\ WF_vars(Release(Owner))
    /\ \A p \in Producers : WF_vars(Release(p)) /\ WF_vars(Completes(p))

-----------------------------------------------------------------------------
(* Type invariant. *)
TypeOK ==
    /\ Q!TypeOK
    /\ registered \subseteq Objects
    /\ deferred \in [Objects -> Seq(Events)]
    /\ wpc \in {"dequeue", "dispatch", "actions", "recall", "exited"}
    /\ entry \in Entries
    /\ wpc = "dequeue" => entry = EndEntry
    /\ wpc \in {"dispatch", "actions", "recall"} => entry.target \in Objects
    /\ cursor \in Nat
    /\ wpc = "recall" => cursor <= Len(deferred[entry.target])
    /\ hand \in [Threads -> Events \cup {NoEvent}]
    /\ sent \in [Threads -> BOOLEAN]
    /\ quit \subseteq Producers
    /\ opc \in {"up", "stopping", "joined"}
    /\ gone \subseteq Parts /\ waited \in BOOLEAN
    /\ urgentSends \in BOOLEAN

(* Threads whose next step takes a node of the queue's pool, and the       *)
(* owner, who may call Stop() at any instant.                              *)
WantsNode ==
    \/ \E t \in Threads : op[t] = "idle" /\ hand[t] # NoEvent /\ ~sent[t]
    \/ wpc = "recall" /\ cursor > 0 /\ op[Worker] = "idle"
    \/ opc = "up"

(* A queue has a node for each event and one for the end entry.            *)
EnoughNodes == NumEntries > Cardinality(Events)

(* A queue with one node more than there are events never runs out of      *)
(* nodes, whoever sends, defers and recalls: each event sent once is in    *)
(* one entry at most, and do_allocate()'s assertion cannot fail.           *)
NodesSuffice == WantsNode => Len(queue) < NumEntries

(* The scopes of an application: the queue outlives the domain; unless all *)
(* had settled before the end, the objects outlive the domain, and the     *)
(* event pool outlives the objects and the queue.                          *)
ScopesNest ==
    /\ \A w \in BOOLEAN : "domain" \in GoesAfter[w]["queue"]
    /\ "domain" \in GoesAfter[FALSE]["objects"]
    /\ {"objects", "queue"} \subseteq GoesAfter[FALSE]["pool"]

(* In an application whose scopes nest nobody uses what has been destroyed *)
(* (pointers are raw here): the worker no object that is gone, no thread   *)
(* the queue, and when the event pool is destroyed each event has been     *)
(* released, also those deferred and those that Run() left in the queue.   *)
NothingDangles ==
    /\ "objects" \in gone => wpc \notin {"dispatch", "actions", "recall"}
    /\ "queue" \in gone => wpc = "exited" /\ \A t \in Threads : op[t] = "idle"
    /\ "pool" \in gone => Owned = {}

(* A semaphore at the end of its range, as a binary one soon is, has lost  *)
(* a permit: then nothing is promised.                                     *)
PermitLost == ~Q!PermitsExact

(* The destructor returns although others send for ever, in an application *)
(* that calls Take() only: an object that keeps sending itself urgent      *)
(* events keeps the end entry of Stop() behind them.                       *)
StopTerminates == (opc = "stopping" /\ ~urgentSends) ~> (opc = "joined" \/ PermitLost)

(* An event in use comes back to the pool, unless an object defers it or   *)
(* Run() has returned; with urgent sends an event may wait behind others   *)
(* for ever.                                                               *)
EventsReturn ==
    \A e \in Events :
        (e \in Owned /\ ~urgentSends) ~>
            \/ e \notin Owned \/ wpc = "exited" \/ PermitLost
            \/ \E o \in Objects : e \in DeferredEvents(o)
=============================================================================
