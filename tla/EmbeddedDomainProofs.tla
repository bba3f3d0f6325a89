------------------------ MODULE EmbeddedDomainProofs ------------------------
(***************************************************************************)
(* Proofs about EmbeddedDomain, for any number of producers, active        *)
(* objects and events, any size of the queue, any semaphore, and any order *)
(* of the end in which the scopes nest.                                    *)
(*                                                                         *)
(* Apart says that an event that was sent once is in one place only: in an *)
(* expression that has not passed it yet, in one entry of the queue, in    *)
(* one deferred_events_, or in Run()'s entry.  OwnerOrder, Ending and      *)
(* CallsDone say what each step of the owner may rely on.                  *)
(***************************************************************************)
EXTENDS EmbeddedDomain, FiniteSetTheorems, SequenceTheorems, TLAPS

QP == INSTANCE EventQueueProofs WITH MaxLen <- NumEntries

(* After ~EventQueue() there is no queue any more.                         *)
NoQueue == "queue" \in gone

QueueInv == ~NoQueue => QP!IInv

(* What the domain needs of its queue: front() is called on an entry.      *)
QueueOK == Q!TypeOK /\ (op[Worker] = "pop" => queue # <<>>)

(* The worker is inside Dequeue() only where Run() calls it.               *)
InCall == op[Worker] \in {"acquire", "pop"} => wpc = "dequeue"

-----------------------------------------------------------------------------
OwnerOrder ==
    /\ opc = "up" => wpc # "exited" /\ \A i \in 1..Len(queue) : queue[i].target # NoObject
    /\ "domain" \in gone <=> opc = "joined"
    /\ opc = "joined" => wpc = "exited"
    /\ wpc = "exited" => entry = EndEntry
    /\ wpc # "actions" => hand[Worker] = NoEvent
    /\ hand[Owner] = NoEvent
    /\ \A p \in quit : hand[p] = NoEvent

(* What the wait before the end waited for stays so.                       *)
Calm == quit = Producers /\ Owned = {} /\ wpc \in {"dequeue", "exited"}

(* How far the end has come.                                               *)
Ending ==
    /\ \A x \in gone : x = "domain" \/ quit = Producers
    /\ NoQueue => opc = "joined" /\ queue = <<>>
    /\ "objects" \in gone =>
          /\ \A o \in Objects : deferred[o] = <<>>
          /\ waited \/ opc = "joined"
    /\ "pool" \in gone => waited \/ {"objects", "queue"} \subseteq gone
    /\ waited => Calm

(* Who is inside an operation of the queue.                                *)
CallsDone ==
    /\ op[Worker] = "release" => wpc \in {"actions", "recall"}
    /\ op[Owner] # "idle" => opc = "stopping"
    /\ \A p \in quit : op[p] = "idle"

(* A thread's expression owns its event alone until it passes it on.       *)
HandsApart ==
    /\ \A t \in Threads : sent[t] => hand[t] # NoEvent
    /\ \A t, u \in Threads : hand[t] = hand[u] /\ hand[t] # NoEvent => t = u

UnsentNowhere ==
    \A t \in Threads : hand[t] # NoEvent /\ ~sent[t] =>
        /\ hand[t] \notin QueuedEvents
        /\ \A o \in Objects : \A i \in 1..Len(deferred[o]) : deferred[o][i] # hand[t]
        /\ entry.event # hand[t]

QueueApart == \A i, j \in 1..Len(queue) : queue[i].event = queue[j].event => i = j

DeferredApart ==
    \A o, u \in Objects : \A i \in 1..Len(deferred[o]), j \in 1..Len(deferred[u]) :
        deferred[o][i] = deferred[u][j] => o = u /\ i = j

(* Of the object that recalls its events, those that are still to be sent. *)
QueueNotDeferred ==
    \A o \in Objects :
        \A j \in 1..(IF wpc = "recall" /\ entry.target = o THEN cursor ELSE Len(deferred[o])) :
            deferred[o][j] \notin QueuedEvents

EntryApart ==
    entry.event # NoEvent =>
        /\ entry.event \notin QueuedEvents
        /\ \A o \in Objects : \A i \in 1..Len(deferred[o]) : deferred[o][i] # entry.event

Apart ==
    /\ HandsApart /\ UnsentNowhere
    /\ QueueApart /\ DeferredApart /\ QueueNotDeferred /\ EntryApart

IInv ==
    /\ QueueInv /\ TypeOK /\ InCall
    /\ OwnerOrder /\ Ending /\ CallsDone
    /\ Apart

-----------------------------------------------------------------------------
(* The queue of the domain is an EventQueue, as long as it exists.         *)

LEMMA QueueAssumptions ==
    /\ IsFiniteSet(Threads) /\ QP!IsFiniteSet(Threads)
    /\ NumEntries \in Nat /\ SemMax \in Nat
    /\ Worker \in Threads /\ Owner \in Threads /\ Producers \subseteq Threads
<1>1. IsFiniteSet({Worker, Owner})
  <2>1. IsFiniteSet({Worker})
    BY FS_Singleton
  <2>2. {Worker, Owner} = {Worker} \cup {Owner}
    OBVIOUS
  <2> QED
    BY <2>1, <2>2, FS_AddElement
<1>2. IsFiniteSet(Threads)
  BY <1>1, ThreadsAssumption, FS_Union DEF Threads
<1>3. QP!IsFiniteSet(Threads)
  BY <1>2 DEF IsFiniteSet, QP!IsFiniteSet
<1> QED
  BY <1>2, <1>3, NumEntriesAssumption, SemMaxAssumption DEF Threads

LEMMA EntriesTyped ==
    /\ EndEntry \in Entries /\ EndEntry.event = NoEvent /\ EndEntry.target = NoObject
    /\ \A o \in Objects : \A e \in Events : [target |-> o, event |-> e] \in Entries
    /\ \A x \in Entries :
          /\ x.target \in Objects \cup {NoObject} /\ x.event \in Events \cup {NoEvent}
          /\ x.target \in Objects <=> x.event \in Events
          /\ x.target = NoObject <=> x.event = NoEvent
          /\ x.target = NoObject => x = EndEntry
    /\ NoObject \notin Objects /\ NoEvent \notin Events
BY NoObjectAssumption, EventsAssumption DEF Entries, EndEntry

(* What the worker recalls is one of its object's events.                  *)
LEMMA RecalledTyped ==
    ASSUME TypeOK, wpc = "recall", cursor > 0
    PROVE  /\ entry.target \in Objects /\ cursor \in 1..Len(deferred[entry.target])
           /\ deferred[entry.target][cursor] \in Events
           /\ [target |-> entry.target, event |-> deferred[entry.target][cursor]] \in Entries
<1>1. entry.target \in Objects /\ cursor \in 1..Len(deferred[entry.target])
  BY DEF TypeOK
<1>2. deferred[entry.target][cursor] \in Events
  BY <1>1, ElementOfSeq DEF TypeOK
<1> QED
  BY <1>1, <1>2, EntriesTyped

(* What a thread passes is an event.                                       *)
LEMMA PassedTyped ==
    ASSUME TypeOK, NEW t \in Threads, NEW o \in Objects, Passes(t)
    PROVE  hand[t] \in Events /\ [target |-> o, event |-> hand[t]] \in Entries
BY EntriesTyped DEF TypeOK, Passes

LEMMA QueueStep == TypeOK /\ [Next]_vars /\ ~DestroyQueue => [Q!Next]_Q!vars
<1> SUFFICES ASSUME TypeOK, [Next]_vars, ~DestroyQueue PROVE [Q!Next]_queueVars
  BY DEF queueVars, Q!vars
<1> USE QueueAssumptions
<1>1. ASSUME NEW t \in Threads, NEW o \in Objects, Take(t, o) \/ TakeHighPrio(t, o)
      PROVE  Q!Next
  BY <1>1, PassedTyped DEF Take, TakeHighPrio, Q!Next
<1>2. ASSUME NEW t \in Threads, Release(t) PROVE Q!Next
  BY <1>2 DEF Release, Q!Next
<1>3. ASSUME NEW t \in Threads, Sends(t) PROVE [Q!Next]_queueVars
  BY <1>1, <1>3 DEF Sends, Completes, Make, Drop
<1>5. CASE CallDequeue \/ Acquire \/ Dequeue
  BY <1>5 DEF CallDequeue, Acquire, Dequeue, Q!Next
<1>6. CASE RecallOne
  BY <1>6, RecalledTyped DEF RecallOne, Q!Next
<1>7. CASE Stop
  BY <1>7, EntriesTyped DEF Stop, Q!Next
<1>8. CASE \/ Defer \/ Handle \/ Return \/ CallRecall \/ RecallDone
           \/ (\E o \in Objects : Register(o)) \/ Join \/ (\E p \in Producers : Quit(p))
           \/ DestroyObjects \/ DestroyPool \/ UNCHANGED vars
  BY <1>8
  DEF Defer, Handle, Return, CallRecall, RecallDone, Register, Join, Quit, DestroyObjects,
      DestroyPool, vars
<1> QED
  BY <1>2, <1>3, <1>5, <1>6, <1>7, <1>8 DEF Next, WorkerNext, OwnerNext

LEMMA QueueNext == QP!IInv /\ [Q!Next]_Q!vars => QP!IInv'
<1>1. [Q!Next]_Q!vars => [QP!Next]_QP!vars
  BY DEF Q!Next, QP!Next, Q!vars, QP!vars, Q!EnqueueBack, QP!EnqueueBack, Q!EnqueueFront,
         QP!EnqueueFront, Q!Release, QP!Release, Q!CallDequeue, QP!CallDequeue, Q!Acquire,
         QP!Acquire, Q!Dequeue, QP!Dequeue, Q!Goto, QP!Goto, Q!SemAfterRelease,
         QP!SemAfterRelease
<1> QED
  BY <1>1, QP!NextIInv, QueueAssumptions

LEMMA QueueSound == QP!IInv => QueueOK
<1> SUFFICES ASSUME QP!IInv PROVE QueueOK
  OBVIOUS
<1>1. Q!TypeOK
  BY DEF QP!IInv, QP!TypeOK, Q!TypeOK, QP!OpStates, Q!OpStates
<1>2. ASSUME op[Worker] = "pop" PROVE queue # <<>>
  <2>1. QP!PopHasEntry
    BY QP!CoveredHasEntry, QueueAssumptions
  <2>2. Worker \in QP!InOp("pop")
    BY <1>2 DEF QP!InOp, Threads
  <2>3. \A S : QP!Cardinality(S) = Cardinality(S)
    BY DEF QP!Cardinality, Cardinality
  <2>4. IsFiniteSet(QP!InOp("pop"))
    BY QueueAssumptions, FS_Subset DEF QP!InOp
  <2>5. Cardinality(QP!InOp("pop")) # 0
    BY <2>2, <2>4, FS_EmptySet
  <2>6. Cardinality(QP!InOp("pop")) \in Nat
    BY <2>4, FS_CardinalityType
  <2> QED
    BY <2>1, <2>3, <2>5, <2>6 DEF QP!PopHasEntry
<1> QED
  BY <1>1, <1>2 DEF QueueOK

(* The worker pops while the queue exists.                                 *)
LEMMA QueueUsable ==
    QueueInv /\ TypeOK /\ InCall /\ OwnerOrder /\ Ending => QueueOK
<1> SUFFICES ASSUME QueueInv, TypeOK, InCall, OwnerOrder, Ending PROVE QueueOK
  OBVIOUS
<1>1. CASE ~NoQueue
  BY <1>1, QueueSound DEF QueueInv
<1>2. CASE NoQueue
  BY <1>2 DEF Ending, OwnerOrder, InCall, TypeOK, QueueOK
<1> QED
  BY <1>1, <1>2

LEMMA QueueInvStep ==
    QueueInv /\ TypeOK /\ [Next]_vars => QueueInv'
<1> SUFFICES ASSUME QueueInv, TypeOK, [Next]_vars, ~NoQueue' PROVE QP!IInv'
  BY DEF QueueInv
<1>1. ~NoQueue
  BY DEF Next, NoQueue, Sends, Completes, Make, Take, TakeHighPrio, Drop, Release, Quit,
         WorkerNext, CallDequeue, Acquire, Dequeue, Defer, Handle, Return, CallRecall,
         RecallOne, RecallDone, OwnerNext, Register, Stop, Join, DestroyObjects, DestroyQueue,
         DestroyPool, vars, ownerVars
<1>2. ~DestroyQueue
  BY DEF DestroyQueue, NoQueue
<1> QED
  BY <1>1, <1>2, QueueStep, QueueNext DEF QueueInv

-----------------------------------------------------------------------------
(* What the operations do to the list: Carried(q) is what its entries      *)
(* carry, each event once.                                                 *)

Carried(q) == {q[i].event : i \in 1..Len(q)}
Once(q) == \A i, j \in 1..Len(q) : q[i].event = q[j].event => i = j
Targeted(q) == \A i \in 1..Len(q) : q[i].target # NoObject

LEMMA Inserted ==
    ASSUME NEW q \in Seq(Entries), NEW e \in Entries, NEW r, r = Append(q, e) \/ r = <<e>> \o q
    PROVE  /\ r \in Seq(Entries)
           /\ Carried(r) = Carried(q) \cup {e.event}
           /\ Once(q) /\ e.event \notin Carried(q) => Once(r)
           /\ Targeted(q) /\ e.target # NoObject => Targeted(r)
<1>1. CASE r = Append(q, e)
  <2>1. /\ r \in Seq(Entries) /\ Len(q) \in Nat /\ Len(r) = Len(q) + 1
        /\ \A i \in 1..Len(q) : r[i] = q[i]
        /\ r[Len(q) + 1] = e
    BY <1>1, AppendProperties, LenProperties
  <2>2. \A i \in 1..Len(r) : i \in 1..Len(q) \/ i = Len(q) + 1
    BY <2>1
  <2>3. Carried(r) = Carried(q) \cup {e.event}
    <3>1. Carried(r) \subseteq Carried(q) \cup {e.event}
      BY <2>1, <2>2 DEF Carried
    <3>2. Carried(q) \subseteq Carried(r)
      BY <2>1 DEF Carried
    <3>3. e.event \in Carried(r)
      <4>1. Len(q) + 1 \in 1..Len(r)
        BY <2>1
      <4> QED
        BY <2>1, <4>1 DEF Carried
    <3> QED
      BY <3>1, <3>2, <3>3
  <2>4. ASSUME Once(q), e.event \notin Carried(q) PROVE Once(r)
    BY <2>1, <2>2, <2>4 DEF Once, Carried
  <2>5. Targeted(q) /\ e.target # NoObject => Targeted(r)
    BY <2>1, <2>2 DEF Targeted
  <2> QED
    BY <2>1, <2>3, <2>4, <2>5
<1>2. CASE r = <<e>> \o q
  <2>0. <<e>> \in Seq(Entries) /\ Len(<<e>>) = 1 /\ <<e>>[1] = e
    OBVIOUS
  <2>1. /\ r \in Seq(Entries) /\ Len(q) \in Nat /\ Len(r) = Len(q) + 1
        /\ \A i \in 1..Len(q) : r[i + 1] = q[i]
        /\ r[1] = e
    BY <1>2, <2>0, ConcatProperties, LenProperties
  <2>2. \A i \in 1..Len(r) : i = 1 \/ \E k \in 1..Len(q) : i = k + 1 /\ r[i] = q[k]
    <3>1. ASSUME NEW i \in 1..Len(r), i # 1
          PROVE  i - 1 \in 1..Len(q) /\ i = (i - 1) + 1 /\ r[i] = q[i - 1]
      BY <2>1, <3>1
    <3> QED
      BY <3>1
  <2>3. Carried(r) = Carried(q) \cup {e.event}
    <3>1. Carried(r) \subseteq Carried(q) \cup {e.event}
      <4>1. \A i \in 1..Len(r) : r[i] = e \/ \E k \in 1..Len(q) : r[i] = q[k]
        BY <2>1, <2>2
      <4> QED
        BY <4>1 DEF Carried
    <3>2. Carried(q) \subseteq Carried(r)
      <4>1. \A i \in 1..Len(q) : i + 1 \in 1..Len(r)
        BY <2>1
      <4> QED
        BY <2>1, <4>1 DEF Carried
    <3>3. e.event \in Carried(r)
      <4>1. 1 \in 1..Len(r)
        BY <2>1
      <4> QED
        BY <2>1, <4>1 DEF Carried
    <3> QED
      BY <3>1, <3>2, <3>3
  <2>4. ASSUME Once(q), e.event \notin Carried(q) PROVE Once(r)
    <3> SUFFICES ASSUME NEW i \in 1..Len(r), NEW j \in 1..Len(r), r[i].event = r[j].event
                 PROVE  i = j
      BY DEF Once
    <3>1. \A k \in 1..Len(q) : q[k].event # e.event
      BY <2>4 DEF Carried
    <3>2. CASE i = 1 \/ j = 1
      BY <2>1, <2>2, <3>1, <3>2
    <3>3. CASE i # 1 /\ j # 1
      <4>1. PICK k \in 1..Len(q) : i = k + 1 /\ r[i] = q[k]
        BY <2>2, <3>3
      <4>2. PICK m \in 1..Len(q) : j = m + 1 /\ r[j] = q[m]
        BY <2>2, <3>3
      <4>3. k = m
        BY <2>4, <4>1, <4>2 DEF Once
      <4> QED
        BY <4>1, <4>2, <4>3
    <3> QED
      BY <3>2, <3>3
  <2>5. Targeted(q) /\ e.target # NoObject => Targeted(r)
    BY <2>1, <2>2 DEF Targeted
  <2> QED
    BY <2>1, <2>3, <2>4, <2>5
<1> QED
  BY <1>1, <1>2

LEMMA Removed ==
    ASSUME NEW q \in Seq(Entries), q # <<>>
    PROVE  /\ Tail(q) \in Seq(Entries) /\ Head(q) \in Entries
           /\ Head(q).event \in Carried(q) /\ Carried(Tail(q)) \subseteq Carried(q)
           /\ Once(q) => Once(Tail(q)) /\ Head(q).event \notin Carried(Tail(q))
           /\ Targeted(q) => Targeted(Tail(q)) /\ Head(q).target # NoObject
<1>1. /\ Len(q) \in Nat \ {0} /\ Len(Tail(q)) = Len(q) - 1 /\ Tail(q) \in Seq(Entries)
      /\ \A i \in 1..Len(Tail(q)) : Tail(q)[i] = q[i + 1]
      /\ Head(q) = q[1]
  BY HeadTailProperties, LenProperties, EmptySeq
<1>2. 1 \in 1..Len(q) /\ \A i \in 1..Len(Tail(q)) : i + 1 \in 1..Len(q) /\ i + 1 # 1
  BY <1>1
<1>3. Head(q) \in Entries
  BY <1>1, <1>2, ElementOfSeq
<1>4. Head(q).event \in Carried(q) /\ Carried(Tail(q)) \subseteq Carried(q)
  BY <1>1, <1>2 DEF Carried
<1>5. ASSUME Once(q) PROVE Once(Tail(q)) /\ Head(q).event \notin Carried(Tail(q))
  BY <1>1, <1>2, <1>5 DEF Once, Carried
<1>6. Targeted(q) => Targeted(Tail(q)) /\ Head(q).target # NoObject
  BY <1>1, <1>2 DEF Targeted
<1> QED
  BY <1>1, <1>3, <1>4, <1>5, <1>6

(* An operation on the queue by thread t.                                  *)
Enqueues(t, e) == Q!EnqueueBack(t, e) \/ Q!EnqueueFront(t, e)

LEMMA Enqueued ==
    ASSUME QueueOK, NEW t \in Threads, NEW e \in Entries, Enqueues(t, e)
    PROVE  /\ Q!TypeOK' /\ op[t] = "idle"
           /\ InCall /\ wpc' = wpc => InCall'
           /\ QueuedEvents' = QueuedEvents \cup {e.event}
           /\ QueueApart /\ e.event \notin QueuedEvents => QueueApart'
           /\ Targeted(queue) /\ e.target # NoObject => Targeted(queue)'
<1>1. /\ queue \in Seq(Entries)
      /\ queue' = Append(queue, e) \/ queue' = <<e>> \o queue
      /\ op' = [op EXCEPT ![t] = "release"] /\ op[t] = "idle" /\ sem' = sem
      /\ op \in [Threads -> Q!OpStates] /\ sem \in Nat
  BY DEF QueueOK, Q!TypeOK, Enqueues, Q!EnqueueBack, Q!EnqueueFront, Q!Goto
<1>2. Q!TypeOK' /\ (InCall /\ wpc' = wpc => InCall')
  <2>1. queue' \in Seq(Entries)
    BY <1>1, Inserted
  <2>2. op' \in [Threads -> Q!OpStates]
    BY <1>1 DEF Q!OpStates
  <2>3. InCall /\ wpc' = wpc => InCall'
    BY <1>1 DEF InCall
  <2> QED
    BY <1>1, <2>1, <2>2, <2>3 DEF Q!TypeOK
<1>3. /\ QueuedEvents' = QueuedEvents \cup {e.event}
      /\ QueueApart /\ e.event \notin QueuedEvents => QueueApart'
      /\ Targeted(queue) /\ e.target # NoObject => Targeted(queue)'
  <2>1. QueuedEvents = Carried(queue) /\ QueuedEvents' = Carried(queue')
    BY DEF QueuedEvents, Carried
  <2>2. (QueueApart <=> Once(queue)) /\ (QueueApart' <=> Once(queue'))
    BY DEF QueueApart, Once
  <2>3. Targeted(queue)' <=> Targeted(queue')
    BY DEF Targeted
  <2> QED
    BY <1>1, <2>1, <2>2, <2>3, Inserted
<1> QED
  BY <1>1, <1>2, <1>3

LEMMA Dequeued ==
    ASSUME QueueOK, InCall, Q!Dequeue(Worker)
    PROVE  /\ Q!TypeOK' /\ InCall' /\ wpc = "dequeue" /\ Head(queue) \in Entries
           /\ Head(queue).event \in QueuedEvents /\ QueuedEvents' \subseteq QueuedEvents
           /\ QueueApart => QueueApart' /\ Head(queue).event \notin QueuedEvents'
           /\ Targeted(queue) => Targeted(queue)' /\ Head(queue).target # NoObject
<1>1. /\ queue \in Seq(Entries) /\ queue # <<>> /\ queue' = Tail(queue)
      /\ op' = [op EXCEPT ![Worker] = "idle"] /\ op[Worker] = "pop" /\ sem' = sem
      /\ op \in [Threads -> Q!OpStates] /\ sem \in Nat
  BY DEF QueueOK, Q!TypeOK, Q!Dequeue, Q!Goto
<1>2. Q!TypeOK' /\ InCall' /\ wpc = "dequeue"
  <2>1. queue' \in Seq(Entries)
    BY <1>1, Removed
  <2>2. op' \in [Threads -> Q!OpStates] /\ op'[Worker] = "idle"
    BY <1>1, QueueAssumptions DEF Q!OpStates
  <2> QED
    BY <1>1, <2>1, <2>2 DEF Q!TypeOK, InCall
<1>3. QueuedEvents = Carried(queue) /\ QueuedEvents' = Carried(queue')
  BY DEF QueuedEvents, Carried
<1>4. (QueueApart <=> Once(queue)) /\ (QueueApart' <=> Once(queue'))
  BY DEF QueueApart, Once
<1>5. Targeted(queue)' <=> Targeted(queue')
  BY DEF Targeted
<1> QED
  BY <1>1, <1>2, <1>3, <1>4, <1>5, Removed

(* The steps of a call that leave the list alone.                          *)
LEMMA Proceeds ==
    ASSUME QueueOK, InCall, NEW t \in Threads,
           \/ Q!Release(t)
           \/ Q!Acquire(t)
           \/ Q!CallDequeue(t) /\ (t = Worker => wpc = "dequeue")
    PROVE  Q!TypeOK' /\ queue' = queue /\ (wpc' = wpc => InCall')
<1>1. sem \in Nat /\ op \in [Threads -> Q!OpStates] /\ queue \in Seq(Entries)
  BY DEF QueueOK, Q!TypeOK
<1>2. CASE Q!Release(t)
  <2>1. sem' \in Nat
    BY <1>1, <1>2 DEF Q!Release, Q!SemAfterRelease
  <2> QED
    BY <1>1, <1>2, <2>1 DEF Q!Release, Q!Goto, Q!TypeOK, Q!OpStates, InCall
<1>3. CASE Q!Acquire(t)
  <2>1. sem' \in Nat
    BY <1>1, <1>3 DEF Q!Acquire
  <2> QED
    BY <1>1, <1>3, <2>1 DEF Q!Acquire, Q!Goto, Q!TypeOK, Q!OpStates, InCall
<1>4. CASE Q!CallDequeue(t) /\ (t = Worker => wpc = "dequeue")
  BY <1>1, <1>4 DEF Q!CallDequeue, Q!Goto, Q!TypeOK, Q!OpStates, InCall
<1> QED
  BY <1>2, <1>3, <1>4

-----------------------------------------------------------------------------
(* The types.                                                              *)

LEMMA InitIInv == Init => IInv
<1> SUFFICES ASSUME Init PROVE IInv
  OBVIOUS
<1>1. QP!Init => QP!IInv
  BY QP!InitIInv, QueueAssumptions
<1>2. QP!IInv
  BY <1>1 DEF Init, Q!Init, QP!Init
<1>3. Q!TypeOK
  BY <1>2, QueueSound DEF QueueOK
<1>4. /\ registered \subseteq Objects /\ deferred \in [Objects -> Seq(Events)]
      /\ wpc = "dequeue" /\ entry = EndEntry /\ entry \in Entries /\ entry.event = NoEvent
      /\ cursor \in Nat /\ opc = "up" /\ quit = {} /\ urgentSends \in BOOLEAN
      /\ gone = {} /\ waited = FALSE
      /\ \A t \in Threads : hand[t] = NoEvent /\ sent[t] = FALSE
      /\ hand \in [Threads -> Events \cup {NoEvent}] /\ sent \in [Threads -> BOOLEAN]
      /\ \A o \in Objects : Len(deferred[o]) = 0
      /\ Len(queue) = 0
  BY EntriesTyped DEF Init, Q!Init
<1>5. TypeOK /\ InCall
  BY <1>3, <1>4 DEF TypeOK, InCall
<1>6. OwnerOrder
  BY <1>4, QueueAssumptions DEF Init, OwnerOrder
<1>7. Ending /\ CallsDone
  BY <1>3, <1>4, QueueAssumptions DEF Init, Q!Init, Ending, NoQueue, CallsDone
<1>8. Apart
  <2>1. HandsApart /\ UnsentNowhere
    BY <1>4 DEF HandsApart, UnsentNowhere
  <2>2. QueueApart /\ DeferredApart
    BY <1>4 DEF QueueApart, DeferredApart
  <2>3. QueueNotDeferred /\ EntryApart
    BY <1>4 DEF QueueNotDeferred, EntryApart
  <2> QED
    BY <2>1, <2>2, <2>3 DEF Apart
<1> QED
  BY <1>2, <1>5, <1>6, <1>7, <1>8 DEF IInv, QueueInv

(* What the owner knows when it destroys a part.                           *)
LEMMA EndsInOrder ==
    ASSUME ScopesNest, TypeOK, InCall, OwnerOrder, Ending, NEW x \in Parts, Ends(x)
    PROVE  /\ waited' \in BOOLEAN /\ quit' = quit /\ opc # "stopping" /\ x \notin gone
           /\ gone # {} => waited' = waited
           /\ waited' => Calm
           /\ x # "domain" => quit = Producers /\ wpc \in {"dequeue", "exited"}
           /\ x = "queue" => opc = "joined"
           /\ x = "objects" => waited' \/ opc = "joined"
           /\ x = "pool" => waited' \/ {"objects", "queue"} \subseteq gone
<1>1. waited' \in BOOLEAN /\ (gone # {} => waited' = waited)
  BY DEF Ends, Begun, TypeOK
<1>2. waited' => Calm
  BY DEF Ends, Settled, Ending, Calm, InCall
<1>3. /\ x = "queue" => opc = "joined"
      /\ x = "objects" => waited' \/ opc = "joined"
      /\ x = "pool" => waited' \/ {"objects", "queue"} \subseteq gone
  BY <1>1 DEF Ends, ScopesNest, OwnerOrder
<1>4. x # "domain" => quit = Producers /\ wpc \in {"dequeue", "exited"}
  BY <1>2, <1>3 DEF Ends, Parts, Calm, Ending, OwnerOrder, NoQueue
<1> QED
  BY <1>1, <1>2, <1>3, <1>4 DEF Ends

LEMMA TypeStep ==
    ASSUME ScopesNest, QueueOK, TypeOK, InCall, OwnerOrder, Ending, [Next]_vars
    PROVE  TypeOK' /\ InCall'
<1> USE QueueAssumptions
<1>1. ASSUME NEW t \in Threads, NEW o \in Objects, Take(t, o) \/ TakeHighPrio(t, o)
      PROVE  TypeOK' /\ InCall'
  <2>1. Enqueues(t, [target |-> o, event |-> hand[t]]) /\ Passes(t)
    BY <1>1 DEF Take, TakeHighPrio, Enqueues
  <2>2. UNCHANGED <<hand, workerVars, ownerVars>> /\ sent' \in [Threads -> BOOLEAN]
    BY <1>1 DEF Take, TakeHighPrio, Passes, TypeOK
  <2>3. Q!TypeOK' /\ InCall'
    BY <2>1, <2>2, PassedTyped, Enqueued DEF workerVars
  <2> QED
    BY <2>2, <2>3 DEF TypeOK, workerVars, ownerVars
<1>2. ASSUME NEW t \in Threads, NEW e \in Events, Make(t, e)
      PROVE  TypeOK' /\ InCall'
  <2>1. hand' \in [Threads -> Events \cup {NoEvent}]
    BY <1>2 DEF Make, TypeOK
  <2> QED
    BY <1>2, <2>1 DEF Make, TypeOK, Q!TypeOK, InCall, queueVars, workerVars, ownerVars
<1>3. ASSUME NEW t \in Threads, Drop(t)
      PROVE  TypeOK' /\ InCall'
  <2>1. hand' \in [Threads -> Events \cup {NoEvent}] /\ sent' \in [Threads -> BOOLEAN]
    BY <1>3 DEF Drop, TypeOK
  <2> QED
    BY <1>3, <2>1 DEF Drop, TypeOK, Q!TypeOK, InCall, queueVars, workerVars, ownerVars
<1>4. ASSUME NEW t \in Threads, Release(t)
      PROVE  TypeOK' /\ InCall'
  BY <1>4, Proceeds DEF Release, TypeOK, workerVars, handVars, ownerVars
<1>5. CASE CallDequeue \/ Acquire
  <2>1. Q!TypeOK' /\ InCall'
    BY <1>5, Proceeds DEF CallDequeue, Acquire, workerVars
  <2> QED
    BY <1>5, <2>1 DEF CallDequeue, Acquire, TypeOK, workerVars, handVars, ownerVars
<1>6. CASE Dequeue
  <2>1. /\ Q!TypeOK' /\ InCall' /\ entry' \in Entries /\ wpc' \in {"exited", "dispatch"}
        /\ wpc' = "dispatch" => entry'.target \in Objects
        /\ UNCHANGED <<cursor, deferred, handVars, ownerVars>>
    BY <1>6, Dequeued, EntriesTyped DEF Dequeue, InCall
  <2> QED
    BY <2>1 DEF TypeOK, handVars, ownerVars
<1>7. CASE Defer
  <2>1. entry.target \in Objects /\ entry.event \in Events
    BY <1>7, EntriesTyped DEF Defer, TypeOK
  <2>2. deferred' \in [Objects -> Seq(Events)]
    BY <1>7, <2>1, AppendProperties DEF Defer, TypeOK
  <2>3. EndEntry \in Entries
    BY EntriesTyped
  <2> QED
    BY <1>7, <2>2, <2>3
    DEF Defer, EndIteration, TypeOK, Q!TypeOK, InCall, queueVars, handVars, ownerVars
<1>8. CASE Handle
  BY <1>8 DEF Handle, TypeOK, Q!TypeOK, InCall, queueVars, handVars, ownerVars
<1>9. CASE CallRecall
  <2>1. cursor' \in Nat /\ cursor' = Len(deferred[entry.target])
    BY <1>9, LenProperties DEF CallRecall, TypeOK
  <2> QED
    BY <1>9, <2>1 DEF CallRecall, TypeOK, Q!TypeOK, InCall, queueVars, handVars, ownerVars
<1>10. CASE RecallOne
  <2>1. /\ entry.target \in Objects /\ cursor' \in Nat
        /\ cursor' <= Len(deferred[entry.target])
        /\ UNCHANGED <<wpc, entry, deferred, handVars, ownerVars>>
    BY <1>10 DEF RecallOne, TypeOK
  <2>2. Q!TypeOK' /\ InCall'
    BY <1>10, RecalledTyped, Enqueued DEF RecallOne, Enqueues
  <2> QED
    BY <2>1, <2>2 DEF TypeOK, handVars, ownerVars
<1>11. CASE RecallDone
  <2>1. deferred' \in [Objects -> Seq(Events)]
    BY <1>11 DEF RecallDone, TypeOK
  <2> QED
    BY <1>11, <2>1 DEF RecallDone, TypeOK, Q!TypeOK, InCall, queueVars, handVars, ownerVars
<1>12. CASE Return
  <2>1. EndEntry \in Entries
    BY EntriesTyped
  <2> QED
    BY <1>12, <2>1
    DEF Return, EndIteration, TypeOK, Q!TypeOK, InCall, queueVars, handVars, ownerVars
<1>13. ASSUME NEW o \in Objects, Register(o)
       PROVE  TypeOK' /\ InCall'
  BY <1>13 DEF Register, SetQueue, TypeOK, Q!TypeOK, InCall, queueVars, workerVars, handVars
<1>14. CASE Stop
  <2>1. Q!TypeOK' /\ InCall'
    BY <1>14, EntriesTyped, Enqueued DEF Stop, Enqueues, workerVars
  <2> QED
    BY <1>14, <2>1, EndsInOrder DEF Stop, Ends, Parts, TypeOK, workerVars, handVars
<1>15. CASE Join
  BY <1>15 DEF Join, Parts, TypeOK, Q!TypeOK, InCall, queueVars, workerVars, handVars
<1>20. CASE DestroyPool
  BY <1>20, EndsInOrder
  DEF DestroyPool, Ends, Parts, TypeOK, Q!TypeOK, InCall, queueVars, workerVars, handVars
<1>16. ASSUME NEW p \in Producers, Quit(p)
       PROVE  TypeOK' /\ InCall'
  BY <1>16 DEF Quit, TypeOK, Q!TypeOK, InCall, queueVars, workerVars, handVars
<1>17. CASE DestroyObjects
  <2>1. deferred' \in [Objects -> Seq(Events)] /\ wpc \in {"dequeue", "exited"}
    BY <1>17, EndsInOrder DEF DestroyObjects, Parts
  <2>2. waited' \in BOOLEAN
    BY <1>17, EndsInOrder DEF DestroyObjects, Parts
  <2> QED
    BY <1>17, <2>1, <2>2
    DEF DestroyObjects, Ends, Parts, TypeOK, Q!TypeOK, InCall, queueVars, handVars
<1>18. CASE DestroyQueue
  <2>1. Q!TypeOK'
    BY <1>18 DEF DestroyQueue, TypeOK, Q!TypeOK
  <2>2. waited' \in BOOLEAN
    BY <1>18, EndsInOrder DEF DestroyQueue, Parts
  <2> QED
    BY <1>18, <2>1, <2>2 DEF DestroyQueue, Ends, Parts, TypeOK, InCall, workerVars, handVars
<1>19. CASE UNCHANGED vars
  BY <1>19 DEF vars, TypeOK, Q!TypeOK, InCall, queueVars, workerVars, handVars, ownerVars
<1> QED
  BY <1>1, <1>2, <1>3, <1>4, <1>5, <1>6, <1>7, <1>8, <1>9, <1>10, <1>11, <1>12, <1>13,
     <1>14, <1>15, <1>16, <1>17, <1>18, <1>19, <1>20
  DEF Next, Sends, Completes, WorkerNext, OwnerNext

-----------------------------------------------------------------------------
(* The order of the end.                                                   *)

(* Once the application has waited, or a part other than the domain is     *)
(* gone, nobody sends any more.                                            *)
LEMMA NobodySends ==
    ASSUME OwnerOrder, Ending, waited \/ \E x \in {"objects", "queue", "pool"} : x \in gone
    PROVE  /\ quit = Producers /\ wpc \in {"dequeue", "exited"}
           /\ \A t \in Threads : hand[t] = NoEvent
<1>1. quit = Producers /\ wpc \in {"dequeue", "exited"}
  BY DEF Ending, Calm, NoQueue, OwnerOrder
<1> QED
  BY <1>1 DEF OwnerOrder, Threads

(* The threads that may make and pass events.                              *)
Sender(t) == (t \in Producers /\ t \notin quit) \/ (t = Worker /\ wpc = "actions")

LEMMA OrderStep ==
    ASSUME QueueOK, TypeOK, InCall, OwnerOrder, [Next]_vars
    PROVE  OwnerOrder'
<1> USE QueueAssumptions
<1>0. /\ opc = "up" => wpc # "exited" /\ Targeted(queue)
      /\ queue' = queue => (Targeted(queue) <=> Targeted(queue)')
  BY DEF OwnerOrder, Targeted
<1>1. ASSUME NEW t \in Threads, NEW o \in Objects, Take(t, o) \/ TakeHighPrio(t, o)
      PROVE  OwnerOrder'
  <2>1. Enqueues(t, [target |-> o, event |-> hand[t]]) /\ Passes(t)
    BY <1>1 DEF Take, TakeHighPrio, Enqueues
  <2>2. UNCHANGED <<hand, workerVars, ownerVars>>
    BY <1>1 DEF Take, TakeHighPrio
  <2>3. o # NoObject
    BY EntriesTyped
  <2>4. Targeted(queue) => Targeted(queue)'
    BY <2>1, <2>3, PassedTyped, Enqueued
  <2> QED
    BY <1>0, <2>2, <2>4 DEF OwnerOrder, Targeted, workerVars, ownerVars
<1>2. ASSUME NEW t \in Threads, NEW e \in Events, Sender(t), Make(t, e)
      PROVE  OwnerOrder'
  <2>1. t # Owner /\ t \notin quit /\ (t = Worker => wpc = "actions")
    BY <1>2, ThreadsAssumption DEF Sender, TypeOK
  <2>2. \A u \in Threads : u # t => hand'[u] = hand[u]
    BY <1>2 DEF Make, TypeOK
  <2>3. quit \subseteq Threads
    BY DEF TypeOK
  <2> QED
    BY <1>2, <2>1, <2>2, <2>3 DEF Make, OwnerOrder, queueVars, workerVars, ownerVars
<1>3. ASSUME NEW t \in Threads, Drop(t)
      PROVE  OwnerOrder'
  <2>1. \A u \in Threads : hand[u] = NoEvent => hand'[u] = NoEvent
    BY <1>3 DEF Drop, TypeOK
  <2>2. quit \subseteq Threads
    BY DEF TypeOK
  <2> QED
    BY <1>3, <2>1, <2>2 DEF Drop, OwnerOrder, queueVars, workerVars, ownerVars
<1>4. ASSUME NEW t \in Threads, Release(t)
      PROVE  OwnerOrder'
  BY <1>4 DEF Release, Q!Release, OwnerOrder, workerVars, handVars, ownerVars
<1>5. CASE CallDequeue \/ Acquire
  BY <1>5
  DEF CallDequeue, Acquire, Q!CallDequeue, Q!Acquire, OwnerOrder, workerVars,
      handVars, ownerVars
<1>6. CASE Dequeue
  <2>1. /\ wpc = "dequeue" /\ entry' \in Entries /\ entry' = Head(queue)
        /\ Targeted(queue) => Targeted(queue)' /\ entry'.target # NoObject
        /\ wpc' = IF entry'.target = NoObject THEN "exited" ELSE "dispatch"
        /\ UNCHANGED <<deferred, handVars, ownerVars>>
    BY <1>6, Dequeued DEF Dequeue
  <2>2. opc # "joined"
    BY <2>1 DEF OwnerOrder
  <2>3. wpc' = "exited" => entry' = EndEntry
    BY <2>1, EntriesTyped
  <2> QED
    BY <1>0, <2>1, <2>2, <2>3 DEF OwnerOrder, Targeted, handVars, ownerVars
<1>7. CASE Defer \/ Handle \/ Return \/ CallRecall \/ RecallDone
  <2>1. wpc \in {"dispatch", "actions", "recall"} /\ wpc' # "exited"
    BY <1>7 DEF Defer, Handle, Return, CallRecall, RecallDone, EndIteration
  <2>2. opc # "joined"
    BY <2>1 DEF OwnerOrder
  <2>3. wpc' # "actions" => hand[Worker] = NoEvent
    BY <1>7 DEF Defer, Handle, Return, CallRecall, RecallDone, EndIteration, OwnerOrder
  <2>4. UNCHANGED <<queueVars, handVars, ownerVars>>
    BY <1>7 DEF Defer, Handle, Return, CallRecall, RecallDone
  <2> QED
    BY <2>1, <2>2, <2>3, <2>4 DEF OwnerOrder, queueVars, handVars, ownerVars
<1>8. CASE RecallOne
  <2>1. entry.target # NoObject
    BY <1>8, EntriesTyped DEF RecallOne, TypeOK
  <2>2. Targeted(queue) => Targeted(queue)'
    BY <1>8, <2>1, RecalledTyped, Enqueued DEF RecallOne, Enqueues
  <2>3. opc # "joined" /\ UNCHANGED <<wpc, entry, deferred, handVars, ownerVars>>
    BY <1>8 DEF RecallOne, OwnerOrder
  <2> QED
    BY <1>0, <2>2, <2>3 DEF OwnerOrder, Targeted, handVars, ownerVars
<1>9. ASSUME NEW o \in Objects, Register(o)
       PROVE  OwnerOrder'
  BY <1>9 DEF Register, SetQueue, OwnerOrder, queueVars, workerVars, handVars
<1>10. CASE Stop \/ Join
  <2>1. UNCHANGED <<quit, workerVars, handVars>>
    BY <1>10 DEF Stop, Join, Ends
  <2>2. CASE Stop
    BY <2>1, <2>2 DEF Stop, Ends, OwnerOrder, workerVars, handVars
  <2>3. CASE Join
    BY <2>1, <2>3 DEF Join, OwnerOrder, workerVars, handVars
  <2> QED
    BY <1>10, <2>2, <2>3
<1>11. ASSUME NEW p \in Producers, Quit(p)
       PROVE  OwnerOrder'
  <2>1. quit' = quit \cup {p} /\ hand[p] = NoEvent /\ quit \subseteq Producers
    BY <1>11 DEF Quit, TypeOK
  <2> QED
    BY <1>11, <2>1 DEF Quit, OwnerOrder, queueVars, workerVars, handVars
<1>12. CASE DestroyObjects \/ DestroyQueue \/ DestroyPool
  <2>1. UNCHANGED <<quit, opc, wpc, entry, handVars>>
    BY <1>12 DEF DestroyObjects, DestroyQueue, DestroyPool, Ends, workerVars
  <2>2. "domain" \in gone' <=> "domain" \in gone
    BY <1>12 DEF DestroyObjects, DestroyQueue, DestroyPool
  <2>3. queue' = queue \/ queue' = <<>>
    BY <1>12 DEF DestroyObjects, DestroyQueue, DestroyPool, queueVars
  <2> QED
    BY <2>1, <2>2, <2>3 DEF OwnerOrder, handVars
<1>14. CASE UNCHANGED vars
  BY <1>14 DEF vars, OwnerOrder, queueVars, workerVars, handVars, ownerVars
<1> QED
  BY <1>1, <1>2, <1>3, <1>4, <1>5, <1>6, <1>7, <1>8, <1>9, <1>10, <1>11, <1>12, <1>14
  DEF Next, Sends, Completes, WorkerNext, OwnerNext, Sender

LEMMA CallsStep ==
    ASSUME TypeOK, InCall, OwnerOrder, CallsDone, [Next]_vars
    PROVE  CallsDone'
<1> USE QueueAssumptions
<1>1. op \in [Threads -> Q!OpStates] /\ quit \subseteq Threads
  BY DEF TypeOK, Q!TypeOK
<1>2. ASSUME NEW t \in Threads, NEW o \in Objects, Take(t, o) \/ TakeHighPrio(t, o)
      PROVE  CallsDone'
  <2>1. /\ op' = [op EXCEPT ![t] = "release"] /\ hand[t] # NoEvent
        /\ UNCHANGED <<workerVars, ownerVars>>
    BY <1>2 DEF Take, TakeHighPrio, Q!EnqueueBack, Q!EnqueueFront, Q!Goto, Passes
  <2>2. t # Owner /\ t \notin quit /\ (t = Worker => wpc = "actions")
    BY <2>1 DEF OwnerOrder
  <2> QED
    BY <1>1, <2>1, <2>2 DEF CallsDone, workerVars, ownerVars
<1>3. ASSUME NEW t \in Threads, Release(t) PROVE CallsDone'
  BY <1>1, <1>3 DEF Release, Q!Release, Q!Goto, CallsDone, workerVars, ownerVars
<1>4. CASE CallDequeue \/ Acquire \/ Dequeue
  <2>1. /\ op[Worker] # "release" /\ op'[Worker] # "release"
        /\ \A t \in Threads : t # Worker => op'[t] = op[t]
        /\ UNCHANGED ownerVars
    BY <1>1, <1>4
    DEF CallDequeue, Acquire, Dequeue, Q!CallDequeue, Q!Acquire, Q!Dequeue, Q!Goto
  <2>2. Worker # Owner /\ Worker \notin quit
    BY ThreadsAssumption DEF TypeOK
  <2> QED
    BY <1>1, <2>1, <2>2 DEF CallsDone, ownerVars
<1>5. CASE RecallOne
  <2>1. op' = [op EXCEPT ![Worker] = "release"] /\ wpc' = "recall" /\ UNCHANGED ownerVars
    BY <1>5 DEF RecallOne, Q!EnqueueFront, Q!Goto
  <2>2. Worker # Owner /\ Worker \notin quit
    BY ThreadsAssumption DEF TypeOK
  <2> QED
    BY <1>1, <2>1, <2>2 DEF CallsDone, ownerVars
<1>6. CASE Stop
  <2>1. op' = [op EXCEPT ![Owner] = "release"] /\ opc' = "stopping"
        /\ UNCHANGED <<wpc, quit>>
    BY <1>6 DEF Stop, Ends, Q!EnqueueBack, Q!Goto, workerVars
  <2>2. Worker # Owner /\ Owner \notin quit
    BY ThreadsAssumption DEF TypeOK
  <2> QED
    BY <1>1, <2>1, <2>2 DEF CallsDone
<1>7. CASE Join
  BY <1>7 DEF Join, CallsDone, queueVars, workerVars
<1>8. ASSUME NEW p \in Producers, Quit(p) PROVE CallsDone'
  BY <1>8 DEF Quit, CallsDone, queueVars, workerVars
<1>9. CASE Defer \/ Handle \/ Return \/ CallRecall \/ RecallDone
  BY <1>9
  DEF Defer, Handle, Return, EndIteration, CallRecall, RecallDone, CallsDone, queueVars,
      ownerVars
<1>10. ASSUME NEW t \in Threads, (\E e \in Events : Make(t, e)) \/ Drop(t) PROVE CallsDone'
  BY <1>10 DEF Make, Drop, CallsDone, queueVars, workerVars, ownerVars
<1>11. CASE DestroyObjects \/ DestroyQueue \/ DestroyPool
  BY <1>11
  DEF DestroyObjects, DestroyQueue, DestroyPool, Ends, CallsDone, queueVars, workerVars
<1>12. CASE (\E o \in Objects : Register(o)) \/ UNCHANGED vars
  BY <1>12 DEF Register, vars, CallsDone, queueVars, workerVars, ownerVars
<1> QED
  BY <1>2, <1>3, <1>4, <1>5, <1>6, <1>7, <1>8, <1>9, <1>10, <1>11, <1>12
  DEF Next, Sends, Completes, WorkerNext, OwnerNext

(* Steps that make no new owner of an event.                               *)
LEMMA OwnedShrinks ==
    ASSUME QueuedEvents' \subseteq QueuedEvents \cup {NoEvent},
           \A t \in Threads : hand'[t] = hand[t] \/ hand'[t] = NoEvent,
           \A o \in Objects : deferred'[o] = deferred[o] \/ deferred'[o] = <<>>,
           entry' = entry \/ entry'.event \in QueuedEvents
    PROVE  Owned' \subseteq Owned
<1>1. \A o \in Objects : DeferredEvents(o)' \subseteq DeferredEvents(o)
  BY DEF DeferredEvents
<1> QED
  BY <1>1, EntriesTyped DEF Owned

LEMMA EndingStep ==
    ASSUME ScopesNest, QueueOK, TypeOK, InCall, OwnerOrder, Ending, [Next]_vars
    PROVE  Ending'
<1> USE QueueAssumptions
<1>1. queue' = queue => QueuedEvents' = QueuedEvents
  BY DEF QueuedEvents
(* The steps of those who send and handle: nothing but the domain is gone. *)
<1>2. ASSUME UNCHANGED ownerVars,
             \/ \E t \in Threads : Sender(t) \/ hand[t] # NoEvent
             \/ wpc \in {"dispatch", "actions", "recall"}
      PROVE  Ending'
  <2>1. ~waited /\ \A x \in {"objects", "queue", "pool"} : x \notin gone
    BY <1>2, NobodySends DEF Sender
  <2> QED
    BY <1>2, <2>1 DEF Ending, NoQueue, TypeOK, Parts, ownerVars
<1>3. ASSUME NEW t \in Threads,
             \/ \E o \in Objects : Take(t, o) \/ TakeHighPrio(t, o)
             \/ Sender(t) /\ \E e \in Events : Make(t, e)
      PROVE  Ending'
  BY <1>2, <1>3 DEF Take, TakeHighPrio, Make, Passes
<1>4. CASE Defer \/ Handle \/ Return \/ CallRecall \/ RecallOne \/ RecallDone
  BY <1>2, <1>4 DEF Defer, Handle, Return, CallRecall, RecallOne, RecallDone
(* Steps that leave the parts as they are.                                 *)
<1>5. ASSUME UNCHANGED <<queue, deferred, entry, wpc, waited>>,
             \A t \in Threads : hand'[t] = hand[t] \/ hand'[t] = NoEvent,
             gone' = gone \/ gone' = gone \cup {"domain"},
             quit \subseteq quit', quit' \subseteq Producers,
             opc' = opc \/ opc' = "joined"
      PROVE  Ending'
  <2>1. Owned' \subseteq Owned
    BY <1>1, <1>5, OwnedShrinks
  <2>2. quit = Producers => quit' = Producers
    BY <1>5
  <2>3. Calm => Calm'
    BY <1>5, <2>1, <2>2 DEF Calm
  <2> QED
    BY <1>5, <2>2, <2>3 DEF Ending, NoQueue
<1>6. ASSUME NEW t \in Threads, Drop(t) \/ Release(t) PROVE Ending'
  <2>1. \A u \in Threads : hand'[u] = hand[u] \/ hand'[u] = NoEvent
    BY <1>6 DEF Drop, Release, TypeOK, handVars
  <2> QED
    BY <1>5, <1>6, <2>1
    DEF Drop, Release, Q!Release, TypeOK, queueVars, workerVars, ownerVars
<1>7. CASE CallDequeue \/ Acquire
  BY <1>5, <1>7
  DEF CallDequeue, Acquire, Q!CallDequeue, Q!Acquire, TypeOK, workerVars, handVars, ownerVars
<1>8. CASE (\E o \in Objects : Register(o)) \/ Join \/ (\E p \in Producers : Quit(p))
           \/ UNCHANGED vars
  BY <1>5, <1>8
  DEF Register, Join, Quit, vars, TypeOK, queueVars, workerVars, handVars, ownerVars
<1>9. CASE Dequeue
  <2>1. /\ wpc = "dequeue" /\ entry' \in Entries /\ entry' = Head(queue)
        /\ entry'.event \in QueuedEvents /\ QueuedEvents' \subseteq QueuedEvents
        /\ wpc' = IF entry'.target = NoObject THEN "exited" ELSE "dispatch"
        /\ UNCHANGED <<deferred, handVars, ownerVars>>
    BY <1>9, Dequeued DEF Dequeue
  <2>2. opc # "joined"
    BY <2>1 DEF OwnerOrder
  <2>3. Owned' \subseteq Owned
    BY <2>1, OwnedShrinks DEF handVars
  <2>4. ASSUME Calm PROVE Calm'
    <3>1. entry'.event \notin Events
      BY <2>1, <2>4 DEF Calm, Owned
    <3>2. wpc' = "exited"
      BY <2>1, <3>1, EntriesTyped
    <3> QED
      BY <2>1, <2>3, <2>4, <3>2 DEF Calm, ownerVars
  <2> QED
    BY <2>1, <2>2, <2>4 DEF Ending, NoQueue, ownerVars
(* The steps of the end.                                                   *)
<1>10. CASE Stop
  <2>1. /\ opc # "stopping" /\ "domain" \notin gone /\ quit' = quit
        /\ gone # {} => waited' = waited
        /\ waited' => Calm
    BY <1>10, EndsInOrder DEF Stop, Parts
  <2>2. UNCHANGED <<gone, workerVars, handVars>> /\ Enqueues(Owner, EndEntry)
    BY <1>10 DEF Stop, Enqueues
  <2>3. QueuedEvents' = QueuedEvents \cup {NoEvent}
    BY <2>2, Enqueued, EntriesTyped
  <2>4. Owned' \subseteq Owned
    BY <2>2, <2>3, OwnedShrinks DEF workerVars, handVars
  <2>5. waited' => Calm'
    BY <2>1, <2>2, <2>4 DEF Calm, workerVars
  <2>6. opc # "joined"
    BY <2>1 DEF OwnerOrder
  <2> QED
    BY <2>1, <2>2, <2>5, <2>6 DEF Ending, NoQueue, workerVars
<1>11. CASE DestroyObjects
  <2>1. /\ quit' = quit /\ quit = Producers /\ (gone # {} => waited' = waited)
        /\ waited' => Calm
        /\ waited' \/ opc = "joined"
    BY <1>11, EndsInOrder DEF DestroyObjects, Parts
  <2>2. /\ deferred' = [o \in Objects |-> <<>>] /\ gone' = gone \cup {"objects"}
        /\ UNCHANGED <<opc, wpc, entry, queue, hand>>
    BY <1>11 DEF DestroyObjects, queueVars, handVars
  <2>3. Owned' \subseteq Owned
    BY <1>1, <2>2, OwnedShrinks
  <2>4. waited' => Calm'
    BY <2>1, <2>2, <2>3 DEF Calm
  <2> QED
    BY <2>1, <2>2, <2>4 DEF Ending, NoQueue
<1>12. CASE DestroyQueue
  <2>1. /\ quit' = quit /\ quit = Producers /\ (gone # {} => waited' = waited)
        /\ waited' => Calm
        /\ opc = "joined"
    BY <1>12, EndsInOrder DEF DestroyQueue, Parts
  <2>2. /\ queue' = <<>> /\ gone' = gone \cup {"queue"}
        /\ UNCHANGED <<opc, workerVars, handVars>>
    BY <1>12 DEF DestroyQueue
  <2>3. QueuedEvents' = {}
    BY <2>2 DEF QueuedEvents
  <2>4. Owned' \subseteq Owned
    BY <2>2, <2>3, OwnedShrinks DEF workerVars, handVars
  <2>5. waited' => Calm'
    BY <2>1, <2>2, <2>4 DEF Calm, workerVars
  <2> QED
    BY <2>1, <2>2, <2>5 DEF Ending, NoQueue, workerVars
<1>13. CASE DestroyPool
  <2>1. /\ quit' = quit /\ quit = Producers /\ (gone # {} => waited' = waited)
        /\ waited' => Calm
        /\ waited' \/ {"objects", "queue"} \subseteq gone
    BY <1>13, EndsInOrder DEF DestroyPool, Parts
  <2>2. gone' = gone \cup {"pool"} /\ UNCHANGED <<opc, queueVars, workerVars, handVars>>
    BY <1>13 DEF DestroyPool
  <2>3. Owned' \subseteq Owned
    BY <1>1, <2>2, OwnedShrinks DEF queueVars, workerVars, handVars
  <2>4. waited' => Calm'
    BY <2>1, <2>2, <2>3 DEF Calm, workerVars
  <2> QED
    BY <2>1, <2>2, <2>4 DEF Ending, NoQueue, queueVars, workerVars
<1> QED
  BY <1>3, <1>4, <1>6, <1>7, <1>8, <1>9, <1>10, <1>11, <1>12, <1>13
  DEF Next, Sends, Completes, WorkerNext, OwnerNext, Sender

-----------------------------------------------------------------------------
(* An event that was sent once is in one place.                            *)

LEMMA ApartUndisturbed ==
    ASSUME Apart, UNCHANGED <<queue, deferred, entry, hand, sent>>,
           wpc = "recall" => wpc' = "recall",
           wpc' = "recall" => cursor' = (IF wpc = "recall" THEN cursor
                                                           ELSE Len(deferred[entry.target]))
    PROVE  Apart'
<1>1. QueuedEvents' = QueuedEvents
  BY DEF QueuedEvents
<1>2. HandsApart' /\ UnsentNowhere'
  BY <1>1 DEF Apart, HandsApart, UnsentNowhere
<1>3. QueueApart' /\ DeferredApart'
  BY DEF Apart, QueueApart, DeferredApart
<1>4. QueueNotDeferred' /\ EntryApart'
  BY <1>1 DEF Apart, QueueNotDeferred, EntryApart
<1> QED
  BY <1>2, <1>3, <1>4 DEF Apart

(* A thread passes the event it made.                                      *)
LEMMA ApartPassed ==
    ASSUME QueueOK, TypeOK, Apart, NEW t \in Threads, NEW o \in Objects,
           Take(t, o) \/ TakeHighPrio(t, o)
    PROVE  Apart'
<1>1. /\ Enqueues(t, [target |-> o, event |-> hand[t]]) /\ Passes(t)
      /\ UNCHANGED <<hand, workerVars>>
  BY DEF Take, TakeHighPrio, Enqueues
<1>2. hand[t] # NoEvent /\ ~sent[t] /\ sent' = [sent EXCEPT ![t] = TRUE]
  BY <1>1 DEF Passes
<1>3. /\ hand[t] \notin QueuedEvents /\ entry.event # hand[t]
      /\ \A u \in Objects : \A i \in 1..Len(deferred[u]) : deferred[u][i] # hand[t]
  BY <1>2 DEF Apart, UnsentNowhere
<1>4. QueuedEvents' = QueuedEvents \cup {hand[t]} /\ QueueApart'
  BY <1>1, <1>3, PassedTyped, Enqueued DEF Apart
<1>5. HandsApart' /\ UnsentNowhere'
  <2>1. \A u \in Threads : IF u = t THEN sent'[u] ELSE sent'[u] = sent[u] /\ hand[u] # hand[t]
    BY <1>2 DEF Apart, HandsApart, TypeOK
  <2>2. hand' = hand /\ deferred' = deferred /\ entry' = entry
    BY <1>1 DEF workerVars
  <2>3. HandsApart'
    BY <1>2, <2>1, <2>2 DEF Apart, HandsApart
  <2>4. UnsentNowhere'
    BY <1>4, <2>1, <2>2 DEF Apart, UnsentNowhere
  <2> QED
    BY <2>3, <2>4
<1>6. DeferredApart'
  BY <1>1 DEF Apart, DeferredApart, workerVars
<1>7. QueueNotDeferred' /\ EntryApart'
  <2>1. wpc' = wpc /\ cursor' = cursor /\ deferred' = deferred /\ entry' = entry
    BY <1>1 DEF workerVars
  <2>2. EntryApart'
    BY <1>3, <1>4, <2>1 DEF Apart, EntryApart
  <2>3. QueueNotDeferred'
    <3> SUFFICES ASSUME NEW u \in Objects,
                        NEW j \in 1..(IF wpc = "recall" /\ entry.target = u
                                      THEN cursor ELSE Len(deferred[u]))
                 PROVE  deferred[u][j] \notin QueuedEvents'
      BY <2>1 DEF QueueNotDeferred
    <3>1. deferred[u][j] \notin QueuedEvents
      BY DEF Apart, QueueNotDeferred
    <3>2. Len(deferred[u]) \in Nat
      BY LenProperties DEF TypeOK
    <3>3. j \in 1..Len(deferred[u])
      BY <3>2 DEF TypeOK
    <3> QED
      BY <1>3, <1>4, <3>1, <3>3
  <2> QED
    BY <2>2, <2>3
<1> QED
  BY <1>4, <1>5, <1>6, <1>7 DEF Apart

LEMMA ApartMade ==
    ASSUME TypeOK, Apart, NEW t \in Threads, NEW e \in Events, Make(t, e)
    PROVE  Apart'
<1>1. /\ hand' = [hand EXCEPT ![t] = e] /\ hand[t] = NoEvent /\ e # NoEvent
      /\ UNCHANGED <<sent, queue, wpc, entry, cursor, deferred>>
  BY EntriesTyped DEF Make, queueVars, workerVars
<1>2. /\ e \notin QueuedEvents /\ e # entry.event
      /\ \A u \in Threads : e # hand[u]
      /\ \A u \in Objects : \A i \in 1..Len(deferred[u]) : deferred[u][i] # e
  BY DEF Make, Owned, DeferredEvents
<1>3. \A u \in Threads : hand'[u] = IF u = t THEN e ELSE hand[u]
  BY <1>1 DEF TypeOK
<1>4. QueuedEvents' = QueuedEvents
  BY <1>1 DEF QueuedEvents
<1>5. HandsApart'
  BY <1>1, <1>2, <1>3 DEF Apart, HandsApart
<1>6. UnsentNowhere'
  BY <1>1, <1>2, <1>3, <1>4 DEF Apart, UnsentNowhere
<1>7. QueueApart' /\ DeferredApart'
  BY <1>1 DEF Apart, QueueApart, DeferredApart
<1>8. QueueNotDeferred' /\ EntryApart'
  BY <1>1, <1>4 DEF Apart, QueueNotDeferred, EntryApart
<1> QED
  BY <1>5, <1>6, <1>7, <1>8 DEF Apart

LEMMA ApartDropped ==
    ASSUME TypeOK, Apart, NEW t \in Threads, Drop(t)
    PROVE  Apart'
<1>1. UNCHANGED <<queue, wpc, entry, cursor, deferred>>
  BY DEF Drop, queueVars, workerVars
<1>2. \A u \in Threads : /\ hand'[u] = IF u = t THEN NoEvent ELSE hand[u]
                         /\ sent'[u] = IF u = t THEN FALSE ELSE sent[u]
  BY DEF Drop, TypeOK
<1>4. QueuedEvents' = QueuedEvents
  BY <1>1 DEF QueuedEvents
<1>5. HandsApart'
  BY <1>2 DEF Apart, HandsApart
<1>6. UnsentNowhere'
  <2>1. \A u \in Threads : hand'[u] # NoEvent => hand'[u] = hand[u] /\ sent'[u] = sent[u]
    BY <1>2
  <2> QED
    BY <1>1, <1>4, <2>1 DEF Apart, UnsentNowhere
<1>7. QueueApart' /\ DeferredApart'
  BY <1>1 DEF Apart, QueueApart, DeferredApart
<1>8. QueueNotDeferred' /\ EntryApart'
  BY <1>1, <1>4 DEF Apart, QueueNotDeferred, EntryApart
<1> QED
  BY <1>5, <1>6, <1>7, <1>8 DEF Apart

LEMMA ApartDequeued ==
    ASSUME QueueOK, TypeOK, InCall, Apart, Dequeue
    PROVE  Apart'
<1>1. /\ wpc = "dequeue" /\ wpc' # "recall" /\ entry' = Head(queue)
      /\ entry'.event \in QueuedEvents /\ QueuedEvents' \subseteq QueuedEvents
      /\ QueueApart' /\ entry'.event \notin QueuedEvents'
      /\ UNCHANGED <<deferred, hand, sent>>
  BY Dequeued DEF Dequeue, Apart, handVars
<1>2. \A u \in Objects : \A j \in 1..Len(deferred[u]) : deferred[u][j] \notin QueuedEvents
  BY <1>1 DEF Apart, QueueNotDeferred
<1>3. HandsApart' /\ DeferredApart'
  BY <1>1 DEF Apart, HandsApart, DeferredApart
<1>4. UnsentNowhere'
  BY <1>1 DEF Apart, UnsentNowhere
<1>5. QueueNotDeferred' /\ EntryApart'
  BY <1>1, <1>2 DEF QueueNotDeferred, EntryApart
<1> QED
  BY <1>1, <1>3, <1>4, <1>5 DEF Apart

LEMMA ApartDeferred ==
    ASSUME TypeOK, Apart, Defer
    PROVE  Apart'
<1>1. /\ wpc = "dispatch" /\ wpc' = "dequeue" /\ entry' = EndEntry
      /\ deferred' = [deferred EXCEPT ![entry.target] = Append(@, entry.event)]
      /\ UNCHANGED <<queue, hand, sent>>
  BY DEF Defer, EndIteration, queueVars, handVars
<1>2. entry.target \in Objects /\ entry.event \in Events /\ entry.event # NoEvent
  BY <1>1, EntriesTyped DEF TypeOK
<1>3. /\ entry.event \notin QueuedEvents
      /\ \A u \in Objects : \A j \in 1..Len(deferred[u]) : deferred[u][j] # entry.event
  BY <1>2 DEF Apart, EntryApart
<1> DEFINE o == entry.target
           n == Len(deferred[entry.target])
<1>4. /\ deferred[o] \in Seq(Events) /\ n \in Nat
      /\ deferred'[o] = Append(deferred[o], entry.event)
      /\ \A u \in Objects : u # o => deferred'[u] = deferred[u]
  BY <1>1, <1>2, LenProperties DEF TypeOK
<1>5. /\ Len(deferred'[o]) = n + 1 /\ deferred'[o][n + 1] = entry.event
      /\ \A j \in 1..n : deferred'[o][j] = deferred[o][j]
  BY <1>2, <1>4, AppendProperties
<1>6. ASSUME NEW u \in Objects, NEW j \in 1..Len(deferred'[u])
      PROVE  \/ j \in 1..Len(deferred[u]) /\ deferred'[u][j] = deferred[u][j]
             \/ u = o /\ j = n + 1 /\ deferred'[u][j] = entry.event
  <2>1. CASE u # o
    BY <1>4, <2>1
  <2>2. CASE u = o
    <3>1. j \in 1..n \/ j = n + 1
      BY <1>4, <1>5, <2>2
    <3>2. n = Len(deferred[u])
      BY <2>2
    <3>3. CASE j \in 1..n
      <4>1. deferred'[o][j] = deferred[o][j]
        BY <1>5, <3>3
      <4> QED
        BY <2>2, <3>2, <3>3, <4>1
    <3>4. CASE j = n + 1
      <4>1. deferred'[o][j] = entry.event
        BY <1>5, <3>4
      <4> HIDE DEF o, n
      <4> QED
        BY <2>2, <3>4, <4>1
    <3> QED
      BY <3>1, <3>3, <3>4
  <2> QED
    BY <2>1, <2>2
<1>7. QueuedEvents' = QueuedEvents
  BY <1>1 DEF QueuedEvents
<1>8. HandsApart' /\ QueueApart'
  BY <1>1 DEF Apart, HandsApart, QueueApart
<1>9. UnsentNowhere'
  <2> SUFFICES ASSUME NEW t \in Threads, hand[t] # NoEvent, ~sent[t]
               PROVE  /\ hand[t] \notin QueuedEvents /\ EndEntry.event # hand[t]
                      /\ \A u \in Objects : \A i \in 1..Len(deferred'[u]) :
                            deferred'[u][i] # hand[t]
    BY <1>1, <1>7 DEF UnsentNowhere
  <2>1. /\ hand[t] \notin QueuedEvents /\ entry.event # hand[t]
        /\ \A u \in Objects : \A i \in 1..Len(deferred[u]) : deferred[u][i] # hand[t]
    BY DEF Apart, UnsentNowhere
  <2> QED
    BY <1>6, <2>1, EntriesTyped
<1>10. DeferredApart'
  <2> SUFFICES ASSUME NEW u \in Objects, NEW v \in Objects, NEW i \in 1..Len(deferred'[u]),
                      NEW j \in 1..Len(deferred'[v]), deferred'[u][i] = deferred'[v][j]
               PROVE  u = v /\ i = j
    BY DEF DeferredApart
  <2>1. \/ i \in 1..Len(deferred[u]) /\ deferred'[u][i] = deferred[u][i]
        \/ u = o /\ i = n + 1 /\ deferred'[u][i] = entry.event
    BY <1>6
  <2>2. \/ j \in 1..Len(deferred[v]) /\ deferred'[v][j] = deferred[v][j]
        \/ v = o /\ j = n + 1 /\ deferred'[v][j] = entry.event
    BY <1>6
  <2> HIDE DEF o, n
  <2> QED
    BY <1>3, <2>1, <2>2 DEF Apart, DeferredApart
<1>11. QueueNotDeferred'
  <2>1. \A u \in Objects : \A j \in 1..Len(deferred[u]) : deferred[u][j] \notin QueuedEvents
    BY <1>1 DEF Apart, QueueNotDeferred
  <2>2. \A u \in Objects : \A j \in 1..Len(deferred'[u]) : deferred'[u][j] \notin QueuedEvents
    BY <1>3, <1>6, <2>1
  <2> QED
    BY <1>1, <1>7, <2>2 DEF QueueNotDeferred
<1>12. EntryApart'
  BY <1>1, EntriesTyped DEF EntryApart
<1> QED
  BY <1>8, <1>9, <1>10, <1>11, <1>12 DEF Apart

(* RecallEvents() puts the event before the cursor back into the queue.    *)
LEMMA ApartRecalled ==
    ASSUME QueueOK, TypeOK, Apart, RecallOne
    PROVE  Apart'
<1> DEFINE o == entry.target
           e == deferred[entry.target][cursor]
<1>1. /\ wpc = "recall" /\ wpc' = "recall" /\ cursor > 0 /\ cursor' = cursor - 1
      /\ Enqueues(Worker, [target |-> o, event |-> e])
      /\ UNCHANGED <<entry, deferred, hand, sent>>
  BY DEF RecallOne, Enqueues, handVars
<1>2. o \in Objects /\ e \in Events /\ cursor \in 1..Len(deferred[o])
  BY <1>1, RecalledTyped
<1>3. e \notin QueuedEvents
  BY <1>1, <1>2 DEF Apart, QueueNotDeferred
<1>4. QueuedEvents' = QueuedEvents \cup {e} /\ QueueApart'
  BY <1>1, <1>3, RecalledTyped, Enqueued, QueueAssumptions DEF Apart
<1>5. HandsApart' /\ DeferredApart'
  BY <1>1 DEF Apart, HandsApart, DeferredApart
<1>6. UnsentNowhere'
  <2>1. \A t \in Threads : hand[t] # NoEvent /\ ~sent[t] => hand[t] # e
    BY <1>2 DEF Apart, UnsentNowhere
  <2> QED
    BY <1>1, <1>4, <2>1 DEF Apart, UnsentNowhere
<1>7. EntryApart'
  <2>1. entry.event # NoEvent => entry.event # e
    BY <1>2 DEF Apart, EntryApart
  <2> QED
    BY <1>1, <1>4, <2>1 DEF Apart, EntryApart
<1>8. QueueNotDeferred'
  <2> SUFFICES ASSUME NEW u \in Objects,
                      NEW j \in 1..(IF o = u THEN cursor - 1 ELSE Len(deferred[u]))
               PROVE  deferred[u][j] \notin QueuedEvents'
    BY <1>1 DEF QueueNotDeferred
  <2>1. Len(deferred[u]) \in Nat
    BY LenProperties DEF TypeOK
  <2>2. /\ j \in 1..Len(deferred[u])
        /\ j \in 1..(IF wpc = "recall" /\ entry.target = u THEN cursor ELSE Len(deferred[u]))
        /\ u = o => j # cursor
    BY <1>1, <1>2, <2>1
  <2>3. deferred[u][j] \notin QueuedEvents
    BY <2>2 DEF Apart, QueueNotDeferred
  <2>4. deferred[u][j] # e
    BY <1>2, <2>2 DEF Apart, DeferredApart
  <2> QED
    BY <1>4, <2>3, <2>4
<1> QED
  BY <1>4, <1>5, <1>6, <1>7, <1>8 DEF Apart

(* Deferred events or queue entries are released.                          *)
LEMMA ApartReleased ==
    ASSUME TypeOK, Apart, UNCHANGED <<hand, sent>>,
           entry' = entry \/ entry'.event = NoEvent,
           queue' = queue \/ queue' = <<>>,
           \A o \in Objects : deferred'[o] = deferred[o] \/ deferred'[o] = <<>>,
           wpc' # "recall",
           wpc = "recall" => entry.target \in Objects /\ deferred'[entry.target] = <<>>
    PROVE  Apart'
<1>1. QueuedEvents' \subseteq QueuedEvents
  BY DEF QueuedEvents
<1>2. \A o \in Objects : \A j \in 1..Len(deferred'[o]) :
          j \in 1..Len(deferred[o]) /\ deferred'[o][j] = deferred[o][j]
  OBVIOUS
<1>3. HandsApart' /\ QueueApart'
  BY DEF Apart, HandsApart, QueueApart
<1>4. UnsentNowhere'
  <2> SUFFICES ASSUME NEW t \in Threads, hand[t] # NoEvent, ~sent[t]
               PROVE  /\ hand[t] \notin QueuedEvents' /\ entry'.event # hand[t]
                      /\ \A o \in Objects : \A i \in 1..Len(deferred'[o]) :
                            deferred'[o][i] # hand[t]
    BY DEF UnsentNowhere
  <2>1. /\ hand[t] \notin QueuedEvents /\ entry.event # hand[t]
        /\ \A o \in Objects : \A i \in 1..Len(deferred[o]) : deferred[o][i] # hand[t]
    BY DEF Apart, UnsentNowhere
  <2> QED
    BY <1>1, <1>2, <2>1
<1>5. DeferredApart'
  BY <1>2 DEF Apart, DeferredApart
<1>6. EntryApart'
  <2>1. CASE entry' = entry /\ entry.event # NoEvent
    <3>1. /\ entry.event \notin QueuedEvents
          /\ \A o \in Objects : \A i \in 1..Len(deferred[o]) : deferred[o][i] # entry.event
      BY <2>1 DEF Apart, EntryApart
    <3> QED
      BY <1>1, <1>2, <2>1, <3>1 DEF EntryApart
  <2>2. CASE entry'.event = NoEvent
    BY <2>2 DEF EntryApart
  <2> QED
    BY <2>1, <2>2
<1>7. QueueNotDeferred'
  <2> SUFFICES ASSUME NEW o \in Objects, NEW j \in 1..Len(deferred'[o])
               PROVE  deferred'[o][j] \notin QueuedEvents'
    BY DEF QueueNotDeferred
  <2>1. deferred'[o] = deferred[o] /\ j \in 1..Len(deferred[o])
    OBVIOUS
  <2>2. ~(wpc = "recall" /\ entry.target = o)
    OBVIOUS
  <2>3. deferred[o][j] \notin QueuedEvents
    BY <2>1, <2>2 DEF Apart, QueueNotDeferred
  <2> QED
    BY <1>1, <2>1, <2>3
<1> QED
  BY <1>3, <1>4, <1>5, <1>6, <1>7 DEF Apart

(* The end entry carries no event.                                         *)
LEMMA ApartStopped ==
    ASSUME QueueOK, TypeOK, OwnerOrder, Apart, Stop
    PROVE  Apart'
<1>1. /\ Enqueues(Owner, EndEntry) /\ opc = "up"
      /\ UNCHANGED <<wpc, cursor, entry, deferred, hand, sent>>
  BY DEF Stop, Ends, Enqueues, OwnerOrder, TypeOK, workerVars, handVars
<1>2. NoEvent \notin QueuedEvents
  <2> SUFFICES ASSUME NEW i \in 1..Len(queue) PROVE queue[i].event # NoEvent
    BY DEF QueuedEvents
  <2>1. queue[i] \in Entries
    BY ElementOfSeq DEF TypeOK, Q!TypeOK
  <2> QED
    BY <1>1, <2>1, EntriesTyped DEF OwnerOrder
<1>3. QueuedEvents' = QueuedEvents \cup {NoEvent} /\ QueueApart'
  BY <1>1, <1>2, EntriesTyped, Enqueued, QueueAssumptions DEF Apart
<1>4. HandsApart' /\ DeferredApart'
  BY <1>1 DEF Apart, HandsApart, DeferredApart
<1>5. UnsentNowhere' /\ EntryApart'
  BY <1>1, <1>3 DEF Apart, UnsentNowhere, EntryApart
<1>6. QueueNotDeferred'
  <2> SUFFICES ASSUME NEW u \in Objects,
                      NEW j \in 1..(IF wpc = "recall" /\ entry.target = u
                                    THEN cursor ELSE Len(deferred[u]))
               PROVE  deferred[u][j] \notin QueuedEvents'
    BY <1>1 DEF QueueNotDeferred
  <2>1. deferred[u] \in Seq(Events) /\ Len(deferred[u]) \in Nat
    BY LenProperties DEF TypeOK
  <2>2. j \in 1..Len(deferred[u])
    BY <2>1 DEF TypeOK
  <2>3. deferred[u][j] # NoEvent
    BY <2>1, <2>2, ElementOfSeq, EntriesTyped
  <2> QED
    BY <1>3, <2>3 DEF Apart, QueueNotDeferred
<1> QED
  BY <1>3, <1>4, <1>5, <1>6 DEF Apart

LEMMA ApartStep ==
    ASSUME ScopesNest, QueueOK, TypeOK, InCall, OwnerOrder, Ending, Apart, [Next]_vars
    PROVE  Apart'
<1> USE QueueAssumptions
<1>1. ASSUME NEW t \in Threads, Sends(t) PROVE Apart'
  BY <1>1, ApartMade, ApartPassed, ApartDropped DEF Sends, Completes
<1>2. ASSUME NEW t \in Threads, Release(t) PROVE Apart'
  BY <1>2, ApartUndisturbed DEF Release, Q!Release, workerVars, handVars
<1>3. CASE CallDequeue \/ Acquire
  BY <1>3, ApartUndisturbed
  DEF CallDequeue, Acquire, Q!CallDequeue, Q!Acquire, workerVars, handVars
<1>4. CASE Handle \/ CallRecall
  BY <1>4, ApartUndisturbed DEF Handle, CallRecall, queueVars, handVars
<1>5. CASE Return
  <2>1. wpc = "actions" /\ wpc' = "dequeue" /\ entry'.event = NoEvent
    BY <1>5, EntriesTyped DEF Return, EndIteration
  <2> QED
    BY <1>5, <2>1, ApartReleased DEF Return, queueVars, handVars
<1>6. CASE RecallDone
  <2>1. entry.target \in Objects /\ deferred' = [deferred EXCEPT ![entry.target] = <<>>]
        /\ wpc' = "actions"
    BY <1>6 DEF RecallDone, TypeOK
  <2>2. deferred'[entry.target] = <<>>
        /\ \A o \in Objects : deferred'[o] = deferred[o] \/ deferred'[o] = <<>>
    BY <2>1 DEF TypeOK
  <2> QED
    BY <1>6, <2>1, <2>2, ApartReleased DEF RecallDone, queueVars, handVars
<1>7. CASE (\E o \in Objects : Register(o)) \/ Join \/ (\E p \in Producers : Quit(p))
           \/ DestroyPool \/ UNCHANGED vars
  BY <1>7, ApartUndisturbed
  DEF Register, Join, Quit, DestroyPool, vars, queueVars, workerVars, handVars
<1>8. CASE DestroyObjects \/ DestroyQueue
  <2>1. wpc \in {"dequeue", "exited"}
    BY <1>8, EndsInOrder DEF DestroyObjects, DestroyQueue, Parts
  <2>2. \A o \in Objects : deferred'[o] = deferred[o] \/ deferred'[o] = <<>>
    BY <1>8 DEF DestroyObjects, DestroyQueue, workerVars
  <2> QED
    BY <1>8, <2>1, <2>2, ApartReleased
    DEF DestroyObjects, DestroyQueue, queueVars, workerVars, handVars
<1> QED
  BY <1>1, <1>2, <1>3, <1>4, <1>5, <1>6, <1>7, <1>8, ApartDequeued, ApartDeferred,
     ApartRecalled, ApartStopped
  DEF Next, WorkerNext, OwnerNext

-----------------------------------------------------------------------------
(* The theorems.                                                           *)

(* The inductive invariant.                                                *)
THEOREM SpecIInv ==
    ASSUME ScopesNest
    PROVE  SafeSpec => []IInv
<1>1. IInv /\ [Next]_vars => IInv'
  <2> SUFFICES ASSUME IInv, [Next]_vars PROVE IInv'
    OBVIOUS
  <2>1. /\ QueueOK /\ QueueInv /\ TypeOK /\ InCall
        /\ OwnerOrder /\ Ending /\ CallsDone /\ Apart
    BY QueueUsable DEF IInv
  <2>2. QueueInv'
    BY <2>1, QueueInvStep
  <2>3. TypeOK' /\ InCall'
    BY <2>1, TypeStep
  <2>4. OwnerOrder' /\ CallsDone'
    BY <2>1, OrderStep, CallsStep
  <2>5. Ending'
    BY <2>1, EndingStep
  <2>6. Apart'
    BY <2>1, ApartStep
  <2> QED
    BY <2>2, <2>3, <2>4, <2>5, <2>6 DEF IInv
<1> QED
  BY <1>1, InitIInv, PTL DEF SafeSpec

(* In an application whose scopes nest all variables keep their types:     *)
(* each entry that Run() is to dispatch has a target, and RecallEvents()   *)
(* stays inside deferred_events_.                                          *)
THEOREM TypeCorrect ==
    ASSUME ScopesNest
    PROVE  SafeSpec => []TypeOK
<1>1. IInv => TypeOK
  BY DEF IInv
<1> QED
  BY <1>1, SpecIInv, PTL

(* In an application whose scopes nest, whatever else the order of its end *)
(* is, nobody uses an object or the queue that has been destroyed, and the *)
(* event pool is destroyed when nobody owns an event.                      *)
THEOREM NothingIsLeftDangling ==
    ASSUME ScopesNest
    PROVE  SafeSpec => []NothingDangles
<1>1. IInv => NothingDangles
  <2> SUFFICES ASSUME IInv PROVE NothingDangles
    OBVIOUS
  <2>1. TypeOK /\ InCall /\ OwnerOrder /\ Ending /\ CallsDone
    BY DEF IInv
  <2>2. "objects" \in gone => wpc \notin {"dispatch", "actions", "recall"}
    BY <2>1, NobodySends
  <2>3. ASSUME NoQueue PROVE wpc = "exited" /\ \A t \in Threads : op[t] = "idle"
    <3>1. opc = "joined" /\ wpc = "exited" /\ quit = Producers
      BY <2>1, <2>3 DEF Ending, OwnerOrder, NoQueue
    <3>2. op[Worker] \in Q!OpStates
      BY <2>1, QueueAssumptions DEF TypeOK, Q!TypeOK
    <3>3. op[Worker] = "idle"
      BY <2>1, <3>1, <3>2 DEF InCall, CallsDone, Q!OpStates
    <3>4. op[Owner] = "idle" /\ \A p \in Producers : op[p] = "idle"
      BY <2>1, <3>1 DEF CallsDone
    <3> QED
      BY <3>1, <3>3, <3>4 DEF Threads
  <2>4. ASSUME "pool" \in gone PROVE Owned = {}
    <3>1. CASE waited
      BY <2>1, <3>1 DEF Ending, Calm
    <3>2. CASE ~waited
      <4>1. /\ queue = <<>> /\ \A o \in Objects : deferred[o] = <<>>
            /\ wpc = "exited" /\ entry.event = NoEvent
        BY <2>1, <2>4, <3>2, EntriesTyped DEF Ending, NoQueue, OwnerOrder
      <4>2. \A t \in Threads : hand[t] = NoEvent
        BY <2>1, <2>4, NobodySends
      <4>3. QueuedEvents = {} /\ \A o \in Objects : DeferredEvents(o) = {}
        BY <4>1 DEF QueuedEvents, DeferredEvents
      <4> QED
        BY <4>1, <4>2, <4>3, EntriesTyped DEF Owned
    <3> QED
      BY <3>1, <3>2
  <2> QED
    BY <2>2, <2>3, <2>4 DEF NothingDangles, NoQueue
<1> QED
  BY <1>1, SpecIInv, PTL

(* Entries that carry different things, none of them x, are no more than   *)
(* there are events: with NoEvent in place of x.                           *)
LEMMA EntriesAreFew ==
    ASSUME QueueOK, QueueApart, NEW x \in Events \cup {NoEvent}, x \notin QueuedEvents
    PROVE  Len(queue) <= Cardinality(Events) /\ Cardinality(Events) \in Nat
<1> DEFINE D == 1..Len(queue)
           R == (Events \cup {NoEvent}) \ {x}
           f == [i \in D |-> queue[i].event]
<1>1. queue \in Seq(Entries) /\ Len(queue) \in Nat
  BY LenProperties DEF QueueOK, Q!TypeOK
<1>2. IsFiniteSet(D) /\ Cardinality(D) = Len(queue)
  <2>1. /\ IsFiniteSet(D)
        /\ Cardinality(D) = IF 1 > Len(queue) THEN 0 ELSE Len(queue) - 1 + 1
    BY <1>1, FS_Interval
  <2> HIDE DEF D
  <2> QED
    BY <1>1, <2>1
<1>3. IsFiniteSet(R) /\ Cardinality(R) = Cardinality(Events) /\ Cardinality(Events) \in Nat
  <2>1. IsFiniteSet(Events) /\ Cardinality(Events) \in Nat /\ NoEvent \notin Events
    BY EventsAssumption, FS_CardinalityType
  <2>2. /\ IsFiniteSet(Events \cup {NoEvent})
        /\ Cardinality(Events \cup {NoEvent}) = Cardinality(Events) + 1
    BY <2>1, FS_AddElement
  <2>3. /\ IsFiniteSet(R)
        /\ Cardinality(R) = Cardinality(Events \cup {NoEvent}) - 1
    BY <2>2, FS_RemoveElement
  <2> QED
    BY <2>1, <2>2, <2>3
<1>4. f \in Injection(D, R)
  <2>1. \A i \in D : f[i] \in R
    <3> SUFFICES ASSUME NEW i \in D PROVE queue[i].event \in R
      OBVIOUS
    <3>1. queue[i] \in Entries
      BY <1>1, ElementOfSeq
    <3>2. queue[i].event \in QueuedEvents
      BY DEF QueuedEvents
    <3> QED
      BY <3>1, <3>2, EntriesTyped
  <2>2. \A i, j \in D : f[i] = f[j] => i = j
    BY DEF QueueApart
  <2>3. f \in [D -> R]
    BY <2>1
  <2> HIDE DEF f, D, R
  <2> QED
    BY <2>2, <2>3 DEF Injection, IsInjective
<1> HIDE DEF f, D, R
<1> QED
  BY <1>2, <1>3, <1>4, FS_Injection

(* do_allocate()'s assertion cannot fail in a queue that has a node more   *)
(* than there are events: whoever sends, recalls or stops, there is a node *)
(* left for the entry.                                                     *)
THEOREM NodesAlwaysSuffice ==
    ASSUME EnoughNodes, ScopesNest
    PROVE  SafeSpec => []NodesSuffice
<1>1. IInv => NodesSuffice
  <2> SUFFICES ASSUME IInv, WantsNode PROVE Len(queue) < NumEntries
    BY DEF NodesSuffice
  <2>1. QueueOK /\ QueueApart /\ TypeOK /\ OwnerOrder /\ UnsentNowhere /\ QueueNotDeferred
    BY QueueUsable DEF IInv, Apart
  <2>2. \E x \in Events \cup {NoEvent} : x \notin QueuedEvents
    <3>1. ASSUME NEW t \in Threads, op[t] = "idle" /\ hand[t] # NoEvent /\ ~sent[t]
          PROVE  hand[t] \in Events \cup {NoEvent} /\ hand[t] \notin QueuedEvents
      BY <2>1, <3>1 DEF UnsentNowhere, TypeOK
    <3>2. ASSUME wpc = "recall", cursor > 0
          PROVE  /\ deferred[entry.target][cursor] \in Events
                 /\ deferred[entry.target][cursor] \notin QueuedEvents
      <4>1. entry.target \in Objects /\ cursor \in 1..cursor
        BY <2>1, <3>2, RecalledTyped DEF TypeOK
      <4> QED
        BY <2>1, <3>2, <4>1, RecalledTyped DEF QueueNotDeferred
    <3>3. ASSUME opc = "up" PROVE NoEvent \notin QueuedEvents
      <4> SUFFICES ASSUME NEW i \in 1..Len(queue) PROVE queue[i].event # NoEvent
        BY DEF QueuedEvents
      <4>1. queue[i] \in Entries
        BY <2>1, ElementOfSeq DEF TypeOK, Q!TypeOK
      <4> QED
        BY <2>1, <3>3, <4>1, EntriesTyped DEF OwnerOrder
    <3> QED
      BY <3>1, <3>2, <3>3 DEF WantsNode
  <2>3. PICK x \in Events \cup {NoEvent} : x \notin QueuedEvents
    BY <2>2
  <2>4. Len(queue) <= Cardinality(Events) /\ Cardinality(Events) \in Nat
    BY <2>1, <2>3, EntriesAreFew
  <2>5. Len(queue) \in Nat
    BY <2>1, LenProperties DEF TypeOK, Q!TypeOK
  <2> QED
    BY <2>4, <2>5, NumEntriesAssumption DEF EnoughNodes
<1> QED
  BY <1>1, SpecIInv, PTL
=============================================================================
