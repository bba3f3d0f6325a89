---------------------- MODULE ActiveObjectDomainProofs ----------------------
(***************************************************************************)
(* Proofs about ActiveObjectDomain, for any number of producers and active *)
(* objects, any number of events and any range of the semaphore.           *)
(*                                                                         *)
(* What holds of the queue is taken from EventQueueProofs: every step of   *)
(* the domain is a step of its queue or leaves it alone.                   *)
(***************************************************************************)
EXTENDS ActiveObjectDomain, FiniteSetTheorems, SequenceTheorems, TLAPS

QP == INSTANCE EventQueueProofs WITH MaxLen <- MaxEvents + 1

(* What the domain needs of its queue: front() is called on an entry.      *)
QueueOK == Q!TypeOK /\ (op[Worker] = "pop" => queue # <<>>)

(* The worker is inside Dequeue() only where Run() calls it.               *)
InCall == op[Worker] \in {"acquire", "pop"} => wpc = "dequeue"

(* The end entry: nothing that was sent before Stop() is behind it.        *)
EndIsLast ==
    /\ stopAt <= taken
    /\ opc = "up" => wpc # "exited" /\ \A i \in 1..Len(queue) : queue[i].target # NoObject
    /\ \A i, j \in 1..Len(queue) :
          i < j /\ queue[i].target = NoObject => queue[j].event > stopAt

-----------------------------------------------------------------------------
(* The queue of the domain is an EventQueue.                               *)

LEMMA QueueAssumptions ==
    /\ IsFiniteSet(Threads) /\ QP!IsFiniteSet(Threads)
    /\ MaxEvents + 1 \in Nat /\ SemMax \in Nat
<1>1. IsFiniteSet({Worker, Owner})
  <2>1. IsFiniteSet({Worker})
    BY FS_Singleton
  <2>2. {Worker, Owner} = {Worker} \cup {Owner}
    OBVIOUS
  <2> QED
    BY <2>1, <2>2, FS_AddElement
<1>2. IsFiniteSet(Threads)
  BY <1>1, ProducersAssumption, FS_Union DEF Threads
<1>3. QP!IsFiniteSet(Threads)
  BY <1>2 DEF IsFiniteSet, QP!IsFiniteSet
<1> QED
  BY <1>2, <1>3, MaxEventsAssumption, SemMaxAssumption

LEMMA EntriesTyped ==
    /\ EndEntry \in Entries
    /\ \A o \in Objects : \A e \in Events : [target |-> o, event |-> e] \in Entries
    /\ \A x \in Entries :
          /\ x.target \in Objects \cup {NoObject} /\ x.event \in Nat
          /\ x.target \in Objects => x.event \in Events
          /\ x.target = NoObject => x.event = 0
    /\ NoObject \notin Objects
BY NoObjectAssumption, MaxEventsAssumption DEF Entries, EndEntry, Events

(* Every operation on the queue is one of its thread and an entry.         *)
LEMMA QueueStep == TypeOK /\ [Next]_vars => [Q!Next]_Q!vars
<1> SUFFICES ASSUME TypeOK, [Next]_vars PROVE [Q!Next]_queueVars
  BY DEF queueVars, Q!vars
<1>0. taken < MaxEvents => taken + 1 \in Events
  BY MaxEventsAssumption DEF TypeOK, Events
<1>1. ASSUME NEW t \in Threads, NEW o \in Objects, Take(t, o) \/ TakeHighPrio(t, o)
      PROVE  Q!Next
  BY <1>0, <1>1, EntriesTyped DEF Take, TakeHighPrio, Q!Next
<1>2. ASSUME NEW t \in Threads, Release(t) PROVE Q!Next
  BY <1>2 DEF Release, Q!Next
<1>3. CASE Produce
  BY <1>1, <1>3 DEF Produce, Threads
<1>4. CASE \E p \in Producers : Release(p)
  BY <1>2, <1>4 DEF Threads
<1>5. CASE CallDequeue \/ Acquire \/ Dequeue
  BY <1>5 DEF CallDequeue, Acquire, Dequeue, Q!Next, Threads
<1>6. CASE RecallOne
  <2>1. deferred[entry.target][cursor] \in Events
    BY <1>6, ElementOfSeq DEF RecallOne, TypeOK
  <2> QED
    BY <1>6, <2>1, EntriesTyped DEF RecallOne, Q!Next, Threads, TypeOK
<1>7. CASE \E o \in Objects : Send(o)
  BY <1>1, <1>7 DEF Send, Threads
<1>8. CASE Release(Worker) \/ Release(Owner)
  BY <1>2, <1>8 DEF Threads
<1>9. CASE Stop
  BY <1>9, EntriesTyped DEF Stop, Q!Next, Threads
<1>10. CASE \/ Defer \/ Handle \/ Return \/ CallRecall \/ RecallDone
            \/ (\E o \in Objects : Register(o)) \/ Join \/ UNCHANGED vars
  BY <1>10
  DEF Defer, Handle, Return, CallRecall, RecallDone, Register, Join, vars
<1> QED
  BY <1>3, <1>4, <1>5, <1>6, <1>7, <1>8, <1>9, <1>10 DEF Next, WorkerNext, OwnerNext

LEMMA QueueNext == QP!IInv /\ [Q!Next]_Q!vars => QP!IInv'
<1>1. [Q!Next]_Q!vars => [QP!Next]_QP!vars
  BY DEF Q!Next, QP!Next, Q!vars, QP!vars, Q!EnqueueBack, QP!EnqueueBack, Q!EnqueueFront,
         QP!EnqueueFront, Q!Release, QP!Release, Q!CallDequeue, QP!CallDequeue, Q!Acquire,
         QP!Acquire, Q!Dequeue, QP!Dequeue, Q!Goto, QP!Goto, Q!SemAfterRelease,
         QP!SemAfterRelease
<1> QED
  BY <1>1, QP!NextIInv, QueueAssumptions

LEMMA QueueSound == QP!IInv => QueueOK
<1> SUFFICES ASSUME QP!IInv PROVE QueueOK
  OBVIOUS
<1>1. Q!TypeOK
  BY DEF QP!IInv, QP!TypeOK, Q!TypeOK, QP!OpStates, Q!OpStates
<1>2. ASSUME op[Worker] = "pop" PROVE queue # <<>>
  <2>1. QP!PopHasEntry
    BY QP!CoveredHasEntry, QueueAssumptions
  <2>2. Worker \in QP!InOp("pop")
    BY <1>2 DEF QP!InOp, Threads
  <2>3. \A S : QP!Cardinality(S) = Cardinality(S)
    BY DEF QP!Cardinality, Cardinality
  <2>4. IsFiniteSet(QP!InOp("pop"))
    BY QueueAssumptions, FS_Subset DEF QP!InOp
  <2>5. Cardinality(QP!InOp("pop")) # 0
    BY <2>2, <2>4, FS_EmptySet
  <2>6. Cardinality(QP!InOp("pop")) \in Nat
    BY <2>4, FS_CardinalityType
  <2> QED
    BY <2>1, <2>3, <2>5, <2>6 DEF QP!PopHasEntry
<1> QED
  BY <1>1, <1>2 DEF QueueOK

-----------------------------------------------------------------------------
(* What the operations do to the list.                                     *)

LEMMA InsertBack ==
    ASSUME QueueOK, NEW t, NEW e \in Entries, Q!EnqueueBack(t, e)
    PROVE  /\ Len(queue) \in Nat /\ Len(queue') = Len(queue) + 1
           /\ \A i \in 1..Len(queue) : queue'[i] = queue[i]
           /\ queue'[Len(queue) + 1] = e
           /\ InCall => InCall' \/ wpc' # wpc
BY AppendProperties, LenProperties
DEF QueueOK, Q!TypeOK, Q!EnqueueBack, Q!Goto, InCall

LEMMA InsertFront ==
    ASSUME QueueOK, NEW t, NEW e \in Entries, Q!EnqueueFront(t, e)
    PROVE  /\ Len(queue) \in Nat /\ Len(queue') = Len(queue) + 1
           /\ \A i \in 1..Len(queue) : queue'[i + 1] = queue[i]
           /\ \A i \in 2..Len(queue') : queue'[i] = queue[i - 1] /\ i - 1 \in 1..Len(queue)
           /\ queue'[1] = e
           /\ InCall => InCall' \/ wpc' # wpc
<1>1. <<e>> \in Seq(Entries) /\ Len(<<e>>) = 1 /\ <<e>>[1] = e
  OBVIOUS
<1>2. queue \in Seq(Entries) /\ queue' = <<e>> \o queue /\ Len(queue) \in Nat
  BY LenProperties DEF QueueOK, Q!TypeOK, Q!EnqueueFront
<1>3. InCall => InCall' \/ wpc' # wpc
  BY DEF QueueOK, Q!TypeOK, Q!EnqueueFront, Q!Goto, InCall
<1> QED
  BY <1>1, <1>2, <1>3, ConcatProperties

LEMMA TakeFront ==
    ASSUME QueueOK, Q!Dequeue(Worker)
    PROVE  /\ Len(queue) \in Nat \ {0} /\ Len(queue') = Len(queue) - 1
           /\ \A i \in 1..Len(queue') : queue'[i] = queue[i + 1] /\ i + 1 \in 2..Len(queue)
           /\ \A i \in 2..Len(queue) : queue'[i - 1] = queue[i] /\ i - 1 \in 1..Len(queue')
           /\ Head(queue) = queue[1] /\ queue[1] \in Entries
           /\ op'[Worker] = "idle" /\ op[Worker] = "pop"
<1>1. op[Worker] = "pop" /\ queue # <<>> /\ queue' = Tail(queue) /\ queue \in Seq(Entries)
  BY DEF QueueOK, Q!TypeOK, Q!Dequeue, Q!Goto
<1>2. op'[Worker] = "idle"
  BY DEF QueueOK, Q!TypeOK, Q!Dequeue, Q!Goto, Threads
<1>3. /\ Len(queue) \in Nat \ {0} /\ Len(queue') = Len(queue) - 1
      /\ \A i \in 1..Len(queue') : queue'[i] = queue[i + 1]
      /\ Head(queue) = queue[1]
  BY <1>1, HeadTailProperties, LenProperties, EmptySeq
<1>4. queue[1] \in Entries
  BY <1>1, <1>3, ElementOfSeq
<1> QED
  BY <1>1, <1>2, <1>3, <1>4

-----------------------------------------------------------------------------
(* The types.                                                              *)

LEMMA InitTypes == Init => TypeOK /\ InCall /\ EndIsLast /\ DrainBeforeExit /\ QP!IInv
<1> SUFFICES ASSUME Init
             PROVE  TypeOK /\ InCall /\ EndIsLast /\ DrainBeforeExit /\ QP!IInv
  OBVIOUS
<1>1. QP!Init => QP!IInv
  BY QP!InitIInv, QueueAssumptions
<1>2. QP!IInv
  BY <1>1 DEF Init, Q!Init, QP!Init
<1>3. Q!TypeOK
  BY <1>2, QueueSound DEF QueueOK
<1>4. /\ registered \subseteq Objects
      /\ deferred \in [Objects -> Seq(Events)]
      /\ wpc = "dequeue" /\ entry \in Entries /\ cursor \in Nat
      /\ opc = "up" /\ taken \in 0..MaxEvents /\ stopAt \in 0..MaxEvents
      /\ urgent \subseteq Events /\ handled \subseteq Events
      /\ stopAt <= taken /\ Len(queue) = 0
  BY EntriesTyped, MaxEventsAssumption DEF Init, Q!Init
<1> QED
  BY <1>2, <1>3, <1>4 DEF TypeOK, InCall, EndIsLast, DrainBeforeExit

LEMMA TypeStep ==
    ASSUME QueueOK, QueueOK', TypeOK, InCall, [Next]_vars
    PROVE  TypeOK' /\ InCall'
<1> USE MaxEventsAssumption
<1>0. Q!TypeOK'
  BY DEF QueueOK
<1>1. ASSUME NEW t \in Threads, NEW o \in Objects, Take(t, o)
      PROVE  TypeOK' /\ InCall'
  <2>1. /\ taken + 1 \in Events /\ taken' = taken + 1 /\ taken' \in 0..MaxEvents
        /\ UNCHANGED <<urgent, workerVars, ownerVars>>
        /\ Q!EnqueueBack(t, [target |-> o, event |-> taken + 1])
    BY <1>1 DEF Take, TypeOK, Events
  <2>2. InCall'
    BY <2>1, InsertBack, EntriesTyped DEF workerVars
  <2> QED
    BY <1>0, <2>1, <2>2 DEF TypeOK, workerVars, ownerVars
<1>2. ASSUME NEW t \in Threads, NEW o \in Objects, TakeHighPrio(t, o)
      PROVE  TypeOK' /\ InCall'
  <2>1. /\ taken + 1 \in Events /\ taken' = taken + 1 /\ taken' \in 0..MaxEvents
        /\ urgent' = urgent \cup {taken + 1} /\ UNCHANGED <<workerVars, ownerVars>>
        /\ Q!EnqueueFront(t, [target |-> o, event |-> taken + 1])
    BY <1>2 DEF TakeHighPrio, TypeOK, Events
  <2>2. InCall'
    BY <2>1, InsertFront, EntriesTyped DEF workerVars
  <2> QED
    BY <1>0, <2>1, <2>2 DEF TypeOK, workerVars, ownerVars
<1>3. ASSUME NEW t \in Threads, Release(t) PROVE TypeOK' /\ InCall'
  BY <1>0, <1>3
  DEF Release, Q!Release, Q!Goto, Q!TypeOK, QueueOK, TypeOK, InCall,
      workerVars, sentVars, ownerVars
<1>4. CASE CallDequeue
  BY <1>0, <1>4
  DEF CallDequeue, Q!CallDequeue, TypeOK, InCall, workerVars, sentVars, ownerVars
<1>5. CASE Acquire
  <2>1. wpc = "dequeue"
    BY <1>5 DEF Acquire, Q!Acquire, Q!Goto, InCall
  <2> QED
    BY <1>0, <1>5, <2>1 DEF Acquire, TypeOK, InCall, workerVars, sentVars, ownerVars
<1>6. CASE Dequeue
  <2>1. /\ entry' \in Entries /\ wpc' \in {"exited", "dispatch"}
        /\ wpc' = "dispatch" => entry'.target \in Objects
        /\ op'[Worker] = "idle" /\ UNCHANGED <<cursor, deferred, handled, sentVars, ownerVars>>
    BY <1>6, TakeFront, EntriesTyped DEF Dequeue
  <2> QED
    BY <1>0, <2>1 DEF TypeOK, InCall, sentVars, ownerVars
<1>7. CASE Defer
  <2>1. entry.target \in Objects /\ entry.event \in Events
    BY <1>7, EntriesTyped DEF Defer, TypeOK
  <2>2. deferred' \in [Objects -> Seq(Events)]
    BY <1>7, <2>1, AppendProperties DEF Defer, TypeOK
  <2> QED
    BY <1>0, <1>7, <2>2 DEF Defer, TypeOK, InCall, queueVars, sentVars, ownerVars
<1>8. CASE Handle
  <2>1. entry.event \in Events
    BY <1>8, EntriesTyped DEF Handle, TypeOK
  <2> QED
    BY <1>0, <1>8, <2>1 DEF Handle, TypeOK, InCall, queueVars, sentVars, ownerVars
<1>9. CASE CallRecall
  <2>1. cursor' \in Nat /\ cursor' = Len(deferred[entry.target])
    BY <1>9, LenProperties DEF CallRecall, TypeOK
  <2> QED
    BY <1>0, <1>9, <2>1 DEF CallRecall, TypeOK, InCall, queueVars, sentVars, ownerVars
<1>10. CASE RecallOne
  <2>1. entry.target \in Objects /\ cursor' \in Nat /\ cursor' <= Len(deferred[entry.target])
        /\ deferred[entry.target] \in Seq(Events)
    BY <1>10, LenProperties DEF RecallOne, TypeOK
  <2>2. deferred[entry.target][cursor] \in Events
    BY <1>10, ElementOfSeq DEF RecallOne, TypeOK
  <2>3. InCall'
    BY <1>10, <2>1, <2>2, InsertFront, EntriesTyped DEF RecallOne
  <2> QED
    BY <1>0, <1>10, <2>1, <2>3 DEF RecallOne, TypeOK, sentVars, ownerVars
<1>11. CASE RecallDone
  <2>1. deferred' \in [Objects -> Seq(Events)]
    BY <1>11 DEF RecallDone, TypeOK
  <2> QED
    BY <1>0, <1>11, <2>1 DEF RecallDone, TypeOK, InCall, queueVars, sentVars, ownerVars
<1>12. CASE Return
  BY <1>0, <1>12 DEF Return, TypeOK, InCall, queueVars, sentVars, ownerVars
<1>13. ASSUME NEW o \in Objects, Register(o) PROVE TypeOK' /\ InCall'
  BY <1>0, <1>13 DEF Register, SetQueue, TypeOK, InCall, queueVars, workerVars, sentVars
<1>14. CASE Stop
  <2>1. InCall'
    BY <1>14, InsertBack, EntriesTyped DEF Stop, workerVars
  <2> QED
    BY <1>0, <1>14, <2>1 DEF Stop, TypeOK, workerVars, sentVars
<1>15. CASE Join
  BY <1>0, <1>15 DEF Join, TypeOK, InCall, queueVars, workerVars, sentVars
<1>16. CASE UNCHANGED vars
  BY <1>0, <1>16 DEF vars, TypeOK, InCall, queueVars, workerVars, sentVars, ownerVars
<1> QED
  BY <1>1, <1>2, <1>3, <1>4, <1>5, <1>6, <1>7, <1>8, <1>9, <1>10, <1>11, <1>12, <1>13,
     <1>14, <1>15, <1>16
  DEF Next, Produce, WorkerNext, OwnerNext, Send, Threads

-----------------------------------------------------------------------------
(* The end entry.                                                          *)

(* Steps that leave the queue, the owner and the worker's place alone, or  *)
(* move the worker inside Run()'s loop.                                    *)
LEMMA EndUndisturbed ==
    ASSUME EndIsLast, DrainBeforeExit, UNCHANGED <<queue, opc, stopAt, taken>>,
           wpc' = "exited" => wpc = "exited"
    PROVE  EndIsLast' /\ DrainBeforeExit'
BY DEF EndIsLast, DrainBeforeExit

(* An entry of an event is put in front; at the back, that of a new one.   *)
LEMMA EndOvertaken ==
    ASSUME QueueOK, TypeOK, EndIsLast, DrainBeforeExit, NEW t, NEW e \in Entries,
           e.target # NoObject, UNCHANGED <<opc, stopAt, wpc>>,
           taken' \in Nat, taken' >= taken,
           \/ Q!EnqueueBack(t, e) /\ e.event > taken
           \/ Q!EnqueueFront(t, e) /\ (e.event > taken \/ wpc # "exited")
    PROVE  EndIsLast' /\ DrainBeforeExit'
<1>1. stopAt \in Nat /\ taken \in Nat /\ stopAt <= taken /\ e.event \in Nat
  BY MaxEventsAssumption, EntriesTyped DEF TypeOK, EndIsLast
<1>2. stopAt' <= taken'
  BY <1>1
<1>3. CASE Q!EnqueueBack(t, e) /\ e.event > taken
  <2>1. /\ Len(queue) \in Nat /\ Len(queue') = Len(queue) + 1
        /\ \A i \in 1..Len(queue') :
              IF i = Len(queue') THEN queue'[i] = e ELSE queue'[i] = queue[i] /\ i \in 1..Len(queue)
    BY <1>3, InsertBack
  <2>2. ASSUME NEW i \in 1..Len(queue'), NEW j \in 1..Len(queue'), i < j,
               queue'[i].target = NoObject
        PROVE  queue'[j].event > stopAt
    <3>1. i \in 1..Len(queue) /\ queue'[i] = queue[i]
      BY <2>1, <2>2
    <3>2. CASE j = Len(queue')
      BY <1>1, <1>3, <2>1, <3>2
    <3>3. CASE j # Len(queue')
      <4>1. j \in 1..Len(queue) /\ queue'[j] = queue[j]
        BY <2>1, <3>3
      <4> QED
        BY <2>2, <3>1, <4>1 DEF EndIsLast
    <3> QED
      BY <3>2, <3>3
  <2>3. ASSUME opc = "up" PROVE \A i \in 1..Len(queue') : queue'[i].target # NoObject
    BY <2>1, <2>3 DEF EndIsLast
  <2>4. EndIsLast'
    BY <1>1, <1>2, <2>2, <2>3 DEF EndIsLast
  <2>5. ASSUME wpc = "exited", NEW i \in 1..Len(queue') PROVE queue'[i].event > stopAt
    BY <1>1, <1>3, <2>1, <2>5 DEF DrainBeforeExit
  <2> QED
    BY <2>4, <2>5 DEF DrainBeforeExit
<1>4. CASE Q!EnqueueFront(t, e) /\ (e.event > taken \/ wpc # "exited")
  <2>1. /\ Len(queue) \in Nat /\ Len(queue') = Len(queue) + 1
        /\ \A i \in 1..Len(queue') :
              IF i = 1 THEN queue'[i] = e ELSE queue'[i] = queue[i - 1] /\ i - 1 \in 1..Len(queue)
    BY <1>4, InsertFront
  <2>2. wpc = "exited" => e.event > stopAt
    BY <1>1, <1>4
  <2>3. ASSUME NEW i \in 1..Len(queue'), NEW j \in 1..Len(queue'), i < j,
               queue'[i].target = NoObject
        PROVE  queue'[j].event > stopAt
    <3>1. i # 1 /\ j # 1
      BY <2>1, <2>3
    <3>2. /\ queue'[i] = queue[i - 1] /\ i - 1 \in 1..Len(queue)
          /\ queue'[j] = queue[j - 1] /\ j - 1 \in 1..Len(queue)
      BY <2>1, <3>1
    <3>3. i - 1 < j - 1
      BY <2>3
    <3> QED
      BY <2>3, <3>2, <3>3 DEF EndIsLast
  <2>4. ASSUME opc = "up" PROVE \A i \in 1..Len(queue') : queue'[i].target # NoObject
    BY <2>1, <2>4 DEF EndIsLast
  <2>5. EndIsLast'
    BY <1>1, <1>2, <2>3, <2>4 DEF EndIsLast
  <2>6. ASSUME wpc = "exited", NEW i \in 1..Len(queue') PROVE queue'[i].event > stopAt
    BY <1>1, <2>1, <2>2, <2>6 DEF DrainBeforeExit
  <2> QED
    BY <2>5, <2>6 DEF DrainBeforeExit
<1> QED
  BY <1>3, <1>4

LEMMA EndStep ==
    ASSUME QueueOK, TypeOK, InCall, EndIsLast, DrainBeforeExit, [Next]_vars
    PROVE  EndIsLast' /\ DrainBeforeExit'
<1>0. taken \in Nat /\ stopAt \in Nat /\ queue \in Seq(Entries) /\ Len(queue) \in Nat
      /\ \A i \in 1..Len(queue) : queue[i] \in Entries
  BY MaxEventsAssumption, LenProperties, ElementOfSeq DEF TypeOK, Q!TypeOK
<1>1. ASSUME NEW t \in Threads, NEW o \in Objects, Take(t, o) \/ TakeHighPrio(t, o)
      PROVE  EndIsLast' /\ DrainBeforeExit'
  <2> DEFINE e == [target |-> o, event |-> taken + 1]
  <2>1. e \in Entries /\ e.target # NoObject /\ e.event > taken
    BY <1>0, <1>1, EntriesTyped, MaxEventsAssumption DEF Take, TakeHighPrio, Events
  <2>2. /\ UNCHANGED <<opc, stopAt, wpc>> /\ taken' = taken + 1
        /\ Q!EnqueueBack(t, e) \/ Q!EnqueueFront(t, e)
    BY <1>1 DEF Take, TakeHighPrio, workerVars, ownerVars
  <2> HIDE DEF e
  <2> QED
    BY <1>0, <2>1, <2>2, EndOvertaken
<1>2. CASE RecallOne
  <2> DEFINE e == [target |-> entry.target, event |-> deferred[entry.target][cursor]]
  <2>1. deferred[entry.target][cursor] \in Events
    BY <1>2, ElementOfSeq DEF RecallOne, TypeOK
  <2>2. e \in Entries /\ e.target # NoObject
    BY <1>2, <2>1, EntriesTyped DEF RecallOne, TypeOK
  <2>3. /\ UNCHANGED <<opc, stopAt, wpc, taken>> /\ wpc # "exited"
        /\ Q!EnqueueFront(Worker, e)
    BY <1>2 DEF RecallOne, sentVars, ownerVars
  <2> HIDE DEF e
  <2> QED
    BY <1>0, <2>2, <2>3, EndOvertaken
<1>3. CASE Stop
  <2>1. /\ Len(queue') = Len(queue) + 1
        /\ \A i \in 1..Len(queue') :
              IF i = Len(queue') THEN queue'[i] = EndEntry
                                 ELSE queue'[i] = queue[i] /\ i \in 1..Len(queue)
    BY <1>0, <1>3, InsertBack, EntriesTyped DEF Stop, QueueOK
  <2>2. /\ opc' = "stopping" /\ stopAt' = taken /\ taken' = taken /\ wpc' = wpc /\ opc = "up"
    BY <1>3 DEF Stop, workerVars, sentVars
  <2> QED
    BY <1>0, <2>1, <2>2 DEF EndIsLast, DrainBeforeExit
<1>4. CASE Dequeue
  <2>1. /\ Len(queue') = Len(queue) - 1 /\ Len(queue) \in Nat \ {0}
        /\ \A i \in 1..Len(queue') : queue'[i] = queue[i + 1] /\ i + 1 \in 2..Len(queue)
        /\ wpc' = IF queue[1].target = NoObject THEN "exited" ELSE "dispatch"
        /\ UNCHANGED <<opc, stopAt, taken>> /\ wpc = "dequeue"
    BY <1>4, TakeFront DEF Dequeue, InCall, sentVars, ownerVars
  <2>2. opc = "up" => wpc' = "dispatch"
    BY <2>1 DEF EndIsLast
  <2>3. stopAt' <= taken'
    BY <2>1 DEF EndIsLast
  <2>4. \A i, j \in 1..Len(queue') :
            i < j /\ queue'[i].target = NoObject => queue'[j].event > stopAt
    BY <2>1 DEF EndIsLast
  <2>5. \A i \in 1..Len(queue') : opc = "up" => queue'[i].target # NoObject
    BY <2>1 DEF EndIsLast
  <2>6. wpc' = "exited" => \A i \in 1..Len(queue') : queue'[i].event > stopAt
    <3> SUFFICES ASSUME queue[1].target = NoObject, NEW i \in 1..Len(queue')
                 PROVE  queue'[i].event > stopAt
      BY <2>1
    <3>1. 1 \in 1..Len(queue) /\ i + 1 \in 1..Len(queue) /\ 1 < i + 1
      BY <2>1
    <3> QED
      BY <2>1, <3>1 DEF EndIsLast
  <2> QED
    BY <2>1, <2>2, <2>3, <2>4, <2>5, <2>6 DEF EndIsLast, DrainBeforeExit
<1>5. CASE \/ \E t \in Threads : Release(t)
           \/ CallDequeue \/ Acquire \/ Defer \/ Handle \/ CallRecall \/ RecallDone \/ Return
           \/ (\E o \in Objects : Register(o)) \/ UNCHANGED vars
  <2>1. UNCHANGED <<queue, opc, stopAt, taken>> /\ (wpc' = "exited" => wpc = "exited")
    BY <1>5
    DEF Release, CallDequeue, Acquire, Defer, Handle, CallRecall, RecallDone, Return, Register,
        vars, queueVars, workerVars, sentVars, ownerVars, Q!Release, Q!CallDequeue, Q!Acquire
  <2> QED
    BY <2>1, EndUndisturbed
<1>6. CASE Join
  BY <1>6 DEF Join, EndIsLast, DrainBeforeExit, queueVars, workerVars, sentVars
<1> QED
  BY <1>1, <1>2, <1>3, <1>4, <1>5, <1>6
  DEF Next, Produce, WorkerNext, OwnerNext, Send, Threads

-----------------------------------------------------------------------------
IInv == QP!IInv /\ TypeOK /\ InCall /\ EndIsLast /\ DrainBeforeExit

LEMMA NextIInv == IInv /\ [Next]_vars => IInv'
<1> SUFFICES ASSUME IInv, [Next]_vars PROVE IInv'
  OBVIOUS
<1>1. QP!IInv'
  BY QueueNext, QueueStep DEF IInv
<1>2. QueueOK
  BY QueueSound DEF IInv
<1>3. (QP!IInv => QueueOK)'
  BY QueueSound, PTL
<1> QED
  BY <1>1, <1>2, <1>3, TypeStep, EndStep DEF IInv

(* The inductive invariant holds.                                          *)
THEOREM SpecIInv == SafeSpec => []IInv
<1>1. Init => IInv
  BY InitTypes DEF IInv
<1> QED
  BY <1>1, NextIInv, PTL DEF SafeSpec

(* Every variable holds what its type says: Run() dispatches entries of    *)
(* objects only, and RecallEvents() stays inside deferred_events_.         *)
THEOREM TypeCorrect == SafeSpec => []TypeOK
<1>1. IInv => TypeOK
  BY DEF IInv
<1> QED
  BY <1>1, SpecIInv, PTL

(* Run() returns only after everything that was sent before Stop() left    *)
(* the queue, for any number of senders and recalls.                       *)
THEOREM DomainDrainsBeforeExit == SafeSpec => []DrainBeforeExit
<1>1. IInv => DrainBeforeExit
  BY DEF IInv
<1> QED
  BY <1>1, SpecIInv, PTL

(* Whatever the domain does, its queue keeps every promise an EventQueue   *)
(* makes: what EventQueueProofs shows holds of it.                         *)
THEOREM QueueUndisturbed == SafeSpec => Q!SafeSpec
<1>1. Init => Q!Init
  BY DEF Init
<1>2. IInv => TypeOK
  BY DEF IInv
<1> QED
  BY <1>1, <1>2, SpecIInv, QueueStep, PTL DEF SafeSpec, Q!SafeSpec

-----------------------------------------------------------------------------
(* The places where events wait, as triples of numbers and an object.      *)

Spots == {x \in Objects \X Nat \X Nat :
              \/ x[2] = 0 /\ x[3] \in 1..Postponed(x[1])
              \/ x[2] = 1 /\ x[3] = 1 /\ wpc = "dispatch" /\ entry.target = x[1]
              \/ x[2] = 2 /\ x[3] \in 1..Len(queue) /\ queue[x[3]].target = x[1]}

Held == [x \in Objects \X Nat \X Nat |->
            CASE x[2] = 0 -> deferred[x[1]][x[3]]
              [] x[2] = 1 -> entry.event
              [] x[2] = 2 -> queue[x[3]].event
              [] OTHER -> 0]

Awaited == {e \in 1..taken : e \notin handled}

(* For places P with events v in them, those in U urgent: the others wait  *)
(* in their order, what waits is A, all of it, and nothing twice.          *)
Orderly(P, v, U) ==
    \A o \in Objects, s, i, t, j \in Nat :
        /\ <<o, s, i>> \in P /\ <<o, t, j>> \in P /\ (s < t \/ (s = t /\ i < j))
        /\ v[<<o, s, i>>] \notin U /\ v[<<o, t, j>>] \notin U
        => v[<<o, s, i>>] < v[<<o, t, j>>]

Exactly(P, v, A) ==
    /\ P \subseteq Objects \X Nat \X Nat
    /\ \A x \in P : v[x] \in A
    /\ \A e \in A : \E x \in P : v[x] = e
    /\ \A x, y \in P : v[x] = v[y] => x = y

Waiting(P, v, U, A) == Orderly(P, v, U) /\ Exactly(P, v, A)

(* Events change places, from P to R: g and h say where the event of a new *)
(* place was.                                                              *)
Carries(P, v, R, w, g, h) ==
    \A o \in Objects, s, i \in Nat : <<o, s, i>> \in R =>
        /\ g[<<o, s, i>>] \in Nat /\ h[<<o, s, i>>] \in Nat
        /\ <<o, g[<<o, s, i>>], h[<<o, s, i>>]>> \in P
        /\ w[<<o, s, i>>] = v[<<o, g[<<o, s, i>>], h[<<o, s, i>>]>>]

InStep(R, g, h) ==
    \A o \in Objects, s, i, t, j \in Nat :
        <<o, s, i>> \in R /\ <<o, t, j>> \in R /\ (s < t \/ (s = t /\ i < j)) =>
            \/ g[<<o, s, i>>] < g[<<o, t, j>>]
            \/ g[<<o, s, i>>] = g[<<o, t, j>>] /\ h[<<o, s, i>>] < h[<<o, t, j>>]

LeavesNone(P, R, g, h) ==
    \A o \in Objects : \A t, j \in Nat : <<o, t, j>> \in P =>
        \E s, i \in Nat : <<o, s, i>> \in R /\ g[<<o, s, i>>] = t /\ h[<<o, s, i>>] = j

LEMMA Moved ==
    ASSUME NEW P, NEW v, NEW R, NEW w, NEW U, NEW A, Waiting(P, v, U, A),
           R \subseteq Objects \X Nat \X Nat, NEW g, NEW h,
           Carries(P, v, R, w, g, h), InStep(R, g, h), LeavesNone(P, R, g, h)
    PROVE  Waiting(R, w, U, A)
<1> DEFINE F(x) == <<x[1], g[x], h[x]>>
<1>0. /\ \A x \in P \cup R : /\ x = <<x[1], x[2], x[3]>>
                              /\ x[1] \in Objects /\ x[2] \in Nat /\ x[3] \in Nat
      /\ \A x \in R : g[x] \in Nat /\ h[x] \in Nat /\ F(x) \in P /\ w[x] = v[F(x)]
  <2>1. \A x \in P \cup R : /\ x = <<x[1], x[2], x[3]>>
                            /\ x[1] \in Objects /\ x[2] \in Nat /\ x[3] \in Nat
    BY DEF Waiting, Exactly
  <2> QED
    BY <2>1 DEF Carries
<1>1. Orderly(R, w, U)
  <2> SUFFICES ASSUME NEW o \in Objects, NEW s \in Nat, NEW i \in Nat, NEW t \in Nat, NEW j \in Nat,
                      <<o, s, i>> \in R, <<o, t, j>> \in R, s < t \/ (s = t /\ i < j),
                      w[<<o, s, i>>] \notin U, w[<<o, t, j>>] \notin U
               PROVE  w[<<o, s, i>>] < w[<<o, t, j>>]
    BY DEF Orderly
  <2> DEFINE s1 == g[<<o, s, i>>]  i1 == h[<<o, s, i>>]
             t1 == g[<<o, t, j>>]  j1 == h[<<o, t, j>>]
  <2>1. /\ s1 \in Nat /\ i1 \in Nat /\ t1 \in Nat /\ j1 \in Nat
        /\ <<o, s1, i1>> \in P /\ <<o, t1, j1>> \in P
        /\ w[<<o, s, i>>] = v[<<o, s1, i1>>] /\ w[<<o, t, j>>] = v[<<o, t1, j1>>]
        /\ s1 < t1 \/ (s1 = t1 /\ i1 < j1)
    BY DEF Carries, InStep
  <2> HIDE DEF s1, i1, t1, j1
  <2>2. Orderly(P, v, U)
    BY DEF Waiting
  <2> QED
    BY <2>1, <2>2 DEF Orderly
<1>2. \A x \in R : w[x] \in A
  BY <1>0 DEF Waiting, Exactly
<1>3. ASSUME NEW e \in A PROVE \E x \in R : w[x] = e
  <2>1. PICK y \in P : v[y] = e
    BY DEF Waiting, Exactly
  <2>2. PICK o \in Objects, t \in Nat, j \in Nat : y = <<o, t, j>>
    BY <1>0, <2>1
  <2>3. <<o, t, j>> \in P
    BY <2>2
  <2>4. PICK s \in Nat, i \in Nat :
            <<o, s, i>> \in R /\ g[<<o, s, i>>] = t /\ h[<<o, s, i>>] = j
    BY <2>3 DEF LeavesNone
  <2>5. w[<<o, s, i>>] = v[<<o, t, j>>]
    BY <2>4 DEF Carries
  <2> QED
    BY <2>1, <2>2, <2>4, <2>5
<1>4. ASSUME NEW x \in R, NEW y \in R, w[x] = w[y] PROVE x = y
  <2>1. F(x) \in P /\ F(y) \in P /\ v[F(x)] = v[F(y)]
    BY <1>0, <1>4
  <2>2. \A a, b \in P : v[a] = v[b] => a = b
    BY DEF Waiting, Exactly
  <2>3. F(x) = F(y)
    BY <2>1, <2>2
  <2>4. x[1] = y[1] /\ g[x] = g[y] /\ h[x] = h[y]
    BY <2>3
  <2>5. /\ <<x[1], x[2], x[3]>> \in R /\ <<x[1], y[2], y[3]>> \in R
        /\ x = <<x[1], x[2], x[3]>> /\ y = <<x[1], y[2], y[3]>> /\ x[1] \in Objects
        /\ x[2] \in Nat /\ x[3] \in Nat /\ y[2] \in Nat /\ y[3] \in Nat
        /\ g[x] \in Nat /\ h[x] \in Nat
    BY <1>0, <2>4
  <2>6. ~(x[2] < y[2] \/ (x[2] = y[2] /\ x[3] < y[3]))
    BY <2>4, <2>5 DEF InStep
  <2>7. ~(y[2] < x[2] \/ (y[2] = x[2] /\ y[3] < x[3]))
    BY <2>4, <2>5 DEF InStep
  <2> QED
    BY <2>5, <2>6, <2>7
<1> QED
  BY <1>1, <1>2, <1>3, <1>4 DEF Waiting, Exactly

(* An event joins, newer than all, urgent or behind those of its object.   *)
LEMMA Joined ==
    ASSUME NEW P, NEW v, NEW U, NEW A, Waiting(P, v, U, A),
           NEW o \in Objects, NEW s \in Nat, NEW i \in Nat, <<o, s, i>> \notin P,
           NEW n, v[<<o, s, i>>] = n, \A e \in A : e < n /\ e # n, NEW V,
           \/ V = U \cup {n}
           \/ /\ V = U
              /\ \A t, j \in Nat : <<o, t, j>> \in P => t < s \/ (t = s /\ j < i)
    PROVE  Waiting(P \cup {<<o, s, i>>}, v, V, A \cup {n})
<1>1. Exactly(P \cup {<<o, s, i>>}, v, A \cup {n})
  BY DEF Waiting, Exactly
<1>2. Orderly(P \cup {<<o, s, i>>}, v, V)
  <2>1. ASSUME V = U \cup {n} PROVE Orderly(P \cup {<<o, s, i>>}, v, V)
    BY <2>1 DEF Waiting, Orderly
  <2>2. ASSUME V = U, \A t, j \in Nat : <<o, t, j>> \in P => t < s \/ (t = s /\ j < i)
        PROVE  Orderly(P \cup {<<o, s, i>>}, v, V)
    BY <2>2 DEF Waiting, Orderly, Exactly
  <2> QED
    BY <2>1, <2>2
<1> QED
  BY <1>1, <1>2 DEF Waiting

(* An event leaves.                                                        *)
LEMMA Left ==
    ASSUME NEW P, NEW v, NEW U, NEW A, Waiting(P, v, U, A), NEW x \in P
    PROVE  Waiting(P \ {x}, v, U, A \ {v[x]})
BY DEF Waiting, Orderly, Exactly

AllWaiting == Waiting(Spots, Held, urgent, Awaited)

LEMMA WaitingMeans == TypeOK /\ AllWaiting => ArrivalOrder /\ ExactlyOnce
<1> SUFFICES ASSUME TypeOK, AllWaiting PROVE ArrivalOrder /\ ExactlyOnce
  OBVIOUS
<1>0. ASSUME NEW o \in Objects, NEW p \in Places(o)
      PROVE  /\ p = <<p[1], p[2]>> /\ p[1] \in {0, 1, 2} /\ p[2] \in Nat
             /\ <<o, p[1], p[2]>> \in Spots
             /\ EventAt(o, p) = Held[<<o, p[1], p[2]>>]
  <2>1. p = <<p[1], p[2]>> /\ p[1] \in {0, 1, 2} /\ p[2] \in Nat
    BY <1>0 DEF Places
  <2>2. <<o, p[1], p[2]>> \in Spots
    BY <1>0, <2>1 DEF Places, Spots
  <2>3. EventAt(o, p) = Held[<<o, p[1], p[2]>>]
    BY <2>1 DEF EventAt, Held
  <2> QED
    BY <2>1, <2>2, <2>3
<1>1. ASSUME NEW x \in Spots
      PROVE  /\ x[1] \in Objects /\ <<x[2], x[3]>> \in Places(x[1])
             /\ EventAt(x[1], <<x[2], x[3]>>) = Held[x]
  <2>1. x = <<x[1], x[2], x[3]>> /\ x[1] \in Objects /\ x[2] \in {0, 1, 2} /\ x[3] \in Nat
    BY DEF Spots
  <2>2. <<x[2], x[3]>> \in Places(x[1])
    BY <2>1 DEF Spots, Places
  <2>3. EventAt(x[1], <<x[2], x[3]>>) = Held[x]
    BY <2>1 DEF EventAt, Held
  <2> QED
    BY <2>1, <2>2, <2>3
<1>2. ArrivalOrder
  <2> SUFFICES ASSUME NEW o \in Objects, NEW p \in Places(o), NEW q \in Places(o),
                      Before(p, q), EventAt(o, p) \notin urgent, EventAt(o, q) \notin urgent
               PROVE  EventAt(o, p) < EventAt(o, q)
    BY DEF ArrivalOrder
  <2>1. Orderly(Spots, Held, urgent)
    BY DEF AllWaiting, Waiting
  <2> DEFINE s == p[1]  i == p[2]  t == q[1]  j == q[2]
  <2>2. /\ s \in Nat /\ i \in Nat /\ t \in Nat /\ j \in Nat
        /\ <<o, s, i>> \in Spots /\ <<o, t, j>> \in Spots
        /\ EventAt(o, p) = Held[<<o, s, i>>] /\ EventAt(o, q) = Held[<<o, t, j>>]
        /\ s < t \/ (s = t /\ i < j)
    BY <1>0 DEF Before
  <2> HIDE DEF s, i, t, j
  <2> QED
    BY <2>1, <2>2 DEF Orderly
<1>3. ASSUME NEW e \in Events
      PROVE  (e <= taken /\ e \notin handled)
                 <=> \E o \in Objects : \E p \in Places(o) : EventAt(o, p) = e
  <2>1. (e <= taken /\ e \notin handled) <=> e \in Awaited
    BY MaxEventsAssumption DEF Awaited, Events, TypeOK
  <2>2. ASSUME e \in Awaited
        PROVE  \E o \in Objects : \E p \in Places(o) : EventAt(o, p) = e
    <3>1. PICK x \in Spots : Held[x] = e
      BY <2>2 DEF AllWaiting, Waiting, Exactly
    <3> QED
      BY <1>1, <3>1
  <2>3. ASSUME NEW o \in Objects, NEW p \in Places(o), EventAt(o, p) = e
        PROVE  e \in Awaited
    <3>1. <<o, p[1], p[2]>> \in Spots /\ Held[<<o, p[1], p[2]>>] = e
      BY <1>0, <2>3
    <3> QED
      BY <3>1 DEF AllWaiting, Waiting, Exactly
  <2> QED
    BY <2>1, <2>2, <2>3
<1>4. ASSUME NEW o \in Objects, NEW u \in Objects, NEW p \in Places(o), NEW q \in Places(u),
             EventAt(o, p) = EventAt(u, q)
      PROVE  o = u /\ p = q
  <2>1. /\ <<o, p[1], p[2]>> \in Spots /\ <<u, q[1], q[2]>> \in Spots
        /\ Held[<<o, p[1], p[2]>>] = Held[<<u, q[1], q[2]>>]
    BY <1>0, <1>4
  <2>2. <<o, p[1], p[2]>> = <<u, q[1], q[2]>>
    BY <2>1 DEF AllWaiting, Waiting, Exactly
  <2> QED
    BY <1>0, <2>2
<1> QED
  BY <1>2, <1>3, <1>4 DEF ExactlyOnce

(* Spots and Held, and after a step, with the state written out.           *)
LEMMA SpotMeaning ==
    ASSUME NEW o \in Objects, NEW s \in Nat, NEW i \in Nat
    PROVE  /\ <<o, s, i>> \in Spots <=>
                 \/ /\ s = 0 /\ 1 <= i
                    /\ i <= IF wpc = "recall" /\ entry.target = o THEN cursor ELSE Len(deferred[o])
                 \/ s = 1 /\ i = 1 /\ wpc = "dispatch" /\ entry.target = o
                 \/ s = 2 /\ 1 <= i /\ i <= Len(queue) /\ queue[i].target = o
           /\ s = 0 => Held[<<o, s, i>>] = deferred[o][i]
           /\ s = 1 => Held[<<o, s, i>>] = entry.event
           /\ s = 2 => Held[<<o, s, i>>] = queue[i].event
BY DEF Spots, Held, Postponed

LEMMA NextSpotMeaning ==
    ASSUME NEW o \in Objects, NEW s \in Nat, NEW i \in Nat
    PROVE  /\ <<o, s, i>> \in Spots' <=>
                 \/ /\ s = 0 /\ 1 <= i
                    /\ i <= IF wpc' = "recall" /\ entry'.target = o THEN cursor'
                                                                 ELSE Len(deferred'[o])
                 \/ s = 1 /\ i = 1 /\ wpc' = "dispatch" /\ entry'.target = o
                 \/ s = 2 /\ 1 <= i /\ i <= Len(queue') /\ queue'[i].target = o
           /\ s = 0 => Held'[<<o, s, i>>] = deferred'[o][i]
           /\ s = 1 => Held'[<<o, s, i>>] = entry'.event
           /\ s = 2 => Held'[<<o, s, i>>] = queue'[i].event
BY DEF Spots, Held, Postponed

(* The same, place by place.                                               *)
LEMMA SpotKinds ==
    ASSUME NEW o \in Objects
    PROVE  /\ \A s, i \in Nat : <<o, s, i>> \in Spots => s \in {0, 1, 2} /\ 1 <= i
           /\ \A i \in Nat : <<o, 1, i>> \in Spots =>
                 i = 1 /\ wpc = "dispatch" /\ entry.target = o
           /\ \A i \in Nat : <<o, 2, i>> \in Spots => i <= Len(queue) /\ queue[i].target = o
BY SpotMeaning

LEMMA NextSpotKinds ==
    ASSUME NEW o \in Objects
    PROVE  /\ \A s, i \in Nat : <<o, s, i>> \in Spots' => s \in {0, 1, 2} /\ 1 <= i
           /\ \A i \in Nat : <<o, 1, i>> \in Spots' =>
                 i = 1 /\ wpc' = "dispatch" /\ entry'.target = o
           /\ \A i \in Nat : <<o, 2, i>> \in Spots' =>
                 i <= Len(queue') /\ queue'[i].target = o
<1>1. ASSUME NEW s \in Nat, NEW i \in Nat, <<o, s, i>> \in Spots'
      PROVE  s \in {0, 1, 2} /\ 1 <= i
  BY <1>1, NextSpotMeaning
<1>2. ASSUME NEW i \in Nat, <<o, 1, i>> \in Spots'
      PROVE  i = 1 /\ wpc' = "dispatch" /\ entry'.target = o
  BY <1>2, NextSpotMeaning
<1>3. ASSUME NEW i \in Nat, <<o, 2, i>> \in Spots'
      PROVE  i <= Len(queue') /\ queue'[i].target = o
  BY <1>3, NextSpotMeaning
<1> QED
  BY <1>1, <1>2, <1>3

LEMMA QueueSpot ==
    ASSUME NEW o \in Objects, NEW i \in Nat, 1 <= i, i <= Len(queue), queue[i].target = o
    PROVE  <<o, 2, i>> \in Spots /\ Held[<<o, 2, i>>] = queue[i].event
BY DEF Spots, Held

(* The same places with the same events.                                   *)
LEMMA Stayed ==
    ASSUME NEW P, NEW v, NEW w, NEW U, NEW A, Waiting(P, v, U, A),
           \A o \in Objects, s, i \in Nat : <<o, s, i>> \in P => w[<<o, s, i>>] = v[<<o, s, i>>]
    PROVE  Waiting(P, w, U, A)
<1>1. ASSUME NEW x \in P PROVE w[x] = v[x]
  <2>1. PICK o \in Objects, s \in Nat, i \in Nat : x = <<o, s, i>>
    BY DEF Waiting, Exactly
  <2> QED
    BY <2>1
<1>2. Orderly(P, w, U)
  BY DEF Waiting, Orderly
<1>3. Exactly(P, w, A)
  BY <1>1 DEF Waiting, Exactly
<1> QED
  BY <1>2, <1>3 DEF Waiting

LEMMA SameTriples ==
    ASSUME NEW P, NEW R, P \subseteq Objects \X Nat \X Nat, R \subseteq Objects \X Nat \X Nat,
           \A o \in Objects, s, i \in Nat : <<o, s, i>> \in P <=> <<o, s, i>> \in R
    PROVE  P = R
<1>1. ASSUME NEW x \in Objects \X Nat \X Nat PROVE x \in P <=> x \in R
  <2>1. PICK o \in Objects, s \in Nat, i \in Nat : x = <<o, s, i>>
    OBVIOUS
  <2> QED
    BY <2>1
<1> QED
  BY <1>1

LEMMA SpotsTyped ==
    /\ Spots \subseteq Objects \X Nat \X Nat
    /\ Spots' \subseteq Objects \X Nat \X Nat
BY DEF Spots

HandledSent == handled \subseteq 1..taken

(* A new event, behind or in front of all.                                 *)
LEMMA AwaitedGrows ==
    ASSUME HandledSent, taken \in Nat, taken' = taken + 1, handled' = handled
    PROVE  /\ HandledSent' /\ Awaited' = Awaited \cup {taken + 1}
           /\ \A e \in Awaited : e < taken + 1 /\ e # taken + 1
BY DEF HandledSent, Awaited

LEMMA TakeWaiting ==
    ASSUME QueueOK, TypeOK, AllWaiting, HandledSent, NEW t, NEW o \in Objects, Take(t, o)
    PROVE  AllWaiting' /\ HandledSent'
<1> DEFINE n == Len(queue) + 1
<1>1. /\ Len(queue') = n /\ Len(queue) \in Nat /\ n \in Nat
      /\ \A i \in 1..Len(queue) : queue'[i] = queue[i]
      /\ queue'[n] = [target |-> o, event |-> taken + 1]
  <2>1. taken + 1 \in Events
    BY MaxEventsAssumption DEF Take, TypeOK, Events
  <2> QED
    BY <2>1, InsertBack, EntriesTyped DEF Take
<1>2. /\ UNCHANGED <<wpc, entry, cursor, deferred, handled, urgent>>
      /\ taken \in Nat /\ taken' = taken + 1
  BY MaxEventsAssumption DEF Take, workerVars, TypeOK
<1>3. Spots' = Spots \cup {<<o, 2, n>>} /\ <<o, 2, n>> \notin Spots
  <2>1. <<o, 2, n>> \notin Spots
    BY <1>1, SpotMeaning
  <2>2. ASSUME NEW u \in Objects, NEW s \in Nat, NEW i \in Nat
        PROVE  <<u, s, i>> \in Spots' <=> <<u, s, i>> \in Spots \cup {<<o, 2, n>>}
    <3>1. CASE s = 2 /\ i = n
      BY <1>1, <3>1, SpotMeaning, NextSpotMeaning
    <3>2. CASE ~(s = 2 /\ i = n)
      BY <1>1, <1>2, <3>2, SpotMeaning, NextSpotMeaning
    <3> QED
      BY <3>1, <3>2
  <2>3. Spots \cup {<<o, 2, n>>} \subseteq Objects \X Nat \X Nat
    BY <1>1, SpotsTyped
  <2> HIDE DEF n
  <2> QED
    BY <2>1, <2>2, <2>3, SpotsTyped, SameTriples
<1>4. Held'[<<o, 2, n>>] = taken + 1
  <2>1. 2 \in Nat /\ n \in Nat /\ queue'[n].event = taken + 1
    BY <1>1
  <2> HIDE DEF n
  <2> QED
    BY <2>1 DEF Held
<1>5. Waiting(Spots, Held', urgent, Awaited)
  <2>1. ASSUME NEW u \in Objects, NEW s \in Nat, NEW i \in Nat, <<u, s, i>> \in Spots
        PROVE  Held'[<<u, s, i>>] = Held[<<u, s, i>>]
    <3>1. CASE s = 2
      BY <1>1, <2>1, <3>1, SpotMeaning, NextSpotMeaning
    <3>2. CASE s # 2
      BY <1>2, <2>1, <3>2, SpotMeaning, NextSpotMeaning
    <3> QED
      BY <3>1, <3>2
  <2> QED
    BY <2>1, Stayed DEF AllWaiting
<1>6. ASSUME NEW s \in Nat, NEW i \in Nat, <<o, s, i>> \in Spots
      PROVE  s < 2 \/ (s = 2 /\ i < n)
  <2>1. s \in {0, 1, 2}
    BY <1>6, SpotKinds
  <2>2. s = 2 => i <= Len(queue)
    BY <1>6, SpotKinds
  <2> QED
    BY <1>1, <2>1, <2>2
<1> HIDE DEF n
<1>7. Waiting(Spots \cup {<<o, 2, n>>}, Held', urgent, Awaited \cup {taken + 1})
  BY <1>1, <1>2, <1>3, <1>4, <1>5, <1>6, AwaitedGrows, Joined
<1> QED
  BY <1>2, <1>3, <1>7, AwaitedGrows DEF AllWaiting

(* The events in the queue move up one place.                              *)
LEMMA TakeHighPrioWaiting ==
    ASSUME QueueOK, TypeOK, AllWaiting, HandledSent, NEW t, NEW o \in Objects, TakeHighPrio(t, o)
    PROVE  AllWaiting' /\ HandledSent'
<1> DEFINE R == Spots' \ {<<o, 2, 1>>}
           g == [x \in Objects \X Nat \X Nat |-> x[2]]
           h == [x \in Objects \X Nat \X Nat |-> IF x[2] = 2 THEN x[3] - 1 ELSE x[3]]
<1>1. /\ Len(queue) \in Nat /\ Len(queue') = Len(queue) + 1
      /\ \A i \in 2..Len(queue') : queue'[i] = queue[i - 1] /\ i - 1 \in 1..Len(queue)
      /\ \A i \in 1..Len(queue) : queue'[i + 1] = queue[i]
      /\ queue'[1] = [target |-> o, event |-> taken + 1]
  <2>1. taken + 1 \in Events
    BY MaxEventsAssumption DEF TakeHighPrio, TypeOK, Events
  <2> QED
    BY <2>1, InsertFront, EntriesTyped DEF TakeHighPrio
<1>2. /\ UNCHANGED <<wpc, entry, cursor, deferred, handled>>
      /\ taken \in Nat /\ taken' = taken + 1 /\ urgent' = urgent \cup {taken + 1}
  BY MaxEventsAssumption DEF TakeHighPrio, workerVars, TypeOK
<1>3. \A u \in Objects, s, i \in Nat :
          /\ g[<<u, s, i>>] = s
          /\ h[<<u, s, i>>] = IF s = 2 THEN i - 1 ELSE i
  OBVIOUS
<1>4. ASSUME NEW u \in Objects, NEW s \in Nat, NEW i \in Nat, <<u, s, i>> \in R
      PROVE  /\ IF s = 2 THEN i - 1 \in Nat ELSE i \in Nat
             /\ <<u, s, IF s = 2 THEN i - 1 ELSE i>> \in Spots
             /\ Held'[<<u, s, i>>] = Held[<<u, s, IF s = 2 THEN i - 1 ELSE i>>]
             /\ s = 2 => i > 1
  <2>1. CASE s = 2
    <3>0. <<u, 2, i>> \in Spots' /\ <<u, 2, i>> # <<o, 2, 1>>
      BY <1>4, <2>1
    <3>1. i >= 2 /\ i <= Len(queue') /\ queue'[i].target = u
      <4>1. 1 <= i /\ i <= Len(queue') /\ queue'[i].target = u
        BY <3>0, NextSpotKinds
      <4>2. i = 1 => u = o
        BY <1>1, <4>1
      <4> QED
        BY <3>0, <4>1, <4>2
    <3>2. /\ i - 1 \in Nat /\ 1 <= i - 1 /\ i - 1 <= Len(queue)
          /\ queue[i - 1] = queue'[i] /\ queue[i - 1].target = u
      BY <1>1, <3>1
    <3>3. <<u, 2, i - 1>> \in Spots /\ Held[<<u, 2, i - 1>>] = queue[i - 1].event
      BY <3>2, QueueSpot
    <3>4. Held'[<<u, 2, i>>] = queue'[i].event
      BY DEF Held
    <3> QED
      BY <2>1, <3>1, <3>2, <3>3, <3>4
  <2>2. CASE s # 2
    BY <1>2, <1>4, <2>2, SpotMeaning, NextSpotMeaning
  <2> QED
    BY <2>1, <2>2
<1>5. ASSUME NEW u \in Objects, NEW s \in Nat, NEW i \in Nat, <<u, s, i>> \in Spots
      PROVE  <<u, s, IF s = 2 THEN i + 1 ELSE i>> \in R
  <2>1. CASE s = 2
    <3>0. <<u, 2, i>> \in Spots
      BY <1>5, <2>1
    <3>1. i \in 1..Len(queue) /\ queue[i].target = u
      BY <1>1, <3>0, SpotKinds
    <3>2. i + 1 \in Nat /\ i + 1 # 1 /\ i + 1 <= Len(queue') /\ queue'[i + 1].target = u
      BY <1>1, <3>1
    <3>3. <<u, 2, i + 1>> \in Spots'
      BY <3>2, NextSpotMeaning
    <3> QED
      BY <2>1, <3>2, <3>3
  <2>2. CASE s # 2
    BY <1>2, <1>5, <2>2, SpotMeaning, NextSpotMeaning
  <2> QED
    BY <2>1, <2>2
<1>6. <<o, 2, 1>> \in Spots' /\ Held'[<<o, 2, 1>>] = taken + 1
  BY <1>1, NextSpotMeaning
<1>7. R \subseteq Objects \X Nat \X Nat
  BY SpotsTyped
<1> HIDE DEF R, g, h
<1>8. Carries(Spots, Held, R, Held', g, h)
  BY <1>3, <1>4 DEF Carries
<1>9. InStep(R, g, h)
  BY <1>3, <1>4 DEF InStep
<1>10. LeavesNone(Spots, R, g, h)
  <2>1. ASSUME NEW u \in Objects, NEW s \in Nat, NEW i \in Nat, <<u, s, i>> \in Spots
        PROVE  \E s1, i1 \in Nat : /\ <<u, s1, i1>> \in R
                                   /\ g[<<u, s1, i1>>] = s /\ h[<<u, s1, i1>>] = i
    <3> DEFINE i1 == IF s = 2 THEN i + 1 ELSE i
    <3>1. i1 \in Nat /\ (IF s = 2 THEN i1 - 1 ELSE i1) = i
      OBVIOUS
    <3>2. <<u, s, i1>> \in R
      BY <1>5, <2>1
    <3> HIDE DEF i1
    <3>3. g[<<u, s, i1>>] = s /\ h[<<u, s, i1>>] = i
      BY <1>3, <3>1
    <3> QED
      BY <3>1, <3>2, <3>3
  <2> QED
    BY <2>1 DEF LeavesNone
<1>11. Waiting(R, Held', urgent, Awaited)
  BY <1>7, <1>8, <1>9, <1>10, Moved DEF AllWaiting
<1>12. R \cup {<<o, 2, 1>>} = Spots' /\ <<o, 2, 1>> \notin R
  BY <1>6 DEF R
<1>13. Waiting(R \cup {<<o, 2, 1>>}, Held', urgent', Awaited \cup {taken + 1})
  BY <1>2, <1>6, <1>11, <1>12, AwaitedGrows, Joined
<1> QED
  BY <1>2, <1>12, <1>13, AwaitedGrows DEF AllWaiting

(* The last of the deferred events becomes the first of the queue.         *)
LEMMA RecallOneWaiting ==
    ASSUME QueueOK, TypeOK, AllWaiting, RecallOne
    PROVE  AllWaiting'
<1> DEFINE o == entry.target
           new(s, i, u) == u = o /\ s = 2 /\ i = 1
           g1(u, s, i) == IF new(s, i, u) THEN 0 ELSE s
           h1(u, s, i) == IF new(s, i, u) THEN cursor ELSE IF s = 2 THEN i - 1 ELSE i
           g == [x \in Objects \X Nat \X Nat |-> g1(x[1], x[2], x[3])]
           h == [x \in Objects \X Nat \X Nat |-> h1(x[1], x[2], x[3])]
<1>0. /\ o \in Objects /\ cursor \in Nat \ {0} /\ cursor <= Len(deferred[o])
      /\ wpc = "recall" /\ wpc' = "recall" /\ cursor' = cursor - 1
      /\ UNCHANGED <<entry, deferred, handled, taken, urgent>>
  BY DEF RecallOne, TypeOK, sentVars
<1>1. /\ Len(queue) \in Nat /\ Len(queue') = Len(queue) + 1
      /\ \A i \in 2..Len(queue') : queue'[i] = queue[i - 1] /\ i - 1 \in 1..Len(queue)
      /\ \A i \in 1..Len(queue) : queue'[i + 1] = queue[i]
      /\ queue'[1] = [target |-> o, event |-> deferred[o][cursor]]
  <2>1. deferred[o][cursor] \in Events
    BY ElementOfSeq DEF RecallOne, TypeOK
  <2> QED
    BY <1>0, <2>1, InsertFront, EntriesTyped DEF RecallOne
<1>3. \A u \in Objects, s, i \in Nat :
          g[<<u, s, i>>] = g1(u, s, i) /\ h[<<u, s, i>>] = h1(u, s, i)
  OBVIOUS
<1> HIDE DEF g, h
<1>4. ASSUME NEW u \in Objects, NEW s \in Nat, NEW i \in Nat, <<u, s, i>> \in Spots'
      PROVE  /\ g1(u, s, i) \in Nat /\ h1(u, s, i) \in Nat
             /\ <<u, g1(u, s, i), h1(u, s, i)>> \in Spots
             /\ Held'[<<u, s, i>>] = Held[<<u, g1(u, s, i), h1(u, s, i)>>]
             /\ s = 0 \/ (s = 2 /\ i > 0)
             /\ s = 0 /\ u = o => i < cursor
             /\ s = 2 /\ i = 1 => u = o
  <2>1. CASE new(s, i, u)
    <3>1. g1(u, s, i) = 0 /\ h1(u, s, i) = cursor
      BY <2>1
    <3>2. <<o, 0, cursor>> \in Spots /\ Held[<<o, 0, cursor>>] = deferred[o][cursor]
      <4>1. o \in Objects /\ 0 \in Nat /\ cursor \in Nat /\ 1 <= cursor
            /\ cursor <= IF wpc = "recall" /\ entry.target = o THEN cursor ELSE Len(deferred[o])
        BY <1>0
      <4> HIDE DEF o
      <4> QED
        BY <4>1, SpotMeaning
    <3>3. Held'[<<o, 2, 1>>] = deferred[o][cursor]
      <4>1. o \in Objects /\ 2 \in Nat /\ 1 \in Nat /\ queue'[1].event = deferred[o][cursor]
        BY <1>0, <1>1
      <4> HIDE DEF o
      <4> QED
        BY <4>1, NextSpotMeaning
    <3> HIDE DEF g1, h1
    <3> QED
      BY <1>0, <2>1, <3>1, <3>2, <3>3
  <2>2. CASE s = 2 /\ ~new(s, i, u)
    <3>1. i >= 2 /\ i <= Len(queue') /\ queue'[i].target = u
      BY <1>0, <1>1, <1>4, <2>2, NextSpotMeaning
    <3>2. i - 1 \in Nat
      BY <3>1
    <3> QED
      BY <1>1, <2>2, <3>1, <3>2, SpotMeaning, NextSpotMeaning
  <2>3. CASE s # 2
    BY <1>0, <1>4, <2>3, SpotMeaning, NextSpotMeaning
  <2> QED
    BY <2>1, <2>2, <2>3
<1>5. ASSUME NEW u \in Objects, NEW s \in Nat, NEW i \in Nat, <<u, s, i>> \in Spots
      PROVE  \E s1, i1 \in Nat : <<u, s1, i1>> \in Spots' /\ g1(u, s1, i1) = s /\ h1(u, s1, i1) = i
  <2>1. CASE s = 2
    <3>1. <<u, 2, i + 1>> \in Spots' /\ g1(u, 2, i + 1) = s /\ h1(u, 2, i + 1) = i /\ i + 1 \in Nat
      BY <1>1, <1>5, <2>1, SpotMeaning, NextSpotMeaning
    <3> QED
      BY <3>1
  <2>2. CASE s = 0 /\ u = o /\ i = cursor
    <3>1. <<u, 2, 1>> \in Spots' /\ g1(u, 2, 1) = s /\ h1(u, 2, 1) = i
      BY <1>1, <2>2, NextSpotMeaning
    <3> QED
      BY <3>1
  <2>3. CASE s # 2 /\ ~(s = 0 /\ u = o /\ i = cursor)
    <3>1. <<u, s, i>> \in Spots' /\ g1(u, s, i) = s /\ h1(u, s, i) = i
      BY <1>0, <1>5, <2>3, SpotMeaning, NextSpotMeaning
    <3> QED
      BY <3>1
  <2> QED
    BY <2>1, <2>2, <2>3
<1>7. Carries(Spots, Held, Spots', Held', g, h)
  BY <1>3, <1>4 DEF Carries
<1>8. InStep(Spots', g, h)
  <2> SUFFICES ASSUME NEW u \in Objects, NEW s \in Nat, NEW i \in Nat, NEW p \in Nat, NEW j \in Nat,
                      <<u, s, i>> \in Spots', <<u, p, j>> \in Spots', s < p \/ (s = p /\ i < j)
               PROVE  \/ g1(u, s, i) < g1(u, p, j)
                      \/ g1(u, s, i) = g1(u, p, j) /\ h1(u, s, i) < h1(u, p, j)
    BY <1>3 DEF InStep
  <2>1. (s = 0 /\ u = o => i < cursor) /\ (s = 0 \/ (s = 2 /\ i > 0))
    BY <1>4
  <2>2. (p = 0 /\ u = o => j < cursor) /\ (p = 0 \/ (p = 2 /\ j > 0))
    BY <1>4
  <2> QED
    BY <1>0, <2>1, <2>2
<1>9. LeavesNone(Spots, Spots', g, h)
  <2> SUFFICES ASSUME NEW u \in Objects, NEW s \in Nat, NEW i \in Nat, <<u, s, i>> \in Spots
               PROVE  \E s1, i1 \in Nat : /\ <<u, s1, i1>> \in Spots'
                                          /\ g[<<u, s1, i1>>] = s /\ h[<<u, s1, i1>>] = i
    BY DEF LeavesNone
  <2> HIDE DEF g1, h1
  <2>1. PICK s1 \in Nat, i1 \in Nat :
            <<u, s1, i1>> \in Spots' /\ g1(u, s1, i1) = s /\ h1(u, s1, i1) = i
    BY <1>5
  <2> QED
    BY <1>3, <2>1
<1>10. Awaited' = Awaited
  BY <1>0 DEF Awaited
<1> QED
  BY <1>0, <1>7, <1>8, <1>9, <1>10, SpotsTyped, Moved DEF AllWaiting

(* The first of the queue is now in hand, the others move down one place.  *)
LEMMA DequeueWaiting ==
    ASSUME QueueOK, TypeOK, InCall, AllWaiting, Dequeue
    PROVE  AllWaiting'
<1> DEFINE g1(s, i) == IF s = 1 THEN 2 ELSE s
           h1(s, i) == IF s = 1 THEN 1 ELSE IF s = 2 THEN i + 1 ELSE i
           g == [x \in Objects \X Nat \X Nat |-> g1(x[2], x[3])]
           h == [x \in Objects \X Nat \X Nat |-> h1(x[2], x[3])]
<1>1. /\ Len(queue) \in Nat \ {0} /\ Len(queue') = Len(queue) - 1
      /\ \A i \in 1..Len(queue') : queue'[i] = queue[i + 1] /\ i + 1 \in 2..Len(queue)
      /\ \A i \in 2..Len(queue) : queue'[i - 1] = queue[i] /\ i - 1 \in 1..Len(queue')
      /\ entry' = queue[1]
      /\ wpc = "dequeue"
      /\ wpc' = IF queue[1].target = NoObject THEN "exited" ELSE "dispatch"
      /\ UNCHANGED <<deferred, handled, taken, urgent>>
  BY TakeFront DEF Dequeue, InCall, sentVars
<1>2. \A u \in Objects : u # NoObject
  BY NoObjectAssumption
<1>3. \A u \in Objects, s, i \in Nat : g[<<u, s, i>>] = g1(s, i) /\ h[<<u, s, i>>] = h1(s, i)
  OBVIOUS
<1> HIDE DEF g, h
<1>4. ASSUME NEW u \in Objects, NEW s \in Nat, NEW i \in Nat, <<u, s, i>> \in Spots'
      PROVE  /\ g1(s, i) \in Nat /\ h1(s, i) \in Nat
             /\ <<u, g1(s, i), h1(s, i)>> \in Spots
             /\ Held'[<<u, s, i>>] = Held[<<u, g1(s, i), h1(s, i)>>]
             /\ s \in {0, 1, 2} /\ i >= 1 /\ (s = 1 => i = 1)
  <2>0. s \in {0, 1, 2} /\ 1 <= i
    BY <1>4, NextSpotKinds
  <2>1. CASE s = 0
    <3>1. i <= Len(deferred[u]) /\ Held'[<<u, 0, i>>] = deferred[u][i]
      BY <1>1, <1>4, <2>1, NextSpotMeaning
    <3>2. <<u, 0, i>> \in Spots /\ Held[<<u, 0, i>>] = deferred[u][i]
      BY <1>1, <2>0, <3>1, SpotMeaning
    <3> QED
      BY <2>0, <2>1, <3>1, <3>2
  <2>2. CASE s = 1
    <3>0. <<u, 1, i>> \in Spots'
      BY <1>4, <2>2
    <3>1. i = 1 /\ queue[1].target = u
      BY <1>1, <3>0, NextSpotKinds
    <3>2. <<u, 2, 1>> \in Spots /\ Held[<<u, 2, 1>>] = queue[1].event
      BY <1>1, <3>1, SpotMeaning
    <3>3. Held'[<<u, 1, 1>>] = queue[1].event
      <4>1. Held'[<<u, 1, 1>>] = entry'.event
        BY NextSpotMeaning
      <4> QED
        BY <1>1, <4>1
    <3> QED
      BY <2>2, <3>1, <3>2, <3>3
  <2>3. CASE s = 2
    <3>0. <<u, 2, i>> \in Spots'
      BY <1>4, <2>3
    <3>1. i \in 1..Len(queue') /\ queue'[i].target = u
      BY <1>1, <2>0, <3>0, NextSpotKinds
    <3>2. /\ i + 1 \in Nat /\ 1 <= i + 1 /\ i + 1 <= Len(queue) /\ queue[i + 1].target = u
          /\ queue[i + 1].event = queue'[i].event
      BY <1>1, <3>1
    <3>3. <<u, 2, i + 1>> \in Spots /\ Held[<<u, 2, i + 1>>] = queue'[i].event
      BY <3>2, SpotMeaning
    <3> QED
      BY <2>3, <3>1, <3>2, <3>3, NextSpotMeaning
  <2> QED
    BY <2>0, <2>1, <2>2, <2>3
<1>5. ASSUME NEW u \in Objects, NEW s \in Nat, NEW i \in Nat, <<u, s, i>> \in Spots
      PROVE  \E s1, i1 \in Nat : <<u, s1, i1>> \in Spots' /\ g1(s1, i1) = s /\ h1(s1, i1) = i
  <2>1. CASE s = 2 /\ i = 1
    <3>1. queue[1].target = u
      BY <1>5, <2>1, SpotMeaning
    <3>2. <<u, 1, 1>> \in Spots' /\ g1(1, 1) = s /\ h1(1, 1) = i
      BY <1>1, <1>2, <2>1, <3>1, NextSpotMeaning
    <3> QED
      BY <3>2
  <2>2. CASE s = 2 /\ i # 1
    <3>1. i \in 2..Len(queue) /\ queue[i].target = u
      BY <1>1, <1>5, <2>2, SpotMeaning
    <3>2. /\ i - 1 \in Nat /\ 1 <= i - 1 /\ i - 1 <= Len(queue') /\ queue'[i - 1].target = u
      BY <1>1, <3>1
    <3>3. <<u, 2, i - 1>> \in Spots' /\ g1(2, i - 1) = s /\ h1(2, i - 1) = i
      BY <2>2, <3>2, NextSpotMeaning
    <3> QED
      BY <3>2, <3>3
  <2>3. CASE s # 2
    <3>1. s = 0 /\ <<u, 0, i>> \in Spots' /\ g1(0, i) = s /\ h1(0, i) = i
      BY <1>1, <1>5, <2>3, SpotMeaning, NextSpotMeaning
    <3> QED
      BY <3>1
  <2> QED
    BY <2>1, <2>2, <2>3
<1>6. Carries(Spots, Held, Spots', Held', g, h)
  BY <1>3, <1>4 DEF Carries
<1>7. InStep(Spots', g, h)
  <2> SUFFICES ASSUME NEW u \in Objects, NEW s \in Nat, NEW i \in Nat, NEW p \in Nat, NEW j \in Nat,
                      <<u, s, i>> \in Spots', <<u, p, j>> \in Spots', s < p \/ (s = p /\ i < j)
               PROVE  g1(s, i) < g1(p, j) \/ (g1(s, i) = g1(p, j) /\ h1(s, i) < h1(p, j))
    BY <1>3 DEF InStep
  <2>1. s \in {0, 1, 2} /\ i >= 1 /\ (s = 1 => i = 1)
    BY <1>4
  <2>2. p \in {0, 1, 2} /\ j >= 1 /\ (p = 1 => j = 1)
    BY <1>4
  <2> QED
    BY <2>1, <2>2
<1>8. LeavesNone(Spots, Spots', g, h)
  <2> SUFFICES ASSUME NEW u \in Objects, NEW s \in Nat, NEW i \in Nat, <<u, s, i>> \in Spots
               PROVE  \E s1, i1 \in Nat : /\ <<u, s1, i1>> \in Spots'
                                          /\ g[<<u, s1, i1>>] = s /\ h[<<u, s1, i1>>] = i
    BY DEF LeavesNone
  <2> HIDE DEF g1, h1
  <2>1. PICK s1 \in Nat, i1 \in Nat :
            <<u, s1, i1>> \in Spots' /\ g1(s1, i1) = s /\ h1(s1, i1) = i
    BY <1>5
  <2> QED
    BY <1>3, <2>1
<1>9. Awaited' = Awaited
  BY <1>1 DEF Awaited
<1> QED
  BY <1>1, <1>6, <1>7, <1>8, <1>9, SpotsTyped, Moved DEF AllWaiting

(* The event in hand becomes the last of the deferred ones.                *)
LEMMA DeferWaiting ==
    ASSUME QueueOK, TypeOK, AllWaiting, Defer
    PROVE  AllWaiting'
<1> DEFINE o == entry.target
           m == Len(deferred[o]) + 1
           new(u, s, i) == u = o /\ s = 0 /\ i = m
           g1(u, s, i) == IF new(u, s, i) THEN 1 ELSE s
           h1(u, s, i) == IF new(u, s, i) THEN 1 ELSE i
           g == [x \in Objects \X Nat \X Nat |-> g1(x[1], x[2], x[3])]
           h == [x \in Objects \X Nat \X Nat |-> h1(x[1], x[2], x[3])]
<1>1. /\ o \in Objects /\ wpc = "dispatch" /\ wpc' = "dequeue"
      /\ UNCHANGED <<queue, entry, handled, taken, urgent>>
  BY DEF Defer, TypeOK, sentVars, queueVars
<1>2. /\ Len(deferred[o]) \in Nat /\ m \in Nat /\ m >= 1 /\ Len(deferred'[o]) = m
      /\ deferred'[o][m] = entry.event
      /\ \A i \in Nat : 1 <= i /\ i < m => deferred'[o][i] = deferred[o][i]
      /\ \A u \in Objects : u # o => deferred'[u] = deferred[u]
  <2>1. deferred[o] \in Seq(Events) /\ entry.event \in Events
    BY <1>1, EntriesTyped DEF TypeOK
  <2>2. deferred' = [deferred EXCEPT ![o] = Append(@, entry.event)]
    BY DEF Defer
  <2>3. /\ deferred'[o] = Append(deferred[o], entry.event)
        /\ \A u \in Objects : u # o => deferred'[u] = deferred[u]
    BY <1>1, <2>2 DEF TypeOK
  <2> QED
    BY <2>1, <2>3, AppendProperties, LenProperties
<1>3. \A u \in Objects, s, i \in Nat :
          g[<<u, s, i>>] = g1(u, s, i) /\ h[<<u, s, i>>] = h1(u, s, i)
  OBVIOUS
<1> HIDE DEF g, h, o, m
<1>4. ASSUME NEW u \in Objects, NEW s \in Nat, NEW i \in Nat, <<u, s, i>> \in Spots'
      PROVE  /\ g1(u, s, i) \in Nat /\ h1(u, s, i) \in Nat
             /\ <<u, g1(u, s, i), h1(u, s, i)>> \in Spots
             /\ Held'[<<u, s, i>>] = Held[<<u, g1(u, s, i), h1(u, s, i)>>]
             /\ s \in {0, 2} /\ (s = 0 /\ u = o => i <= m)
  <2>1. CASE new(u, s, i)
    <3>1. <<o, 1, 1>> \in Spots /\ Held[<<o, 1, 1>>] = entry.event
      BY <1>1, SpotMeaning DEF o
    <3>2. Held'[<<o, 0, m>>] = entry.event
      BY <1>1, <1>2, NextSpotMeaning
    <3> QED
      BY <1>2, <2>1, <3>1, <3>2
  <2>2. CASE s = 0 /\ u = o /\ i # m
    <3>0. 0 \in Nat /\ <<o, 0, i>> \in Spots'
      BY <1>4, <2>2
    <3>1. 1 <= i /\ i <= m /\ Held'[<<o, 0, i>>] = deferred'[o][i]
      <4>1. 0 # 1 /\ 0 # 2 /\ wpc' # "recall" /\ Len(deferred'[o]) = m
        BY <1>1, <1>2
      <4>2. 1 <= i /\ i <= Len(deferred'[o]) /\ Held'[<<o, 0, i>>] = deferred'[o][i]
        BY <1>1, <3>0, <4>1 DEF Spots, Held, Postponed
      <4> QED
        BY <4>1, <4>2
    <3>2. i < m /\ i <= Len(deferred[o])
      BY <1>2, <2>2, <3>1 DEF m
    <3>3. <<o, 0, i>> \in Spots /\ Held[<<o, 0, i>>] = deferred[o][i]
      BY <1>1, <3>1, <3>2, SpotMeaning
    <3>4. g1(u, s, i) = 0 /\ h1(u, s, i) = i
      BY <2>2
    <3> QED
      BY <1>2, <2>2, <3>1, <3>2, <3>3, <3>4
  <2>3. CASE ~(s = 0 /\ u = o)
    BY <1>1, <1>2, <1>4, <2>3, SpotMeaning, NextSpotMeaning
  <2> QED
    BY <2>1, <2>2, <2>3
<1>5. ASSUME NEW u \in Objects, NEW s \in Nat, NEW i \in Nat, <<u, s, i>> \in Spots
      PROVE  \E s1, i1 \in Nat : <<u, s1, i1>> \in Spots' /\ g1(u, s1, i1) = s /\ h1(u, s1, i1) = i
  <2>1. CASE s = 1
    <3>0. <<u, 1, i>> \in Spots
      BY <1>5, <2>1
    <3>1. u = o /\ i = 1
      BY <3>0, SpotKinds DEF o
    <3>2. <<o, 0, m>> \in Spots'
      BY <1>1, <1>2, NextSpotMeaning
    <3>3. g1(o, 0, m) = 1 /\ h1(o, 0, m) = 1
      OBVIOUS
    <3> QED
      BY <1>2, <2>1, <3>1, <3>2, <3>3
  <2>2. CASE s # 1
    <3>1. CASE s = 0
      <4>1. 1 <= i /\ i <= Len(deferred[u])
        BY <1>1, <1>5, <3>1, SpotMeaning
      <4>2. i <= Len(deferred'[u]) /\ ~new(u, s, i)
        BY <1>2, <4>1 DEF m
      <4>3. <<u, s, i>> \in Spots'
        BY <1>1, <3>1, <4>1, <4>2, NextSpotMeaning
      <4> QED
        BY <4>2, <4>3
    <3>2. CASE s = 2
      <4>1. <<u, 2, i>> \in Spots'
        BY <1>1, <1>5, <3>2, SpotMeaning, NextSpotMeaning
      <4> QED
        BY <3>2, <4>1
    <3> QED
      BY <1>5, <2>2, <3>1, <3>2, SpotKinds
  <2> QED
    BY <2>1, <2>2
<1>6. Carries(Spots, Held, Spots', Held', g, h)
  BY <1>3, <1>4 DEF Carries
<1>7. InStep(Spots', g, h)
  <2> SUFFICES ASSUME NEW u \in Objects, NEW s \in Nat, NEW i \in Nat, NEW p \in Nat, NEW j \in Nat,
                      <<u, s, i>> \in Spots', <<u, p, j>> \in Spots', s < p \/ (s = p /\ i < j)
               PROVE  \/ g1(u, s, i) < g1(u, p, j)
                      \/ g1(u, s, i) = g1(u, p, j) /\ h1(u, s, i) < h1(u, p, j)
    BY <1>3 DEF InStep
  <2>1. s \in {0, 2} /\ (s = 0 /\ u = o => i <= m)
    BY <1>4
  <2>2. p \in {0, 2} /\ (p = 0 /\ u = o => j <= m)
    BY <1>4
  <2>3. CASE s = 0 /\ p = 0 /\ u = o
    <3>1. i < j /\ j <= m /\ i # m
      BY <1>2, <2>2, <2>3
    <3>2. g1(u, s, i) = 0 /\ h1(u, s, i) = i
      BY <2>3, <3>1
    <3>3. CASE j = m
      BY <2>3, <3>2, <3>3
    <3>4. CASE j # m
      BY <2>3, <3>1, <3>2, <3>4
    <3> QED
      BY <3>3, <3>4
  <2>4. CASE u # o
    BY <2>4
  <2>5. CASE s = 0 /\ p = 2
    BY <2>5
  <2>6. CASE s = 2 /\ p = 2
    BY <2>6
  <2> QED
    BY <2>1, <2>2, <2>3, <2>4, <2>5, <2>6
<1>8. LeavesNone(Spots, Spots', g, h)
  <2> SUFFICES ASSUME NEW u \in Objects, NEW s \in Nat, NEW i \in Nat, <<u, s, i>> \in Spots
               PROVE  \E s1, i1 \in Nat : /\ <<u, s1, i1>> \in Spots'
                                          /\ g[<<u, s1, i1>>] = s /\ h[<<u, s1, i1>>] = i
    BY DEF LeavesNone
  <2> HIDE DEF g1, h1
  <2>1. PICK s1 \in Nat, i1 \in Nat :
            <<u, s1, i1>> \in Spots' /\ g1(u, s1, i1) = s /\ h1(u, s1, i1) = i
    BY <1>5
  <2> QED
    BY <1>3, <2>1
<1>9. Awaited' = Awaited
  BY <1>1 DEF Awaited
<1> QED
  BY <1>1, <1>6, <1>7, <1>8, <1>9, SpotsTyped, Moved DEF AllWaiting

(* The event in hand is handled and waits no longer.                       *)
LEMMA HandleWaiting ==
    ASSUME QueueOK, TypeOK, AllWaiting, HandledSent, Handle
    PROVE  AllWaiting' /\ HandledSent'
<1> DEFINE o == entry.target
<1>1. /\ o \in Objects /\ wpc = "dispatch" /\ wpc' = "actions"
      /\ handled' = handled \cup {entry.event}
      /\ UNCHANGED <<queue, entry, deferred, taken, urgent>>
  BY DEF Handle, TypeOK, sentVars, queueVars
<1>2. <<o, 1, 1>> \in Spots /\ Held[<<o, 1, 1>>] = entry.event
  BY <1>1, SpotMeaning
<1>3. Spots' = Spots \ {<<o, 1, 1>>}
  <2>1. ASSUME NEW u \in Objects, NEW s \in Nat, NEW i \in Nat
        PROVE  <<u, s, i>> \in Spots' <=> <<u, s, i>> \in Spots \ {<<o, 1, 1>>}
    <3>1. CASE s = 1
      BY <1>1, <3>1, SpotMeaning, NextSpotMeaning
    <3>2. CASE s # 1
      BY <1>1, <3>2, SpotMeaning, NextSpotMeaning
    <3> QED
      BY <3>1, <3>2
  <2>2. Spots \ {<<o, 1, 1>>} \subseteq Objects \X Nat \X Nat
    BY SpotsTyped
  <2> HIDE DEF o
  <2> QED
    BY <2>1, <2>2, SpotsTyped, SameTriples
<1>4. Held' = Held
  BY <1>1 DEF Held
<1>5. entry.event \in Awaited
  BY <1>2 DEF AllWaiting, Waiting, Exactly
<1>6. Awaited' = Awaited \ {entry.event} /\ HandledSent'
  BY <1>1, <1>5 DEF Awaited, HandledSent
<1>7. Waiting(Spots \ {<<o, 1, 1>>}, Held, urgent, Awaited \ {Held[<<o, 1, 1>>]})
  BY <1>2, Left DEF AllWaiting
<1> HIDE DEF o
<1> QED
  BY <1>1, <1>2, <1>3, <1>4, <1>6, <1>7 DEF AllWaiting

(* Nothing moves: RecallEvents() starts where deferred_events_ ends, and   *)
(* clears it when it has been through; the end entry is nobody's.          *)
LEMMA SameWaiting ==
    ASSUME QueueOK, TypeOK, AllWaiting, UNCHANGED <<handled, taken, urgent>>,
           \A o \in Objects, s, i \in Nat :
               /\ <<o, s, i>> \in Spots <=> <<o, s, i>> \in Spots'
               /\ <<o, s, i>> \in Spots => Held'[<<o, s, i>>] = Held[<<o, s, i>>]
    PROVE  AllWaiting'
<1>1. Spots' = Spots
  BY SpotsTyped, SameTriples
<1>2. Awaited' = Awaited
  BY DEF Awaited
<1>3. Waiting(Spots, Held', urgent, Awaited)
  BY Stayed DEF AllWaiting
<1> QED
  BY <1>1, <1>2, <1>3 DEF AllWaiting

LEMMA RestWaiting ==
    ASSUME QueueOK, TypeOK, InCall, AllWaiting,
           \/ \E t \in Threads : Release(t)
           \/ CallDequeue \/ Acquire \/ CallRecall \/ RecallDone \/ Return
           \/ (\E o \in Objects : Register(o)) \/ Stop \/ Join \/ UNCHANGED vars
    PROVE  AllWaiting' /\ UNCHANGED <<handled, taken>>
<1>1. CASE Stop
  <2>1. /\ Len(queue) \in Nat /\ Len(queue') = Len(queue) + 1
        /\ \A i \in 1..Len(queue) : queue'[i] = queue[i]
        /\ queue'[Len(queue) + 1].target = NoObject
    BY <1>1, InsertBack, EntriesTyped DEF Stop, EndEntry
  <2>2. UNCHANGED <<wpc, entry, cursor, deferred, handled, taken, urgent>>
    BY <1>1 DEF Stop, workerVars, sentVars
  <2>3. ASSUME NEW o \in Objects, NEW s \in Nat, NEW i \in Nat
        PROVE  /\ <<o, s, i>> \in Spots <=> <<o, s, i>> \in Spots'
               /\ <<o, s, i>> \in Spots => Held'[<<o, s, i>>] = Held[<<o, s, i>>]
    <3>1. CASE s = 2 /\ i = Len(queue) + 1
      BY <2>1, <3>1, NoObjectAssumption, SpotMeaning, NextSpotMeaning
    <3>2. CASE ~(s = 2 /\ i = Len(queue) + 1)
      BY <2>1, <2>2, <3>2, SpotMeaning, NextSpotMeaning
    <3> QED
      BY <3>1, <3>2
  <2> QED
    BY <2>2, <2>3, SameWaiting
<1>2. CASE CallRecall
  <2>1. /\ wpc = "actions" /\ wpc' = "recall" /\ cursor' = Len(deferred[entry.target])
        /\ UNCHANGED <<queue, entry, deferred, handled, taken, urgent>>
    BY <1>2 DEF CallRecall, sentVars, queueVars
  <2>2. ASSUME NEW o \in Objects, NEW s \in Nat, NEW i \in Nat
        PROVE  /\ <<o, s, i>> \in Spots <=> <<o, s, i>> \in Spots'
               /\ <<o, s, i>> \in Spots => Held'[<<o, s, i>>] = Held[<<o, s, i>>]
    BY <2>1, SpotMeaning, NextSpotMeaning
  <2> QED
    BY <2>1, <2>2, SameWaiting
<1>3. CASE RecallDone
  <2>1. /\ wpc = "recall" /\ wpc' = "actions" /\ cursor = 0 /\ entry.target \in Objects
        /\ deferred'[entry.target] = <<>> /\ Len(<<>>) = 0
        /\ \A o \in Objects : o # entry.target => deferred'[o] = deferred[o]
        /\ UNCHANGED <<queue, entry, handled, taken, urgent>>
    BY <1>3 DEF RecallDone, sentVars, queueVars, TypeOK
  <2>2. ASSUME NEW o \in Objects, NEW s \in Nat, NEW i \in Nat
        PROVE  /\ <<o, s, i>> \in Spots <=> <<o, s, i>> \in Spots'
               /\ <<o, s, i>> \in Spots => Held'[<<o, s, i>>] = Held[<<o, s, i>>]
    <3>1. CASE s = 0 /\ o = entry.target
      BY <2>1, <3>1, SpotMeaning, NextSpotMeaning
    <3>2. CASE ~(s = 0 /\ o = entry.target)
      BY <2>1, <3>2, SpotMeaning, NextSpotMeaning
    <3> QED
      BY <3>1, <3>2
  <2> QED
    BY <2>1, <2>2, SameWaiting
<1>4. CASE \/ \E t \in Threads : Release(t)
           \/ CallDequeue \/ Acquire \/ Return
           \/ (\E o \in Objects : Register(o)) \/ Join \/ UNCHANGED vars
  <2>1. /\ UNCHANGED <<queue, entry, cursor, deferred, handled, taken, urgent>>
        /\ wpc' = wpc \/ (wpc = "actions" /\ wpc' = "dequeue")
    BY <1>4
    DEF Release, CallDequeue, Acquire, Return, Register, Join, vars, queueVars, workerVars,
        sentVars, Q!Release, Q!CallDequeue, Q!Acquire
  <2>2. ASSUME NEW o \in Objects, NEW s \in Nat, NEW i \in Nat
        PROVE  /\ <<o, s, i>> \in Spots <=> <<o, s, i>> \in Spots'
               /\ <<o, s, i>> \in Spots => Held'[<<o, s, i>>] = Held[<<o, s, i>>]
    <3>1. CASE s = 0
      BY <2>1, <3>1, SpotMeaning, NextSpotMeaning
    <3>2. CASE s # 0
      BY <2>1, <3>2, SpotMeaning, NextSpotMeaning
    <3> QED
      BY <3>1, <3>2
  <2> QED
    BY <2>1, <2>2, SameWaiting
<1> QED
  BY <1>1, <1>2, <1>3, <1>4

LEMMA InitWaiting == Init => AllWaiting /\ HandledSent
<1> SUFFICES ASSUME Init PROVE AllWaiting /\ HandledSent
  OBVIOUS
<1>1. ASSUME NEW o \in Objects, NEW s \in Nat, NEW i \in Nat PROVE <<o, s, i>> \notin Spots
  BY <1>1, SpotMeaning DEF Init, Q!Init
<1>2. Spots = {}
  <2>1. \A x \in Spots : \E o \in Objects, s, i \in Nat : x = <<o, s, i>>
    BY SpotsTyped
  <2> QED
    BY <1>1, <2>1
<1>3. Awaited = {}
  BY DEF Init, Awaited
<1>4. HandledSent
  BY DEF Init, HandledSent
<1> QED
  BY <1>2, <1>3, <1>4 DEF AllWaiting, Waiting, Orderly, Exactly

WaitInv == AllWaiting /\ HandledSent

LEMMA NextWaitInv == IInv /\ WaitInv /\ [Next]_vars => WaitInv'
<1> SUFFICES ASSUME IInv, WaitInv, [Next]_vars PROVE WaitInv'
  OBVIOUS
<1> USE DEF WaitInv
<1>1. QueueOK /\ TypeOK /\ InCall
  BY QueueSound DEF IInv
<1>2. ASSUME NEW t \in Threads, NEW o \in Objects, Take(t, o) \/ TakeHighPrio(t, o)
      PROVE  WaitInv'
  BY <1>1, <1>2, TakeWaiting, TakeHighPrioWaiting
<1>3. CASE Dequeue \/ Defer \/ RecallOne
  <2>1. UNCHANGED <<handled, taken>>
    BY <1>3 DEF Dequeue, Defer, RecallOne, sentVars
  <2>2. HandledSent'
    BY <2>1 DEF HandledSent
  <2> QED
    BY <1>1, <1>3, <2>2, DequeueWaiting, DeferWaiting, RecallOneWaiting
<1>4. CASE Handle
  BY <1>1, <1>4, HandleWaiting
<1>5. CASE \/ \E t \in Threads : Release(t)
           \/ CallDequeue \/ Acquire \/ CallRecall \/ RecallDone \/ Return
           \/ (\E o \in Objects : Register(o)) \/ Stop \/ Join \/ UNCHANGED vars
  <2>1. AllWaiting' /\ UNCHANGED <<handled, taken>>
    BY <1>1, <1>5, RestWaiting
  <2> QED
    BY <2>1 DEF HandledSent
<1> QED
  BY <1>2, <1>3, <1>4, <1>5 DEF Next, Produce, WorkerNext, OwnerNext, Send, Threads

LEMMA SpecWaitInv == SafeSpec => [](IInv /\ WaitInv)
<1>1. Init => WaitInv
  BY InitWaiting DEF WaitInv
<1> QED
  BY <1>1, SpecIInv, NextWaitInv, PTL DEF SafeSpec

(* Deferring and recalling events, one EnqueueFront() after the other      *)
(* while other threads enqueue, never brings an event in front of an older *)
(* one of its object, for any number of threads, objects and events.       *)
THEOREM EventsKeepTheirOrder == SafeSpec => []ArrivalOrder
<1>1. IInv /\ WaitInv => ArrivalOrder
  BY WaitingMeans DEF IInv, WaitInv
<1> QED
  BY <1>1, SpecWaitInv, PTL

(* Every event sent waits in one place, of one object, until it is         *)
(* handled: none is lost, none is handled twice.                           *)
THEOREM NoEventIsLost == SafeSpec => []ExactlyOnce
<1>1. IInv /\ WaitInv => ExactlyOnce
  BY WaitingMeans DEF IInv, WaitInv
<1> QED
  BY <1>1, SpecWaitInv, PTL
=============================================================================
