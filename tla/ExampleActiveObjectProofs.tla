--------------------- MODULE ExampleActiveObjectProofs ---------------------
(***************************************************************************)
(* Proofs about ExampleActiveObject, for any number of senders and events. *)
(*                                                                         *)
(* What holds of the queue is taken from EventQueueProofs.  PlaceInv says  *)
(* that the list holds the events sent and not yet dispatched, in order,   *)
(* with the end entry behind them; Related, which needs it, that the       *)
(* machine is on its way from the state after the events dispatched to the *)
(* state after the one under way.                                          *)
(***************************************************************************)
EXTENDS ExampleActiveObject, FiniteSetTheorems, SequenceTheorems, WellFoundedInduction, TLAPS

QP == INSTANCE EventQueueProofs WITH
          Threads <- Senders \cup {Worker, Owner}, Entries <- {Go1, Go2, EndEntry},
          MaxLen <- MaxEvents + 1, SemMax <- MaxEvents + 1

(* front() is called on an entry.                                          *)
QueueOK == Q!TypeOK /\ (op[Worker] = "pop" => queue # <<>>)

UnderWay == IF wpc = "react" THEN 1 ELSE 0
Ending == IF opc = "stopping" /\ wpc # "exited" THEN 1 ELSE 0

PlaceInv ==
    /\ wpc \in {"dequeue", "react", "exited"}
    /\ opc \in {"construct", "start", "up", "stopping"}
    /\ sent \in Seq({Go1, Go2}) /\ done \in Nat
    /\ op[Worker] \in {"acquire", "pop"} => wpc = "dequeue"
    /\ opc \in {"construct", "start"} => Len(sent) = 0 /\ done = 0 /\ wpc = "dequeue"
    /\ wpc = "exited" => opc = "stopping"
    /\ Len(queue) = Len(sent) - (done + UnderWay) + Ending
    /\ done + UnderWay <= Len(sent)
    /\ \A i \in 1..(Len(sent) - (done + UnderWay)) : queue[i] = sent[done + UnderWay + i]
    /\ Ending = 1 => queue[Len(queue)] = EndEntry

(* Where the machine is.                                                   *)
Rests(x) == pc = "idle" /\ current = x
Asks(x, e) == pc = "handle" /\ s = x /\ current = x /\ event = e
Goes(x) ==
    /\ pc \in {"exitSelf", "exit", "actions", "enter", "descend"}
    /\ current = kInTransition /\ target = x

(* The states the events sent lead through.                                *)
Courses ==
    {after \in [0..Len(sent) -> States] :
        /\ after[0] = kState1
        /\ \A n \in 1..Len(sent) : after[n] = Toggle(after[n - 1], sent[n])}

Follows(after) ==
    /\ opc = "construct" => Rests(Null)
    /\ opc = "start" => Rests(kState1) \/ Goes(kState1)
    /\ opc \in {"up", "stopping"} /\ wpc = "react" =>
          \/ Asks(after[done], sent[done + 1])
          \/ Goes(after[done + 1]) \/ Rests(after[done + 1])
    /\ opc \in {"up", "stopping"} /\ wpc # "react" => Rests(after[done])

Related == \E after \in Courses : Follows(after)

-----------------------------------------------------------------------------
(* The queue is an EventQueue.                                             *)

Users == Senders \cup {Worker, Owner}

LEMMA QueueAssumptions ==
    /\ IsFiniteSet(Users) /\ QP!IsFiniteSet(Users)
    /\ MaxEvents + 1 \in Nat
<1>1. IsFiniteSet({Worker, Owner})
  <2>1. IsFiniteSet({Worker})
    BY FS_Singleton
  <2>2. {Worker, Owner} = {Worker} \cup {Owner}
    OBVIOUS
  <2> QED
    BY <2>1, <2>2, FS_AddElement
<1>2. IsFiniteSet(Users)
  BY <1>1, ThreadsAssumption, FS_Union DEF Users
<1>3. QP!IsFiniteSet(Users)
  BY <1>2 DEF IsFiniteSet, QP!IsFiniteSet
<1> QED
  BY <1>2, <1>3, MaxEventsAssumption

LEMMA QueueStep == [Next]_vars => [Q!Next]_Q!vars
<1> SUFFICES ASSUME [Next]_vars PROVE [Q!Next]_queueVars
  BY DEF queueVars, Q!vars
<1>1. CASE (\E t \in Senders, e \in {Go1, Go2} : Take(t, e)) \/ Stop
  BY <1>1 DEF Take, Stop, Q!Next
<1>2. CASE Release(Worker) \/ Release(Owner) \/ \E t \in Senders : Release(t)
  BY <1>2 DEF Release, Q!Next
<1>3. CASE Dequeues \/ Dispatch
  BY <1>3 DEF Dequeues, Dispatch, Q!Next
<1>4. CASE Construct \/ StartStep \/ ReactStep \/ DispatchReturns \/ UNCHANGED vars
  BY <1>4 DEF Construct, StartStep, ReactStep, DispatchReturns, vars
<1> QED
  BY <1>1, <1>2, <1>3, <1>4 DEF Next, WorkerNext

LEMMA QueueNext == QP!IInv /\ [Q!Next]_Q!vars => QP!IInv'
<1>1. [Q!Next]_Q!vars => [QP!Next]_QP!vars
  BY DEF Q!Next, QP!Next, Q!vars, QP!vars, Q!EnqueueBack, QP!EnqueueBack, Q!EnqueueFront,
         QP!EnqueueFront, Q!Release, QP!Release, Q!CallDequeue, QP!CallDequeue, Q!Acquire,
         QP!Acquire, Q!Dequeue, QP!Dequeue, Q!Goto, QP!Goto, Q!SemAfterRelease,
         QP!SemAfterRelease
<1> QED
  BY <1>1, QP!NextIInv, QueueAssumptions DEF Users

LEMMA QueueInit == Init => QP!IInv
<1>1. QP!Init => QP!IInv
  BY QP!InitIInv, QueueAssumptions DEF Users
<1> QED
  BY <1>1 DEF Init, Q!Init, QP!Init

LEMMA QueueSound == QP!IInv => QueueOK
<1> SUFFICES ASSUME QP!IInv PROVE QueueOK
  OBVIOUS
<1>1. Q!TypeOK
  BY DEF QP!IInv, QP!TypeOK, Q!TypeOK, QP!OpStates, Q!OpStates
<1>2. ASSUME op[Worker] = "pop" PROVE queue # <<>>
  <2>1. QP!PopHasEntry
    BY QP!CoveredHasEntry, QueueAssumptions DEF Users
  <2>2. Worker \in QP!InOp("pop")
    BY <1>2 DEF QP!InOp
  <2>3. \A S : QP!Cardinality(S) = Cardinality(S)
    BY DEF QP!Cardinality, Cardinality
  <2>4. IsFiniteSet(QP!InOp("pop"))
    BY QueueAssumptions, FS_Subset DEF QP!InOp, Users
  <2>5. Cardinality(QP!InOp("pop")) # 0
    BY <2>2, <2>4, FS_EmptySet
  <2>6. Cardinality(QP!InOp("pop")) \in Nat
    BY <2>4, FS_CardinalityType
  <2> QED
    BY <2>1, <2>3, <2>5, <2>6 DEF QP!PopHasEntry
<1> QED
  BY <1>1, <1>2 DEF QueueOK

LEMMA InsertBack ==
    ASSUME QueueOK, NEW t, NEW e \in {Go1, Go2, EndEntry}, Q!EnqueueBack(t, e)
    PROVE  /\ Len(queue) \in Nat /\ Len(queue') = Len(queue) + 1
           /\ \A i \in 1..Len(queue) : queue'[i] = queue[i]
           /\ queue'[Len(queue) + 1] = e
           /\ op'[Worker] \in {"acquire", "pop"} => op'[Worker] = op[Worker]
BY AppendProperties, LenProperties DEF QueueOK, Q!TypeOK, Q!EnqueueBack, Q!Goto

LEMMA TakeFront ==
    ASSUME QueueOK, Q!Dequeue(Worker)
    PROVE  /\ Len(queue) \in Nat \ {0} /\ Len(queue') = Len(queue) - 1
           /\ \A i \in 1..Len(queue') : queue'[i] = queue[i + 1]
           /\ Head(queue) = queue[1]
           /\ op[Worker] = "pop" /\ op'[Worker] = "idle"
<1>1. op[Worker] = "pop" /\ queue # <<>> /\ queue' = Tail(queue)
      /\ queue \in Seq({Go1, Go2, EndEntry})
  BY DEF QueueOK, Q!TypeOK, Q!Dequeue, Q!Goto
<1>2. op'[Worker] = "idle"
  BY DEF QueueOK, Q!TypeOK, Q!Dequeue, Q!Goto
<1> QED
  BY <1>1, <1>2, HeadTailProperties, LenProperties, EmptySeq

-----------------------------------------------------------------------------
(* The machine.                                                            *)

LEMMA Replying ==
    ASSUME NEW x \in States, NEW e \in {Go1, Go2}, Asks(x, e), fsm!Running
    PROVE  (Rests(x) /\ Toggle(x, e) = x)' \/ Goes(Toggle(x, e))'
<1> USE NamesAssumption DEF Asks, Rests, Goes
<1>1. Handlers[<<s, event>>] =
          {IF x = kState1 THEN State1Handler(e) ELSE State2Handler(e)}
  BY DEF Handlers, States
<1>2. NoParent[s] = Null
  BY DEF NoParent
<1>3. /\ x = kState1 => Handlers[<<s, event>>] = {IF e = Go2 THEN kState2 ELSE kNone}
      /\ x = kState2 => Handlers[<<s, event>>] = {IF e = Go1 THEN kState1 ELSE Null}
  BY <1>1 DEF State1Handler, State2Handler, SomeGuardFunction
<1>4. /\ x = kState1 => Toggle(x, e) = IF e = Go2 THEN kState2 ELSE x
      /\ x = kState2 => Toggle(x, e) = IF e = Go1 THEN kState1 ELSE x
  BY DEF Toggle
<1>5. x = kState1 \/ x = kState2
  BY DEF States
<1>6. CASE fsm!DeferEvent
  BY <1>3, <1>5, <1>6 DEF fsm!DeferEvent, fsm!Replies
<1>7. CASE fsm!UnhandledEvent
  BY <1>2, <1>3, <1>4, <1>5, <1>7 DEF fsm!UnhandledEvent, fsm!Replies
<1>8. CASE fsm!NoTransition
  BY <1>3, <1>4, <1>5, <1>8 DEF fsm!NoTransition, fsm!Replies
<1>9. ASSUME NEW y \in States, fsm!TransitionTo(y)
      PROVE  Goes(Toggle(x, e))'
  <2>1. y = Toggle(x, e)
    <3>1. y \in Handlers[<<s, event>>] /\ y # Null /\ y # kNone
      BY <1>9 DEF fsm!TransitionTo, fsm!Replies, States
    <3>2. CASE x = kState1
      BY <1>3, <1>4, <3>1, <3>2
    <3>3. CASE x = kState2
      BY <1>3, <1>4, <3>1, <3>3
    <3> QED
      BY <1>5, <3>2, <3>3
  <2> QED
    BY <1>9, <2>1 DEF fsm!TransitionTo
<1>10. ~ \/ \E y \in States : fsm!Enter(y)
         \/ fsm!ExitSelf \/ fsm!Exit \/ fsm!ExecuteActions \/ fsm!EnterInitial \/ fsm!Finish
  BY DEF fsm!Enter, fsm!ExitSelf, fsm!Exit, fsm!ExecuteActions, fsm!EnterInitial, fsm!Finish
<1> QED
  BY <1>6, <1>7, <1>8, <1>9, <1>10 DEF fsm!Running

LEMMA Going ==
    ASSUME NEW x \in States, Goes(x), fsm!Running
    PROVE  Goes(x)' \/ Rests(x)'
<1> USE DEF Rests, Goes
<1>1. NoParent[x] = Null
  BY DEF NoParent
<1>2. ~(fsm!DeferEvent \/ fsm!UnhandledEvent \/ fsm!NoTransition
        \/ \E y \in States : fsm!TransitionTo(y))
  BY DEF fsm!DeferEvent, fsm!UnhandledEvent, fsm!NoTransition, fsm!TransitionTo, fsm!Replies
<1>3. ~fsm!EnterInitial
  BY <1>1 DEF fsm!EnterInitial, fsm!GetInitialState
<1>4. CASE (\E y \in States : fsm!Enter(y)) \/ fsm!ExitSelf \/ fsm!Exit \/ fsm!ExecuteActions
  BY <1>4 DEF fsm!Enter, fsm!ExitSelf, fsm!Exit, fsm!ExecuteActions, fsm!locals
<1>5. CASE fsm!Finish
  BY <1>5 DEF fsm!Finish
<1> QED
  BY <1>2, <1>3, <1>4, <1>5 DEF fsm!Running

LEMMA RestingMachine == pc = "idle" => ~fsm!Running
BY DEF fsm!Running, fsm!DeferEvent, fsm!UnhandledEvent, fsm!NoTransition, fsm!TransitionTo,
       fsm!Replies, fsm!Enter, fsm!ExitSelf, fsm!Exit, fsm!ExecuteActions, fsm!EnterInitial,
       fsm!Finish

-----------------------------------------------------------------------------
(* The queue's contents.                                                   *)

LEMMA PlaceStep ==
    ASSUME QueueOK, PlaceInv, Next \/ UNCHANGED vars
    PROVE  PlaceInv'
<1>0. Len(sent) \in Nat /\ Len(queue) \in Nat /\ done \in Nat /\ UnderWay \in 0..1
      /\ Ending \in 0..1
  BY LenProperties DEF PlaceInv, QueueOK, Q!TypeOK, UnderWay, Ending
<1>1. CASE Construct \/ StartStep
  <2>1. UNCHANGED <<queue, op, wpc, sent, done>>
    BY <1>1 DEF Construct, StartStep, queueVars
  <2>2. opc' \in {"construct", "start", "up"} /\ opc \in {"construct", "start"}
    BY <1>1 DEF Construct, StartStep
  <2>3. UNCHANGED <<UnderWay, Ending>>
    BY <2>1, <2>2 DEF UnderWay, Ending
  <2> QED
    BY <2>1, <2>2, <2>3 DEF PlaceInv
<1>2. ASSUME NEW t \in Senders, NEW e \in {Go1, Go2}, Take(t, e) PROVE PlaceInv'
  <2>1. /\ opc = "up" /\ opc' = "up" /\ wpc' = wpc /\ done' = done /\ sent' = Append(sent, e)
        /\ Q!EnqueueBack(t, e)
    BY <1>2 DEF Take
  <2>2. /\ sent' \in Seq({Go1, Go2}) /\ Len(sent') = Len(sent) + 1
        /\ \A i \in 1..Len(sent) : sent'[i] = sent[i]
        /\ sent'[Len(sent) + 1] = e
    BY <2>1, AppendProperties DEF PlaceInv
  <2>3. UnderWay' = UnderWay /\ Ending' = 0 /\ Ending = 0
    BY <2>1 DEF UnderWay, Ending
  <2>4. /\ Len(queue') = Len(queue) + 1
        /\ \A i \in 1..Len(queue) : queue'[i] = queue[i]
        /\ queue'[Len(queue) + 1] = e
        /\ op'[Worker] \in {"acquire", "pop"} => op'[Worker] = op[Worker]
    BY <2>1, InsertBack
  <2>5. ASSUME NEW i \in 1..(Len(sent') - (done' + UnderWay'))
        PROVE  queue'[i] = sent'[done' + UnderWay' + i]
    <3>1. CASE i \in 1..Len(queue)
      <4>1. i \in 1..(Len(sent) - (done + UnderWay)) /\ done + UnderWay + i \in 1..Len(sent)
        BY <1>0, <2>3, <3>1 DEF PlaceInv
      <4> QED
        BY <2>1, <2>2, <2>3, <2>4, <3>1, <4>1 DEF PlaceInv
    <3>2. CASE i \notin 1..Len(queue)
      <4>1. i = Len(queue) + 1 /\ done + UnderWay + i = Len(sent) + 1
        BY <1>0, <2>1, <2>2, <2>3, <3>2 DEF PlaceInv
      <4> QED
        BY <2>1, <2>2, <2>3, <2>4, <4>1
    <3> QED
      BY <3>1, <3>2
  <2>6. /\ Len(queue') = Len(sent') - (done' + UnderWay') + Ending'
        /\ done' + UnderWay' <= Len(sent')
    BY <1>0, <2>1, <2>2, <2>3, <2>4 DEF PlaceInv
  <2>7. /\ wpc' \in {"dequeue", "react", "exited"} /\ done' \in Nat
        /\ op'[Worker] \in {"acquire", "pop"} => wpc' = "dequeue"
        /\ opc' \notin {"construct", "start"} /\ wpc' # "exited" /\ Ending' # 1
    BY <2>1, <2>3, <2>4 DEF PlaceInv
  <2> QED
    BY <2>1, <2>2, <2>5, <2>6, <2>7 DEF PlaceInv
<1>3. CASE (\E t \in Senders \cup {Worker, Owner} : Release(t)) \/ Dequeues
  <2>1. UNCHANGED <<queue, wpc, opc, sent, done>>
    BY <1>3 DEF Release, Dequeues, Q!Release, Q!CallDequeue, Q!Acquire
  <2>2. op'[Worker] \in {"acquire", "pop"} => wpc = "dequeue"
    BY <1>3
    DEF PlaceInv, QueueOK, Q!TypeOK, Release, Dequeues, Q!Release, Q!CallDequeue, Q!Acquire,
        Q!Goto
  <2>3. UNCHANGED <<UnderWay, Ending>>
    BY <2>1 DEF UnderWay, Ending
  <2> QED
    BY <2>1, <2>2, <2>3 DEF PlaceInv
<1>4. CASE Stop
  <2>1. /\ opc = "up" /\ opc' = "stopping" /\ wpc' = wpc /\ done' = done /\ sent' = sent
        /\ Q!EnqueueBack(Owner, EndEntry)
    BY <1>4 DEF Stop
  <2>2. UnderWay' = UnderWay /\ Ending = 0 /\ Ending' = 1 /\ wpc # "exited"
    BY <2>1 DEF UnderWay, Ending, PlaceInv
  <2>3. /\ Len(queue') = Len(queue) + 1
        /\ \A i \in 1..Len(queue) : queue'[i] = queue[i]
        /\ queue'[Len(queue) + 1] = EndEntry
        /\ op'[Worker] \in {"acquire", "pop"} => op'[Worker] = op[Worker]
    BY <2>1, InsertBack
  <2>4. \A i \in 1..(Len(sent) - (done + UnderWay)) : i \in 1..Len(queue)
    BY <1>0, <2>2 DEF PlaceInv
  <2> QED
    BY <1>0, <2>1, <2>2, <2>3, <2>4 DEF PlaceInv
<1>5. CASE Dispatch
  <2>1. /\ Len(queue) \in Nat \ {0} /\ Len(queue') = Len(queue) - 1
        /\ \A i \in 1..Len(queue') : queue'[i] = queue[i + 1]
        /\ Head(queue) = queue[1]
        /\ op[Worker] = "pop" /\ op'[Worker] = "idle"
        /\ opc' = opc /\ sent' = sent /\ done' = done
    BY <1>5, TakeFront DEF Dispatch
  <2>2. wpc = "dequeue" /\ UnderWay = 0
    BY <2>1 DEF PlaceInv, UnderWay
  <2>3. opc \in {"up", "stopping"}
    BY <1>0, <2>1, <2>2 DEF PlaceInv, Ending
  <2>4. CASE Head(queue) = EndEntry
    <3>1. Len(sent) - done = 0
      <4>1. ASSUME 1 \in 1..(Len(sent) - done) PROVE FALSE
        <5>1. queue[1] = sent[done + 0 + 1] /\ done + 0 + 1 \in 1..Len(sent)
          BY <1>0, <2>2, <4>1 DEF PlaceInv
        <5>2. queue[1] \in {Go1, Go2}
          BY <1>0, <5>1, ElementOfSeq DEF PlaceInv
        <5> QED
          BY <2>1, <2>4, <5>2, NamesAssumption DEF EndEntry
      <4> QED
        BY <1>0, <2>2, <4>1 DEF PlaceInv
    <3>2. Ending = 1 /\ Len(queue) = 1
      BY <1>0, <2>1, <2>2, <3>1 DEF PlaceInv
    <3>3. wpc' = "exited" /\ opc = "stopping" /\ UnderWay' = 0 /\ Ending' = 0
      BY <1>5, <2>4, <3>2 DEF Dispatch, Ending, UnderWay
    <3> QED
      BY <1>0, <2>1, <2>2, <3>1, <3>2, <3>3 DEF PlaceInv
  <2>5. CASE Head(queue) # EndEntry
    <3>1. wpc' = "react" /\ UnderWay' = 1 /\ Ending' = Ending
      BY <1>5, <2>1, <2>2, <2>5 DEF Dispatch, UnderWay, Ending
    <3>2. Len(sent) - done >= 1
      <4>1. Len(queue) = Len(sent) - done + Ending /\ done <= Len(sent)
        BY <1>0, <2>2 DEF PlaceInv
      <4>2. Len(queue) = 1 /\ Ending = 1 => queue[1] = EndEntry
        BY DEF PlaceInv
      <4> QED
        BY <1>0, <2>1, <2>5, <4>1, <4>2
    <3>3. ASSUME NEW i \in 1..(Len(sent) - (done + 1))
          PROVE  queue'[i] = sent[done + 1 + i]
      <4>1. i \in 1..Len(queue') /\ i + 1 \in 1..(Len(sent) - (done + 0))
            /\ done + 0 + (i + 1) = done + 1 + i
        BY <1>0, <2>1, <2>2 DEF PlaceInv
      <4>2. queue[i + 1] = sent[done + 0 + (i + 1)]
        BY <2>2, <4>1 DEF PlaceInv
      <4> QED
        BY <2>1, <4>1, <4>2
    <3>4. Ending = 1 => queue'[Len(queue')] = EndEntry
      <4> SUFFICES ASSUME Ending = 1 PROVE queue'[Len(queue')] = EndEntry
        OBVIOUS
      <4>1. Len(queue') \in 1..Len(queue') /\ Len(queue') + 1 = Len(queue)
        BY <1>0, <2>1, <2>2, <3>2 DEF PlaceInv
      <4> QED
        BY <2>1, <4>1 DEF PlaceInv
    <3> QED
      BY <1>0, <2>1, <2>2, <2>3, <3>1, <3>2, <3>3, <3>4 DEF PlaceInv
  <2> QED
    BY <2>4, <2>5
<1>6. CASE ReactStep \/ UNCHANGED vars
  <2>1. UNCHANGED <<queue, op, wpc, opc, sent, done>>
    BY <1>6 DEF ReactStep, vars, queueVars
  <2>2. UNCHANGED <<UnderWay, Ending>>
    BY <2>1 DEF UnderWay, Ending
  <2> QED
    BY <2>1, <2>2 DEF PlaceInv
<1>7. CASE DispatchReturns
  <2>1. /\ wpc = "react" /\ wpc' = "dequeue" /\ done' = done + 1
        /\ UNCHANGED <<queue, op, opc, sent>>
    BY <1>7 DEF DispatchReturns, queueVars
  <2>2. UnderWay = 1 /\ UnderWay' = 0 /\ Ending' = Ending /\ opc \in {"up", "stopping"}
    BY <2>1 DEF UnderWay, Ending, PlaceInv
  <2>3. done' + UnderWay' = done + UnderWay
    BY <1>0, <2>1, <2>2
  <2> QED
    BY <1>0, <2>1, <2>2, <2>3 DEF PlaceInv
<1> QED
  BY <1>1, <1>2, <1>3, <1>4, <1>5, <1>6, <1>7 DEF Next, WorkerNext

-----------------------------------------------------------------------------
(* The course of the machine.                                              *)

LEMMA ToggleTyped == \A x \in States, e \in {Go1, Go2} : Toggle(x, e) \in States
BY DEF Toggle, States

(* There is one course: two would part somewhere first.                    *)
LEMMA OneCourse ==
    ASSUME Len(sent) \in Nat, NEW f \in Courses, NEW g \in Courses
    PROVE  f = g
<1> DEFINE Apart == {n \in 0..Len(sent) : f[n] # g[n]}
<1>1. SUFFICES ASSUME Apart # {} PROVE FALSE
  BY <1>1 DEF Courses
<1>2. PICK n \in Apart : \A m \in Apart : <<m, n>> \notin OpToRel(<, Nat)
  <2>1. Apart \subseteq Nat
    OBVIOUS
  <2> HIDE DEF Apart
  <2> QED
    BY <1>1, <2>1, WFMin, NatLessThanWellFounded, Zenon
<1>3. n \in 1..Len(sent) /\ n - 1 \in 0..Len(sent) /\ n - 1 < n
  BY DEF Courses
<1>4. <<n - 1, n>> \in OpToRel(<, Nat)
  BY <1>3 DEF OpToRel
<1>5. n - 1 \notin Apart
  BY <1>2, <1>4
<1> QED
  BY <1>3, <1>5 DEF Courses

(* One more event is sent.                                                 *)
LEMMA LongerCourse ==
    ASSUME sent \in Seq({Go1, Go2}), NEW e \in {Go1, Go2}, sent' = Append(sent, e),
           NEW f \in Courses
    PROVE  \E g \in Courses' : \A n \in 0..Len(sent) : g[n] = f[n]
<1>1. /\ Len(sent) \in Nat /\ Len(sent') = Len(sent) + 1 /\ sent'[Len(sent) + 1] = e
      /\ \A i \in 1..Len(sent) : sent'[i] = sent[i]
  BY AppendProperties, LenProperties
<1>2. /\ f \in [0..Len(sent) -> States] /\ f[0] = kState1
      /\ \A n \in 1..Len(sent) : f[n] = Toggle(f[n - 1], sent[n])
  BY DEF Courses
<1> DEFINE g == [n \in 0..(Len(sent) + 1) |->
                    IF n = Len(sent) + 1 THEN Toggle(f[Len(sent)], e) ELSE f[n]]
<1>3. /\ \A n \in 0..Len(sent) : g[n] = f[n]
      /\ g[Len(sent) + 1] = Toggle(f[Len(sent)], e)
  BY <1>1
<1>4. g \in [0..Len(sent') -> States]
  <2>1. Toggle(f[Len(sent)], e) \in States
    BY <1>1, <1>2, ToggleTyped
  <2> QED
    BY <1>1, <1>2, <2>1
<1> HIDE DEF g
<1>5. g[0] = kState1
  BY <1>1, <1>2, <1>3
<1>6. ASSUME NEW n \in 1..Len(sent') PROVE g[n] = Toggle(g[n - 1], sent'[n])
  <2>1. CASE n = Len(sent) + 1
    <3>1. n - 1 = Len(sent) /\ n - 1 \in 0..Len(sent)
      BY <1>1, <2>1
    <3> QED
      BY <1>1, <1>3, <2>1, <3>1
  <2>2. CASE n \in 1..Len(sent)
    <3>1. n - 1 \in 0..Len(sent) /\ n \in 0..Len(sent)
      BY <1>1, <2>2
    <3> QED
      BY <1>1, <1>2, <1>3, <2>2, <3>1
  <2> QED
    BY <1>1, <2>1, <2>2
<1>7. g \in Courses'
  BY <1>4, <1>5, <1>6 DEF Courses
<1> QED
  BY <1>3, <1>7

LEMMA InitRelated == Init => PlaceInv /\ Related
<1> SUFFICES ASSUME Init PROVE PlaceInv /\ Related
  OBVIOUS
<1>1. /\ sent = <<>> /\ Len(sent) = 0 /\ done = 0 /\ wpc = "dequeue" /\ opc = "construct"
      /\ queue = <<>> /\ Len(queue) = 0
      /\ pc = "idle" /\ current = Null
  BY DEF Init, fsm!Init, Q!Init
<1>2. op[Worker] = "idle"
  BY DEF Init, Q!Init
<1>3. UnderWay = 0 /\ Ending = 0
  BY <1>1 DEF UnderWay, Ending
<1>4. PlaceInv
  BY <1>1, <1>2, <1>3 DEF PlaceInv
<1>5. [n \in 0..0 |-> kState1] \in Courses
  BY <1>1 DEF Courses, States
<1>6. Follows([n \in 0..0 |-> kState1])
  BY <1>1 DEF Follows, Rests
<1> QED
  BY <1>4, <1>5, <1>6 DEF Related

LEMMA RelatedStep ==
    ASSUME QueueOK, PlaceInv, PlaceInv', Related, Next \/ UNCHANGED vars
    PROVE  Related'
<1>0. Len(sent) \in Nat /\ done \in Nat /\ sent \in Seq({Go1, Go2})
  BY LenProperties DEF PlaceInv
<1>1. PICK after \in Courses : Follows(after)
  BY DEF Related
<1>2. /\ after \in [0..Len(sent) -> States] /\ after[0] = kState1
      /\ \A n \in 1..Len(sent) : after[n] = Toggle(after[n - 1], sent[n])
  BY <1>1 DEF Courses
<1>3. ASSUME sent' = sent, Follows(after)' PROVE Related'
  BY <1>1, <1>3 DEF Related, Courses
<1> USE DEF Rests
<1>4. CASE Construct
  <2>1. Goes(kState1)' /\ opc' = "start" /\ sent' = sent
    BY <1>4 DEF Construct, fsm!Start, Goes
  <2> QED
    BY <1>3, <2>1 DEF Follows
<1>5. CASE StartStep
  <2>1. sent' = sent /\ opc = "start" /\ done' = done /\ wpc' = wpc /\ done = 0 /\ wpc = "dequeue"
    BY <1>5 DEF StartStep, PlaceInv
  <2>2. CASE fsm!Running /\ opc' = opc
    <3>1. Goes(kState1)
      BY <1>1, <2>1, <2>2, RestingMachine DEF Follows
    <3>2. Goes(kState1)' \/ Rests(kState1)'
      BY <2>2, <3>1, Going DEF States
    <3> QED
      BY <1>3, <2>1, <2>2, <3>2 DEF Follows
  <2>3. CASE pc = "idle" /\ opc' = "up" /\ UNCHANGED machineVars
    <3>1. Rests(kState1) /\ current' = current /\ pc' = pc
      BY <1>1, <2>1, <2>3 DEF Follows, machineVars, Goes
    <3> QED
      BY <1>2, <1>3, <2>1, <2>3, <3>1 DEF Follows
  <2> QED
    BY <1>5, <2>2, <2>3 DEF StartStep
<1>6. ASSUME NEW t \in Senders, NEW e \in {Go1, Go2}, Take(t, e) PROVE Related'
  <2>1. /\ opc = "up" /\ opc' = "up" /\ wpc' = wpc /\ done' = done
        /\ sent' = Append(sent, e) /\ UNCHANGED <<pc, current, s, event, target>>
    BY <1>6 DEF Take, machineVars
  <2>2. PICK g \in Courses' : \A n \in 0..Len(sent) : g[n] = after[n]
    BY <1>0, <1>1, <2>1, LongerCourse
  <2>3. /\ done \in 0..Len(sent)
        /\ wpc = "react" => done + 1 \in 0..Len(sent) /\ done + 1 \in 1..Len(sent)
    BY <1>0 DEF PlaceInv, UnderWay
  <2>4. wpc = "react" => sent'[done + 1] = sent[done + 1]
    BY <1>0, <2>1, <2>3, AppendProperties
  <2>5. Follows(g)'
    BY <1>1, <2>1, <2>2, <2>3, <2>4 DEF Follows, Asks, Goes
  <2> QED
    BY <2>2, <2>5 DEF Related
<1>7. CASE \/ \E t \in Senders \cup {Worker, Owner} : Release(t)
           \/ Dequeues \/ UNCHANGED vars
  <2>1. UNCHANGED <<sent, wpc, opc, done, pc, current, s, event, target>>
    BY <1>7 DEF Release, Dequeues, machineVars, vars
  <2> QED
    BY <1>1, <1>3, <2>1 DEF Follows, Asks, Goes
<1>8. CASE Stop
  <2>1. /\ UNCHANGED <<sent, wpc, done, pc, current, s, event, target>>
        /\ opc = "up" /\ opc' = "stopping"
    BY <1>8 DEF Stop, machineVars
  <2> QED
    BY <1>1, <1>3, <2>1 DEF Follows, Asks, Goes
<1>9. CASE Dispatch
  <2>1. /\ op[Worker] = "pop" /\ Len(queue) \in Nat \ {0} /\ Head(queue) = queue[1]
        /\ opc' = opc /\ sent' = sent /\ done' = done
    BY <1>9, TakeFront DEF Dispatch
  <2>2. wpc = "dequeue" /\ UnderWay = 0
    BY <2>1 DEF PlaceInv, UnderWay
  <2>3. opc \in {"up", "stopping"}
    BY <1>0, <2>1, <2>2 DEF PlaceInv, Ending
  <2>4. Rests(after[done])
    BY <1>1, <2>2, <2>3 DEF Follows
  <2>5. CASE Head(queue) = EndEntry
    <3>1. wpc' = "exited" /\ pc' = pc /\ current' = current
      BY <1>9, <2>5 DEF Dispatch, machineVars
    <3> QED
      BY <1>3, <2>1, <2>3, <2>4, <3>1 DEF Follows
  <2>6. CASE Head(queue) # EndEntry
    <3>1. wpc' = "react" /\ fsm!React(Head(queue))
      BY <1>9, <2>6 DEF Dispatch
    <3>2. done + 1 <= Len(sent)
      BY <2>1, <3>1 DEF PlaceInv, UnderWay
    <3>3. Head(queue) = sent[done + 1]
      <4>1. 1 \in 1..(Len(sent) - (done + 0)) /\ done + 0 + 1 = done + 1
        BY <1>0, <3>2
      <4> QED
        BY <2>1, <2>2, <4>1 DEF PlaceInv
    <3>4. Asks(after[done], sent[done + 1])'
      BY <2>1, <2>4, <3>1, <3>3 DEF fsm!React, Asks
    <3> QED
      BY <1>3, <2>1, <2>3, <3>1, <3>4 DEF Follows
  <2> QED
    BY <2>5, <2>6
<1>10. CASE ReactStep
  <2>1. /\ wpc = "react" /\ fsm!Running /\ UNCHANGED <<wpc, opc, sent, done>>
        /\ opc \in {"up", "stopping"}
    BY <1>10 DEF ReactStep, PlaceInv
  <2>2. /\ done \in 0..Len(sent) /\ done + 1 \in 1..Len(sent) /\ (done + 1) - 1 = done
        /\ done + 1 \in 0..Len(sent)
    BY <1>0, <2>1 DEF PlaceInv, UnderWay
  <2>3. after[done] \in States /\ after[done + 1] \in States /\ sent[done + 1] \in {Go1, Go2}
        /\ after[done + 1] = Toggle(after[done], sent[done + 1])
    BY <1>0, <1>2, <2>2, ElementOfSeq
  <2>4. CASE Asks(after[done], sent[done + 1])
    <3>1. (pc' = "idle" /\ current' = after[done + 1]) \/ Goes(after[done + 1])'
      BY <2>1, <2>3, <2>4, Replying
    <3> QED
      BY <1>3, <2>1, <3>1 DEF Follows
  <2>5. CASE Goes(after[done + 1])
    <3>1. Goes(after[done + 1])' \/ Rests(after[done + 1])'
      BY <2>1, <2>3, <2>5, Going
    <3> QED
      BY <1>3, <2>1, <3>1 DEF Follows
  <2> QED
    BY <1>1, <2>1, <2>4, <2>5, RestingMachine DEF Follows
<1>11. CASE DispatchReturns
  <2>1. /\ wpc = "react" /\ wpc' = "dequeue" /\ pc = "idle" /\ done' = done + 1
        /\ UNCHANGED <<opc, sent, pc, current>> /\ opc \in {"up", "stopping"}
    BY <1>11 DEF DispatchReturns, machineVars, PlaceInv
  <2>2. Rests(after[done + 1])
    BY <1>1, <2>1 DEF Follows, Asks, Goes
  <2> QED
    BY <1>3, <2>1, <2>2 DEF Follows
<1> QED
  BY <1>4, <1>5, <1>6, <1>7, <1>8, <1>9, <1>10, <1>11 DEF Next, WorkerNext

(* Another thread sees in CurrentState() the state that the events so far  *)
(* dispatched lead to, that which the one under way leads to, or           *)
(* kInTransition, for any number of senders and of events.                 *)
THEOREM CurrentStateIsOnCourse == Spec => []CurrentStateIsRecent
<1> DEFINE Inv == QP!IInv /\ PlaceInv /\ Related
<1>1. Init => Inv
  BY QueueInit, InitRelated
<1>2. Inv /\ [Next]_vars => Inv'
  <2> SUFFICES ASSUME Inv, Next \/ UNCHANGED vars PROVE Inv'
    OBVIOUS
  <2>1. QP!IInv'
    BY QueueStep, QueueNext
  <2>2. QueueOK
    BY QueueSound
  <2>3. PlaceInv'
    BY <2>2, PlaceStep
  <2>4. Related'
    BY <2>2, <2>3, RelatedStep
  <2> QED
    BY <2>1, <2>3, <2>4
<1>3. Inv => CurrentStateIsRecent
  <2> SUFFICES ASSUME PlaceInv, Related, opc \in {"up", "stopping"}
               PROVE  \/ current = StateAfter[done]
                      \/ wpc = "react" /\ current \in {kInTransition, StateAfter[done + 1]}
    BY DEF CurrentStateIsRecent, CurrentState
  <2>1. PICK after \in Courses : Follows(after)
    BY DEF Related
  <2>2. StateAfter \in Courses
    BY <2>1 DEF StateAfter, Courses
  <2>3. Len(sent) \in Nat
    BY LenProperties DEF PlaceInv
  <2>4. StateAfter = after
    BY <2>1, <2>2, <2>3, OneCourse
  <2> QED
    BY <2>1, <2>4 DEF Follows, Rests, Asks, Goes
<1> QED
  BY <1>1, <1>2, <1>3, PTL DEF Spec
=============================================================================
