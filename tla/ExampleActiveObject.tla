------------------------ MODULE ExampleActiveObject ------------------------
(***************************************************************************)
(* The example activeobject as test/ActiveObjectFramework_unittest.cxx     *)
(* runs it: a state machine (module Statemachine) in an active object, fed *)
(* through its domain's queue (module EventQueue) by other threads, which  *)
(* also look at CurrentState() without any lock.                           *)
(***************************************************************************)
EXTENDS Integers, Sequences, FiniteSets

CONSTANTS Senders,   \* the threads that call Take()
          Worker,    \* the thread in Run()
          Owner,     \* the thread that makes the object and the domain
          kState1, kState2, Go1, Go2,
          Null, kInTransition, kNone, kDeferEvent,
          MaxEvents  \* bound of the model: events sent in a behaviour

ASSUME ThreadsAssumption ==
    /\ IsFiniteSet(Senders)
    /\ Worker # Owner /\ {Worker, Owner} \cap Senders = {}
ASSUME NamesAssumption ==
    /\ kState1 # kState2 /\ Go1 # Go2
    /\ {kState1, kState2} \cap {Null, kInTransition, kNone, kDeferEvent} = {}
    /\ Null \notin {Go1, Go2, kInTransition, kNone, kDeferEvent}
    /\ kNone # kDeferEvent
ASSUME MaxEventsAssumption == MaxEvents \in Nat

VARIABLES current, working, history, pc, event, s, top, target, path, entered, lastChild,
          queue, sem, op,
          wpc,   \* the worker: "dequeue", "react" or "exited"
          opc,   \* the owner: "construct", "start", "up" or "stopping"
          sent,  \* the events sent, in the order of the queue
          done   \* how many of them Dispatch() has returned from

machineVars == <<current, working, history, pc, event, s, top, target, path, entered, lastChild>>
queueVars == <<queue, sem, op>>
vars == <<machineVars, queueVars, wpc, opc, sent, done>>

-----------------------------------------------------------------------------
(* Fsm.cxx.                                                                *)

State1Handler(e) == IF e = Go2 THEN kState2 ELSE kNone

SomeGuardFunction == TRUE

Mutant_State2Handler(e) == kNone   \* Go1 is not handled

State2Handler(e) ==
    IF e = Go1
    THEN IF SomeGuardFunction THEN kState1 ELSE kNone
    ELSE Null

Handlers ==
    [c \in {kState1, kState2} \X {Go1, Go2} |->
        {IF c[1] = kState1 THEN State1Handler(c[2]) ELSE State2Handler(c[2])}]

States == {kState1, kState2}
NoParent == [x \in States |-> Null]

fsm == INSTANCE Statemachine WITH
           Parent <- NoParent, Initial <- NoParent, HistoryStates <- {},
           Up <- [x \in States |-> {x}], Events <- {Go1, Go2},
           Handler <- Handlers, StartStates <- {kState1}

EndEntry == Null  \* the entry that ends Run(); one object, so the others are events

Q == INSTANCE EventQueue WITH
         Threads <- Senders \cup {Worker, Owner}, Entries <- {Go1, Go2, EndEntry},
         MaxLen <- MaxEvents + 1, SemMax <- MaxEvents + 1

-----------------------------------------------------------------------------
Init ==
    /\ fsm!Init
    /\ Q!Init
    /\ wpc = "dequeue" /\ opc = "construct"
    /\ sent = <<>> /\ done = 0

(* The constructor of FsmImpl: it starts the machine in the owner's thread.*)
Construct ==
    /\ opc = "construct"
    /\ fsm!Start(kState1)
    /\ opc' = "start"
    /\ UNCHANGED <<queueVars, wpc, sent, done>>

(* The rest of Start(), until the object is registered with the domain.    *)
StartStep ==
    /\ opc = "start"
    /\ IF pc # "idle" THEN fsm!Running /\ UNCHANGED opc
                      ELSE opc' = "up" /\ UNCHANGED machineVars
    /\ UNCHANGED <<queueVars, wpc, sent, done>>

Take(t, e) ==
    /\ opc = "up"
    /\ Len(sent) < MaxEvents
    /\ Q!EnqueueBack(t, e)
    /\ sent' = Append(sent, e)
    /\ UNCHANGED <<machineVars, wpc, opc, done>>

Release(t) ==
    /\ Q!Release(t)
    /\ UNCHANGED <<machineVars, wpc, opc, sent, done>>

(* The domain's destructor, when no more events are sent.                  *)
Stop ==
    /\ opc = "up"
    /\ Q!EnqueueBack(Owner, EndEntry)
    /\ opc' = "stopping"
    /\ UNCHANGED <<machineVars, wpc, sent, done>>

Dequeues ==
    /\ wpc = "dequeue"
    /\ Q!CallDequeue(Worker) \/ Q!Acquire(Worker)
    /\ UNCHANGED <<machineVars, wpc, opc, sent, done>>

(* Run() calls Dispatch(), which calls React().                            *)
Dispatch ==
    /\ Q!Dequeue(Worker)
    /\ IF Head(queue) = EndEntry
       THEN wpc' = "exited" /\ UNCHANGED machineVars
       ELSE wpc' = "react" /\ fsm!React(Head(queue))
    /\ UNCHANGED <<opc, sent, done>>

ReactStep ==
    /\ wpc = "react"
    /\ pc # "idle" /\ fsm!Running
    /\ UNCHANGED <<queueVars, wpc, opc, sent, done>>

DispatchReturns ==
    /\ wpc = "react" /\ pc = "idle"
    /\ wpc' = "dequeue"
    /\ done' = done + 1
    /\ UNCHANGED <<machineVars, queueVars, opc, sent>>

WorkerNext == Dequeues \/ Dispatch \/ ReactStep \/ DispatchReturns \/ Release(Worker)

Next ==
    \/ Construct \/ StartStep \/ Stop \/ Release(Owner)
    \/ \E t \in Senders : (\E e \in {Go1, Go2} : Take(t, e)) \/ Release(t)
    \/ WorkerNext

(* The worker runs, and a thread inside Take() or Stop() goes on.          *)
Spec ==
    /\ Init /\ [][Next]_vars
    /\ WF_vars(WorkerNext)
    /\ \A t \in Senders \cup {Owner} : WF_vars(Release(t))

-----------------------------------------------------------------------------
(* Read in one step, although the code's pointer is not atomic.            *)
CurrentState == current

Toggle(x, e) ==
    CASE x = kState1 /\ e = Go2 -> kState2
      [] x = kState2 /\ e = Go1 -> kState1
      [] OTHER -> x

(* The states after the first n events sent, in the order of the queue.    *)
StateAfter ==
    CHOOSE after \in [0..Len(sent) -> States] :
        /\ after[0] = kState1
        /\ \A n \in 1..Len(sent) : after[n] = Toggle(after[n - 1], sent[n])

(* What another thread sees in CurrentState() at any instant is the state  *)
(* after the events dispatched so far, of the one under way the state      *)
(* after it, or kInTransition in between: never a state that the events    *)
(* sent, in the order of the queue, do not lead through.                   *)
CurrentStateIsRecent ==
    opc \in {"up", "stopping"} =>
        \/ CurrentState = StateAfter[done]
        \/ wpc = "react" /\ CurrentState \in {kInTransition, StateAfter[done + 1]}

(* The object settles: of each event sent, and all those before it, the    *)
(* machine takes account, as the test expects after its sleep.             *)
Settles ==
    \A n \in 1..MaxEvents :
        (Len(sent) >= n) ~> (done >= n \/ wpc = "exited")
=============================================================================
