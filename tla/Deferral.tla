------------------------------ MODULE Deferral ------------------------------
(***************************************************************************)
(* A state machine whose handlers defer events and whose entry and exit    *)
(* actions recall them, with the callbacks that Hsm installs: a deferred   *)
(* event is stored, a recall sends all of them to the front of the queue.  *)
(* It composes module Statemachine with the object's events.               *)
(***************************************************************************)
EXTENDS Statemachine, Sequences

CONSTANTS RecallOnEntry,   \* states whose entry action calls RecallEvents()
          RecallOnExit,    \* states whose exit action does
          MaxMessages      \* bound of the model: messages sent in a behaviour

ASSUME RecallAssumption ==
    /\ RecallOnEntry \subseteq States /\ RecallOnExit \subseteq States
    /\ MaxMessages \in Nat

(* A message is an event that was sent, numbered.                          *)
Messages == [event : Events, id : 1..MaxMessages]
NoMessage == [event |-> Null, id |-> 0]

VARIABLES inbox,      \* the object's entries in the queue of its domain
          taken,      \* how many messages were sent
          message,    \* the message React() works on
          deferred,   \* deferred_events_, each with the state that deferred it
          recalling,  \* an action is inside RecallEvents()
          cursor,     \* the deferred events it has still to send
          handled     \* the messages React() did not defer, as they came

messageVars == <<inbox, taken, message, deferred, recalling, cursor, handled>>
allVars == <<vars, messageVars>>

DeferralInit ==
    /\ Init
    /\ inbox = <<>> /\ taken = 0 /\ message = NoMessage
    /\ deferred = <<>>
    /\ recalling = FALSE /\ cursor = 0
    /\ handled = <<>>

-----------------------------------------------------------------------------
(* Take() of another thread, at any instant.                               *)
Send(e) ==
    /\ taken < MaxMessages
    /\ taken' = taken + 1
    /\ inbox' = Append(inbox, [event |-> e, id |-> taken + 1])
    /\ UNCHANGED <<vars, message, deferred, recalling, cursor, handled>>

(* The next entry is dispatched to the object, which calls React().        *)
Dispatch ==
    /\ inbox # <<>>
    /\ ~recalling
    /\ React(Head(inbox).event)
    /\ message' = Head(inbox)
    /\ inbox' = Tail(inbox)
    /\ UNCHANGED <<taken, deferred, recalling, cursor, handled>>

(* on_defer_event_.                                                        *)
StoreDeferred ==
    /\ DeferEvent
    /\ deferred' = Append(deferred, [message |-> message, by |-> s])
    /\ UNCHANGED <<inbox, taken, message, recalling, cursor, handled>>

(* The step runs an entry or exit action that calls RecallEvents().        *)
CallsRecall ==
    \E x \in States :
        \/ x \in RecallOnEntry /\ entered'[x] = entered[x] + 1
        \/ x \in RecallOnExit /\ entered'[x] = entered[x] - 1

(* Start(), at the end of the object's constructor, and what React() does  *)
(* but deferring.                                                          *)
MachineStep ==
    /\ ~recalling
    /\ \/ current = Null /\ \E x \in StartStates : Start(x)
       \/ UnhandledEvent \/ NoTransition
       \/ \E x \in States : TransitionTo(x) \/ Enter(x)
       \/ ExitSelf \/ Exit \/ ExecuteActions \/ EnterInitial \/ Finish
    /\ recalling' = CallsRecall
    /\ cursor' = IF recalling' THEN Len(deferred) ELSE 0
    /\ handled' = IF pc = "handle" /\ pc' # "handle"
                  THEN Append(handled, message)
                  ELSE handled
    /\ UNCHANGED <<inbox, taken, message, deferred>>

-----------------------------------------------------------------------------
Mutant_RecallOne ==   \* iterates forwards
    /\ recalling /\ cursor > 0
    /\ inbox' = <<deferred[Len(deferred) + 1 - cursor].message>> \o inbox
    /\ cursor' = cursor - 1
    /\ UNCHANGED <<vars, taken, message, deferred, recalling, handled>>

(* Hsm's RecallEvents(): TakeHighPrio() of each deferred event, the last   *)
(* one first.                                                              *)
RecallOne ==
    /\ recalling /\ cursor > 0
    /\ inbox' = <<deferred[cursor].message>> \o inbox
    /\ cursor' = cursor - 1
    /\ UNCHANGED <<vars, taken, message, deferred, recalling, handled>>

Mutant_RecallDone ==   \* clear() forgotten
    /\ recalling /\ cursor = 0
    /\ recalling' = FALSE
    /\ UNCHANGED <<vars, inbox, taken, message, deferred, cursor, handled>>

RecallDone ==
    /\ recalling /\ cursor = 0
    /\ deferred' = <<>>
    /\ recalling' = FALSE
    /\ UNCHANGED <<vars, inbox, taken, message, cursor, handled>>

DeferralNext ==
    \/ \E e \in Events : Send(e)
    \/ Dispatch \/ StoreDeferred \/ MachineStep
    \/ RecallOne \/ RecallDone

DeferralSpec == DeferralInit /\ [][DeferralNext]_allVars

-----------------------------------------------------------------------------
Times(sequence, n) == Cardinality({i \in 1..Len(sequence) : sequence[i].id = n})

(* What a recall has already sent is not deferred any more.                *)
StillDeferred ==
    [i \in 1..(IF recalling THEN cursor ELSE Len(deferred)) |-> deferred[i].message]

(* However often a message is deferred and recalled, none is lost and none *)
(* doubled: each is queued, deferred, in the hands of React(), or was      *)
(* handled, once.                                                          *)
EachMessageOnce ==
    \A n \in 1..taken :
        Times(inbox, n) + Times(StillDeferred, n) + Times(handled, n)
            + (IF pc = "handle" /\ message.id = n THEN 1 ELSE 0) = 1

(* Each state that defers an event recalls in its exit action.             *)
RecallsOnExit ==
    \A x \in States, e \in Events :
        kDeferEvent \in Handler[<<x, e>>] => x \in RecallOnExit

(* A state that defers an event always does, and the states within it      *)
(* leave the event to it.                                                  *)
DefersFirmly ==
    \A x \in States, e \in Events :
        kDeferEvent \in Handler[<<x, e>>] =>
            /\ Handler[<<x, e>>] = {kDeferEvent}
            /\ \A y \in States \ {x} : x \in Up[y] => Handler[<<y, e>>] \subseteq {Null}

(* "Defer event until state is exited" (Statemachine.hxx:636), if each     *)
(* state that defers recalls in its exit action, or each state entered     *)
(* next in its entry action: between two calls no event is still deferred  *)
(* by a state that is not active.                                          *)
DeferredUntilExit ==
    (pc = "idle" /\ ~recalling) =>
        \A i \in 1..Len(deferred) : entered[deferred[i].by] = 1

(* Of one kind of event, the handlers take the messages in the order in    *)
(* which they were sent, those that were deferred in between included.     *)
HandledInOrder ==
    \A i, j \in 1..Len(handled) :
        (i < j /\ handled[i].event = handled[j].event) => handled[i].id < handled[j].id
=============================================================================
