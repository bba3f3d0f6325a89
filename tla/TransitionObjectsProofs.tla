---------------------- MODULE TransitionObjectsProofs ----------------------
(***************************************************************************)
(* Proofs about TransitionObjects, for any targets, actions and lists and  *)
(* any depth of the tree of states.                                        *)
(*                                                                         *)
(* Carried says what each Transition that exists was made from; that its   *)
(* actions_ may point into an object that is gone does not matter until    *)
(* they are run, and Assign has pointed it at the living object by then.   *)
(***************************************************************************)
EXTENDS TransitionObjects, TLAPS

(* A reply and the actions it was asked for, wherever it was built.        *)
AnyReply == Replies("local") \cup Replies("result")

Spans == [at : {"nowhere", "application"} \cup Slots, list : Seq(Actions)]

Transitions == [target : Targets \cup {Null, kInTransition, kNone, kDeferEvent},
                single_action : Actions \cup {Null},
                actions : Spans]

Carried ==
    /\ object \in [Slots -> Transitions]
    /\ pc \in {"handle", "return", "assign", "execute", "done"}
    /\ "transition" \in alive /\ alive \subseteq Slots
    /\ pc = "return" => <<object["local"], asked>> \in AnyReply
    /\ pc = "assign" => <<object["result"], asked>> \in AnyReply
    /\ pc = "execute" =>
          \E r \in AnyReply :
              object["transition"] = Assign("transition", r[1]) /\ asked = r[2]
    /\ pc # "done" => executed = <<>>

IInv == Carried /\ ExecutesAsAsked

-----------------------------------------------------------------------------
(* The replies there are.                                                  *)

(* An own action is the one that was asked for, a list is the list, and    *)
(* who names no actions has none; only a target runs actions.              *)
LEMMA ReplyForm ==
    ASSUME NEW r \in AnyReply
    PROVE  /\ r = <<r[1], r[2]>>
           /\ r[1].target \in Targets \cup {Null, kNone, kDeferEvent}
           /\ r[1].target \notin Targets \cup {kNone} => r[2] = <<>>
           /\ \/ /\ r[1].single_action \in Actions /\ r[2] = <<r[1].single_action>>
                 /\ r[1].actions \in {InSlot("local"), InSlot("result")}
              \/ /\ r[1].single_action = Null /\ r[1].actions = NoSpan /\ r[2] = <<>>
              \/ /\ r[1].single_action = Null /\ r[2] \in Lists
                 /\ r[1].actions = OfList(r[2])
           /\ r[1] = [target |-> r[1].target, single_action |-> r[1].single_action,
                      actions |-> r[1].actions]
<1>1. ASSUME NEW p \in {"local", "result"}, r \in UnhandledEvent \cup DeferEvent
      PROVE  /\ r[2] = <<>> /\ r = <<r[1], r[2]>>
             /\ r[1].target \in {Null, kDeferEvent}
             /\ r[1].single_action = Null /\ r[1].actions = NoSpan
             /\ r[1] = [target |-> r[1].target, single_action |-> r[1].single_action,
                        actions |-> r[1].actions]
  BY <1>1 DEF UnhandledEvent, DeferEvent, Transition, TransitionTarget
<1>2. ASSUME NEW p \in {"local", "result"}, NEW x \in Targets \cup {kNone}, r \in With(p, x)
      PROVE  /\ r = <<r[1], r[2]>> /\ r[1].target = x
             /\ \/ /\ r[1].single_action \in Actions /\ r[2] = <<r[1].single_action>>
                   /\ r[1].actions = InSlot(p)
                \/ /\ r[1].single_action = Null /\ r[1].actions = NoSpan /\ r[2] = <<>>
                \/ /\ r[1].single_action = Null /\ r[2] \in Lists
                   /\ r[1].actions = OfList(r[2])
             /\ r[1] = [target |-> r[1].target, single_action |-> r[1].single_action,
                        actions |-> r[1].actions]
  <2>1. CASE r = <<TransitionTarget(x), <<>>>>
    BY <2>1 DEF Transition, TransitionTarget
  <2>2. CASE r = <<TransitionAction(p, x, Null), <<>>>>
    BY <2>2 DEF TransitionAction
  <2>3. CASE \E a \in Actions : r = <<TransitionAction(p, x, a), <<a>>>>
    BY <2>3, NullAssumption DEF TransitionAction
  <2>4. CASE \E l \in Lists : r = <<TransitionList(x, l), l>>
    <3>1. PICK l \in Lists : r = <<TransitionList(x, l), l>>
      BY <2>4
    <3>2. TransitionList(x, l)
              = [target |-> x, single_action |-> Null, actions |-> OfList(l)]
      <4>1. TransitionTarget(x) = [target |-> x, single_action |-> Null, actions |-> NoSpan]
        BY DEF Transition, TransitionTarget
      <4>2. \A c, span : c = [target |-> x, single_action |-> Null, actions |-> NoSpan] =>
                [c EXCEPT !.actions = span]
                    = [target |-> x, single_action |-> Null, actions |-> span]
        OBVIOUS
      <4> QED
        BY <4>1, <4>2 DEF TransitionList
    <3>3. r[1] = TransitionList(x, l) /\ r[2] = l
      BY <3>1
    <3> QED
      BY <3>1, <3>2, <3>3
  <2> QED
    BY <1>2, <2>1, <2>2, <2>3, <2>4 DEF With
<1>3. PICK p \in {"local", "result"} : r \in Replies(p)
  BY DEF AnyReply
<1>4. CASE r \in UnhandledEvent \cup DeferEvent
  BY <1>1, <1>4
<1>5. CASE \E x \in Targets \cup {kNone} : r \in With(p, x)
  BY <1>2, <1>5
<1> QED
  BY <1>3, <1>4, <1>5 DEF Replies, NoTransition, TransitionTo

(* The Transition React() starts with.                                     *)
LEMMA StartTyped == TransitionTarget(kInTransition) \in Transitions
<1>1. <<>> \in Seq(Actions)
  OBVIOUS
<1>2. NoSpan \in Spans
  BY <1>1 DEF NoSpan, Spans
<1>3. TransitionTarget(kInTransition)
          = [target |-> kInTransition, single_action |-> Null, actions |-> NoSpan]
  BY DEF Transition, TransitionTarget
<1> QED
  BY <1>2, <1>3 DEF Transitions

LEMMA InitIInv == Init => IInv
<1> SUFFICES ASSUME Init PROVE IInv
  OBVIOUS
<1>1. object \in [Slots -> Transitions]
  BY StartTyped DEF Init
<1> QED
  BY <1>1 DEF Init, IInv, Carried, ExecutesAsAsked, Slots

LEMMA ReplyTyped ==
    ASSUME NEW r \in AnyReply
    PROVE  /\ r[1] \in Transitions
           /\ Assign("transition", r[1]) \in Transitions
           /\ Assign("transition", r[1]).target = r[1].target
           /\ Assign("transition", r[1]).single_action = r[1].single_action
           /\ Assign("transition", r[1]).actions
                 = IF r[1].single_action # Null THEN InSlot("transition") ELSE r[1].actions
<1>1. <<>> \in Seq(Actions) /\ \A l \in Lists : l \in Seq(Actions)
  BY ListsAssumption
<1>2. \A p \in Slots : InSlot(p) \in Spans
  BY <1>1 DEF InSlot, Spans
<1>3. NoSpan \in Spans /\ \A l \in Lists : OfList(l) \in Spans
  BY <1>1 DEF NoSpan, OfList, Spans
<1>4. r[1].actions \in Spans /\ InSlot("transition") \in Spans
  BY <1>2, <1>3, ReplyForm DEF Slots
<1>5. r[1].target \in Targets \cup {Null, kInTransition, kNone, kDeferEvent}
      /\ r[1].single_action \in Actions \cup {Null}
  BY ReplyForm
<1>6. r[1] = [target |-> r[1].target, single_action |-> r[1].single_action,
              actions |-> r[1].actions]
  BY ReplyForm
<1>7. Assign("transition", r[1])
          = [target |-> r[1].target, single_action |-> r[1].single_action,
             actions |-> IF r[1].single_action # Null THEN InSlot("transition")
                                                     ELSE r[1].actions]
  <2> DEFINE t == r[1].target  s == r[1].single_action  c == r[1].actions
  <2>1. r[1] = [target |-> t, single_action |-> s, actions |-> c]
    BY <1>6
  <2> HIDE DEF t, s, c
  <2>2. \A x : x = [target |-> t, single_action |-> s, actions |-> c] =>
             Assign("transition", x)
                 = [target |-> t, single_action |-> s,
                    actions |-> IF s # Null THEN InSlot("transition") ELSE c]
    BY DEF Assign
  <2> QED
    BY <2>1, <2>2 DEF t, s, c
<1>8. r[1] \in Transitions
  BY <1>4, <1>5, <1>6 DEF Transitions
<1>9. Assign("transition", r[1]) \in Transitions
  BY <1>4, <1>5, <1>7 DEF Transitions
<1> QED
  BY <1>7, <1>8, <1>9

-----------------------------------------------------------------------------
LEMMA NextIInv == IInv /\ [Next]_vars => IInv'
<1> SUFFICES ASSUME IInv, [Next]_vars PROVE IInv'
  OBVIOUS
<1> USE DEF IInv
<1>1. CASE ReturnFactory
  <2>1. PICK r \in AnyReply : /\ object' = [object EXCEPT !["result"] = r[1]]
                              /\ asked' = r[2]
    BY <1>1 DEF ReturnFactory, AnyReply
  <2>2. <<object'["result"], asked'>> \in AnyReply
    BY <2>1, ReplyForm DEF Carried, Slots
  <2> QED
    BY <1>1, <2>1, <2>2, ReplyTyped DEF ReturnFactory, Carried, ExecutesAsAsked, Slots
<1>2. CASE MakeLocal
  <2>1. PICK r \in AnyReply : /\ object' = [object EXCEPT !["local"] = r[1]]
                              /\ asked' = r[2]
    BY <1>2 DEF MakeLocal, AnyReply
  <2>2. <<object'["local"], asked'>> \in AnyReply
    BY <2>1, ReplyForm DEF Carried, Slots
  <2> QED
    BY <1>2, <2>1, <2>2, ReplyTyped DEF MakeLocal, Carried, ExecutesAsAsked, Slots
<1>3. CASE ReturnLocal
  <2>1. object'["result"] = object["local"]
    BY <1>3 DEF ReturnLocal, Carried, Slots
  <2> QED
    BY <1>3, <2>1 DEF ReturnLocal, Carried, ExecutesAsAsked, Slots
<1>4. CASE AssignTransition
  <2> DEFINE r == <<object["result"], asked>>
  <2>1. r \in AnyReply /\ r[1] = object["result"] /\ r[2] = asked
    BY <1>4 DEF AssignTransition, Carried
  <2> HIDE DEF r
  <2>2. /\ object' = [object EXCEPT !["transition"] = Assign("transition", r[1])]
        /\ object'["transition"] = Assign("transition", r[1])
        /\ asked' = r[2] /\ executed' = <<>> /\ alive' = alive \ {"result"}
    BY <1>4, <2>1 DEF AssignTransition, Carried, Slots
  <2>3. /\ pc' \in {"handle", "execute", "done"}
        /\ pc' # "execute" => r[1].target \in {Null, kDeferEvent}
    BY <1>4, <2>1 DEF AssignTransition
  <2>4. Carried'
    BY <2>1, <2>2, <2>3, ReplyTyped DEF Carried
  <2>5. ExecutesAsAsked'
    BY <2>1, <2>2, <2>3, ReplyTyped, NullAssumption, DeferAssumption DEF ExecutesAsAsked
  <2> QED
    BY <2>4, <2>5
<1>5. CASE ExecuteActions
  <2>1. PICK r \in AnyReply :
            object["transition"] = Assign("transition", r[1]) /\ asked = r[2]
    BY <1>5 DEF ExecuteActions, Carried
  <2>2. executed' = asked
    <3>1. CASE r[1].single_action # Null
      <4>1. /\ object["transition"].actions = InSlot("transition")
            /\ object["transition"].single_action = r[1].single_action
        BY <2>1, <3>1, ReplyTyped
      <4>2. Named(InSlot("transition")) = {<<object["transition"].single_action>>}
        BY DEF Named, InSlot, Carried
      <4> QED
        <5>1. executed' = <<r[1].single_action>>
          BY <1>5, <4>1, <4>2 DEF ExecuteActions
        <5>2. r[2] = <<r[1].single_action>>
          BY <3>1, ReplyForm
        <5> QED
          BY <2>1, <5>1, <5>2
    <3>2. CASE r[1].single_action = Null /\ r[1].actions = NoSpan /\ r[2] = <<>>
      <4>1. object["transition"].actions = NoSpan
        BY <2>1, <3>2, ReplyTyped
      <4>2. Named(NoSpan) = {<<>>}
        BY DEF Named, NoSpan, Carried, Slots
      <4> QED
        BY <1>5, <2>1, <3>2, <4>1, <4>2 DEF ExecuteActions
    <3>3. CASE /\ r[1].single_action = Null /\ r[2] \in Lists
               /\ r[1].actions = OfList(r[2])
      <4>1. object["transition"].actions = OfList(r[2])
        BY <2>1, <3>3, ReplyTyped
      <4>2. Named(OfList(r[2])) = {r[2]}
        BY DEF Named, OfList, Carried, Slots
      <4> QED
        BY <1>5, <2>1, <4>1, <4>2 DEF ExecuteActions
    <3> QED
      BY <3>1, <3>2, <3>3, ReplyForm, NullAssumption
  <2>3. object'["transition"].target \notin Targets \cup {kNone} => asked' = <<>>
    BY <1>5, <2>1, ReplyForm, ReplyTyped DEF ExecuteActions
  <2> QED
    BY <1>5, <2>2, <2>3 DEF ExecuteActions, Carried, ExecutesAsAsked
<1>6. CASE React
  BY <1>6, StartTyped DEF React, Carried, ExecutesAsAsked
<1>7. CASE UNCHANGED vars
  BY <1>7 DEF vars, Carried, ExecutesAsAsked
<1> QED
  BY <1>1, <1>2, <1>3, <1>4, <1>5, <1>6, <1>7 DEF Next

(* React() runs the actions the last handler asked for, through every copy *)
(* and assignment of the Transition that carries them.                     *)
THEOREM ActionsAreThoseAsked == Spec => []ExecutesAsAsked
<1>1. IInv => ExecutesAsAsked
  BY DEF IInv
<1> QED
  BY <1>1, InitIInv, NextIInv, PTL DEF Spec
=============================================================================
