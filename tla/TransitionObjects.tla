------------------------- MODULE TransitionObjects -------------------------
(***************************************************************************)
(* What a handler asks for travels to React() in a Transition object: by   *)
(* construction in the handler, by return and by assignment, once for each *)
(* state that is asked.  A single action is stored in the object, and its  *)
(* actions_ points into the object itself; a list is the application's.    *)
(***************************************************************************)
EXTENDS Naturals, Sequences

CONSTANTS Targets,   \* the states a transition may name
          Actions,   \* the transition actions
          Lists,     \* the arrays of actions of the application
          Depth,     \* how many states React() may ask: one and its ancestors
          Null,      \* nullptr
          kInTransition, kNone, kDeferEvent

ASSUME DepthAssumption == Depth \in Nat \ {0}
ASSUME NullAssumption == Null \notin Targets \cup Actions \cup {kNone, kDeferEvent}
ASSUME DeferAssumption == kDeferEvent \notin Targets \cup {kNone}
ASSUME ListsAssumption == Lists \subseteq Seq(Actions)

(* Where a Transition lives: a variable of the handler, the object the     *)
(* handler returns, the variable of React().                               *)
Slots == {"local", "result", "transition"}

VARIABLES object,    \* the Transition in each slot
          alive,     \* the slots whose object exists
          pc,        \* where React() is
          level,     \* how many states have been asked
          asked,     \* the actions the last handler named
          executed   \* the actions that were run

vars == <<object, alive, pc, level, asked, executed>>

(* A span of one element in an object's single_action_, or of a list.      *)
NoSpan == [at |-> "nowhere", list |-> <<>>]
InSlot(p) == [at |-> p, list |-> <<>>]
OfList(list) == [at |-> "application", list |-> list]

-----------------------------------------------------------------------------
(* The constructors.                                                       *)

Transition == [target |-> Null, single_action |-> Null, actions |-> NoSpan]

TransitionTarget(x) == [Transition EXCEPT !.target = x]

(* Constructed at address p.  For nullptr the span is empty.               *)
TransitionAction(p, x, a) ==
    [target |-> x, single_action |-> a, actions |-> IF a = Null THEN NoSpan ELSE InSlot(p)]

TransitionList(x, list) == [TransitionTarget(x) EXCEPT !.actions = OfList(list)]

Mutant_Assign(p, rhs) == rhs   \* memberwise, as the compiler would do it

(* operator=, to the object at p: an own action is pointed at anew.        *)
Assign(p, rhs) ==
    [rhs EXCEPT !.actions = IF rhs.single_action # Null THEN InSlot(p) ELSE @]

-----------------------------------------------------------------------------
(* The factories, as a handler calls them to build an object at p: the     *)
(* object with the actions it was asked for.                               *)

UnhandledEvent == {<<Transition, <<>>>>}

DeferEvent == {<<TransitionTarget(kDeferEvent), <<>>>>}

With(p, x) ==
    {<<TransitionTarget(x), <<>>>>, <<TransitionAction(p, x, Null), <<>>>>}
        \cup {<<TransitionAction(p, x, a), <<a>>>> : a \in Actions}
        \cup {<<TransitionList(x, l), l>> : l \in Lists}

NoTransition(p) == With(p, kNone)

TransitionTo(p) == UNION {With(p, x) : x \in Targets}

Replies(p) == UnhandledEvent \cup DeferEvent \cup NoTransition(p) \cup TransitionTo(p)

-----------------------------------------------------------------------------
Init ==
    /\ object = [p \in Slots |-> TransitionTarget(kInTransition)]
    /\ alive = {"transition"}
    /\ pc = "handle"
    /\ level = 0
    /\ asked = <<>>
    /\ executed = <<>>

(* The handler returns what a factory gives it, built in place.            *)
ReturnFactory ==
    /\ pc = "handle"
    /\ \E r \in Replies("result") :
          /\ object' = [object EXCEPT !["result"] = r[1]]
          /\ asked' = r[2]
    /\ alive' = alive \cup {"result"}
    /\ pc' = "assign"
    /\ UNCHANGED <<level, executed>>

(* The handler keeps it in a variable first; the compiler may use the      *)
(* result for it, which is the action above, or not.                       *)
MakeLocal ==
    /\ pc = "handle"
    /\ \E r \in Replies("local") :
          /\ object' = [object EXCEPT !["local"] = r[1]]
          /\ asked' = r[2]
    /\ alive' = alive \cup {"local"}
    /\ pc' = "return"
    /\ UNCHANGED <<level, executed>>

(* The implicit copy constructor copies the members.                       *)
ReturnLocal ==
    /\ pc = "return"
    /\ object' = [object EXCEPT !["result"] = object["local"]]
    /\ alive' = (alive \cup {"result"}) \ {"local"}
    /\ pc' = "assign"
    /\ UNCHANGED <<level, asked, executed>>

(* transition = handler(), the end of the loop's body and its condition.   *)
AssignTransition ==
    /\ pc = "assign"
    /\ object' = [object EXCEPT !["transition"] = Assign("transition", object["result"])]
    /\ alive' = alive \ {"result"}
    /\ level' = level + 1
    /\ pc' = CASE object["result"].target = kDeferEvent -> "done"
               [] object["result"].target = Null -> IF level' < Depth THEN "handle" ELSE "done"
               [] OTHER -> "execute"
    /\ UNCHANGED <<asked, executed>>

(* The actions a span names: what lies in a dead object is anything.       *)
Named(span) ==
    CASE span.at = "application" -> {span.list}
      [] span.at = "nowhere" -> {<<>>}
      [] span.at \in alive -> {<<object[span.at].single_action>>}
      [] OTHER -> {<<a>> : a \in Actions}

ExecuteActions ==
    /\ pc = "execute"
    /\ executed' \in Named(object["transition"].actions)
    /\ pc' = "done"
    /\ UNCHANGED <<object, alive, level, asked>>

(* React() is called again.                                                *)
React ==
    /\ pc = "done"
    /\ object' = [object EXCEPT !["transition"] = TransitionTarget(kInTransition)]
    /\ pc' = "handle"
    /\ level' = 0
    /\ asked' = <<>> /\ executed' = <<>>
    /\ UNCHANGED alive

Next ==
    \/ ReturnFactory \/ MakeLocal \/ ReturnLocal
    \/ AssignTransition \/ ExecuteActions \/ React

Spec == Init /\ [][Next]_vars

-----------------------------------------------------------------------------
(* The actions that are run are those the last handler asked for, however  *)
(* it returned them and whatever the states before it had replied.         *)
ExecutesAsAsked ==
    pc = "done" =>
        executed = IF object["transition"].target \in Targets \cup {kNone} THEN asked ELSE <<>>
=============================================================================
