--------------------------- MODULE MCStatemachine ---------------------------
(***************************************************************************)
(* Machines for TLC: the traffic light of the repository's test, and a     *)
(* tree with all kinds of states whose handlers may reply anything.        *)
(***************************************************************************)
EXTENDS Statemachine, TLC

CONSTANTS Off, On, Green, Yellow, Red, RedYellow,
          Y1, Y2, Bare, Kid,
          TurnOn, TurnOff, GoGreen, GoYellow, GoRed, SelfTransition, Anything

(* Up as it follows from Parent.                                           *)
UpOf(parent) ==
    LET up[x \in DOMAIN parent] ==
            {x} \cup IF parent[x] = Null THEN {} ELSE up[parent[x]]
    IN up

ParentUp == UpOf(Parent)

-----------------------------------------------------------------------------
(* The traffic light of test/Statemachine_unittest.cxx.                    *)

LightStates == {Off, On, Green, Yellow, Red, RedYellow}
LightParent == [x \in LightStates |-> IF x \in {Off, On} THEN Null ELSE On]
LightInitial == [x \in LightStates |-> IF x = On THEN Green ELSE Null]
OnlyOn == {On}
LightStart == {Off}
LightEvents == {TurnOn, TurnOff, GoGreen, GoYellow, GoRed, SelfTransition}

LightReplies ==
    (<<Off, TurnOn>> :> On) @@ (<<Off, TurnOff>> :> kNone) @@
    (<<Off, GoYellow>> :> kDeferEvent) @@ (<<Off, GoRed>> :> kDeferEvent) @@
    (<<Off, SelfTransition>> :> Off) @@
    (<<On, TurnOff>> :> Off) @@ (<<On, TurnOn>> :> kNone) @@ (<<On, GoRed>> :> Red) @@
    (<<Green, GoYellow>> :> Yellow) @@ (<<Green, GoGreen>> :> kNone) @@
    (<<Green, SelfTransition>> :> Green) @@
    (<<Yellow, GoRed>> :> Red) @@ (<<Yellow, GoYellow>> :> kNone) @@
    (<<Yellow, SelfTransition>> :> Yellow) @@
    (<<Red, GoYellow>> :> RedYellow) @@ (<<Red, GoRed>> :> kNone) @@
    (<<Red, SelfTransition>> :> Red) @@
    (<<RedYellow, GoGreen>> :> Green) @@ (<<RedYellow, GoYellow>> :> kNone) @@
    (<<RedYellow, SelfTransition>> :> RedYellow)

LightHandler ==
    [c \in LightStates \X LightEvents |->
        {IF c \in DOMAIN LightReplies THEN LightReplies[c] ELSE Null}]

(* The same light with a self transition in the handler of the composite   *)
(* state On as well, left to it by its substates.                          *)
SelfOfOnHandler ==
    [c \in LightStates \X LightEvents |->
        IF c = <<On, SelfTransition>> THEN {On}
        ELSE IF c[2] = SelfTransition /\ c[1] # Off THEN {Null}
        ELSE LightHandler[c]]

-----------------------------------------------------------------------------
(* A tree with two levels of history, a composite state without an initial *)
(* substate, and one event to which a handler may give every reply.        *)

TreeStates == {Off, On, Green, Red, Yellow, Y1, Y2, Bare, Kid}
TreeParent == [x \in TreeStates |->
                  CASE x \in {Off, On, Bare} -> Null
                    [] x \in {Green, Red, Yellow} -> On
                    [] x \in {Y1, Y2} -> Yellow
                    [] x = Kid -> Bare]
TreeInitial == [x \in TreeStates |-> CASE x = On -> Green [] x = Yellow -> Y1 [] OTHER -> Null]
OnAndYellow == {On, Yellow}
OnlyYellow == {Yellow}
TreeStart == {Off, On, Y2, Bare}
OneEvent == {Anything}

(* All replies but transitions into or out of composite states around the  *)
(* resting state.                                                          *)
LevelHandler ==
    [c \in TreeStates \X OneEvent |->
        {Null, kNone, kDeferEvent} \cup {x \in TreeStates : LevelReply(c[1], x)}]

(* The same, and a transition of the composite state Bare to its substate. *)
IntoSubstateHandler ==
    [LevelHandler EXCEPT ![Bare, Anything] = @ \cup {Kid}]
=============================================================================
