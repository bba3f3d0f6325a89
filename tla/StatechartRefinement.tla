------------------------ MODULE StatechartRefinement ------------------------
(***************************************************************************)
(* Statemachine implements Statechart.  Two variables record where the     *)
(* machine last rested: they change in the step that ends Start() or       *)
(* React(), and that step is the step of the abstract machine.             *)
(***************************************************************************)
EXTENDS Statemachine

VARIABLES restState,    \* current when a call last returned, or Null
          restHistory   \* history at that time

Recorded == <<restState, restHistory>>

RecordedInit ==
    /\ Init
    /\ restState = current
    /\ restHistory = history

(* A call returns: the resting state is recorded with the history.         *)
Record ==
    IF pc # "idle" /\ pc' = "idle"
    THEN restState' = current' /\ restHistory' = history'
    ELSE UNCHANGED Recorded

RecordedNext ==
    \/ (\E x \in StartStates : Start(x)) /\ Record
    \/ (\E e \in Events : React(e)) /\ Record
    \/ Running /\ Record

(* As Statemachine!Spec: the user's functions return.                      *)
RecordedSpec ==
    /\ RecordedInit
    /\ [][RecordedNext]_<<vars, Recorded>>
    /\ WF_<<vars, Recorded>>(Running /\ Record)

Chart == INSTANCE Statechart WITH state <- restState, history <- restHistory

(* Whatever exits, actions and entries run in between and however the      *)
(* history of several levels changes meanwhile, a call of React() ends in  *)
(* the state the transition leads to from where the last call ended.       *)
ImplementsStatechart == Chart!Spec
=============================================================================
