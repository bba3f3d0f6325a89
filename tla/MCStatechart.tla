---------------------------- MODULE MCStatechart ----------------------------
(***************************************************************************)
(* The machines of MCStatemachine with their resting states recorded.      *)
(***************************************************************************)
EXTENDS MCStatemachine, StatechartRefinement

(* The machines it is used for meet the hypothesis of the theorems.        *)
ASSUME LevelAssumption == LevelTransitions
=============================================================================
