----------------------------- MODULE MCDeferral -----------------------------
(***************************************************************************)
(* The traffic light of test/Statemachine_unittest.cxx in an active object:*)
(* its state Off defers two events; its exit action, and the entry action  *)
(* of On, recall them.                                                     *)
(***************************************************************************)
EXTENDS Deferral, MCStatemachine

OnlyOff == {Off}

(* The traffic light meets the hypotheses of the theorems.                 *)
ASSUME LightLevelAssumption == LevelTransitions
ASSUME LightDeferralAssumption == RecallsOnExit /\ DefersFirmly
=============================================================================
