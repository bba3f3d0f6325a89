------------------------ MODULE MCTransitionObjects ------------------------
(***************************************************************************)
(* Two actions, three lists and a state with two ancestors for TLC.        *)
(***************************************************************************)
EXTENDS TransitionObjects

CONSTANTS t1, a1, a2

OneTarget == {t1}
TwoActions == {a1, a2}
SomeLists == {<<>>, <<a2>>, <<a1, a2>>}
=============================================================================
