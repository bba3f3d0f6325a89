------------------------ MODULE MCActiveObjectDomain ------------------------
(***************************************************************************)
(* An instance of ActiveObjectDomain for TLC.                              *)
(***************************************************************************)
EXTENDS ActiveObjectDomain

CONSTANTS p1, o1, o2

OneProducer == {p1}
TwoObjects  == {o1, o2}
=============================================================================
