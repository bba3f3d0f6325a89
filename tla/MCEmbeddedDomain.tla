-------------------------- MODULE MCEmbeddedDomain --------------------------
(***************************************************************************)
(* An instance of EmbeddedDomain for TLC.                                  *)
(***************************************************************************)
EXTENDS EmbeddedDomain

CONSTANTS p1, o1, o2, e1, e2, e3

OneProducer  == {p1}
TwoObjects   == {o1, o2}
ThreeEvents  == {e1, e2, e3}

(* No more order than that of ScopesNest.  The scope of the repository's   *)
(* test, which ends after a wait, destroys object, domain, pool and queue. *)
LastUse ==
    [w \in BOOLEAN |->
        [x \in Parts |->
            CASE x = "queue" -> {"domain"}
              [] x = "objects" /\ ~w -> {"domain"}
              [] x = "pool" /\ ~w -> {"objects", "queue"}
              [] OTHER -> {}]]

(* What the theorems assume of the application holds here.                 *)
ASSUME HypothesesAssumption == EnoughNodes /\ ScopesNest
=============================================================================
