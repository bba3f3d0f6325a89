----------------------- MODULE MCExampleActiveObject -----------------------
(***************************************************************************)
(* The example with two sending threads for TLC.                           *)
(***************************************************************************)
EXTENDS ExampleActiveObject

CONSTANTS t1, t2

TwoSenders == {t1, t2}
=============================================================================
