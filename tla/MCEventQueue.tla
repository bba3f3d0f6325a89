---------------------------- MODULE MCEventQueue ----------------------------
(***************************************************************************)
(* Instances of EventQueue for TLC.                                        *)
(***************************************************************************)
EXTENDS EventQueue, TLC

CONSTANTS t1, t2, t3, e1, e2

MCThreads == {t1, t2, t3}
MCEntries == {e1, e2}

(* Threads and entries are interchangeable; used by safety runs only.      *)
Interchangeable == Permutations(MCThreads) \cup Permutations(MCEntries)
=============================================================================
