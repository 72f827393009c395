------------------------- MODULE MCRuntimeRemediation -------------------------
(* Small instances of RuntimeRemediation.                                     *)
EXTENDS RuntimeRemediation, TLC

CONSTANTS p1, p2

(* Requests are interchangeable.                                              *)
Requests == Permutations(Handlers)
==============================================================================
