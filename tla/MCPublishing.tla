---------------------------- MODULE MCPublishing ----------------------------
(* Instances of Publishing for TLC.  Operations are interchangeable, and so *)
(* are instances: no definition tells two of them apart.                    *)
EXTENDS Publishing, TLC

Symmetry == Permutations(Operations) \cup Permutations(Instances)

(* Bounds the run to one trouble: an edit, a failing call or a crash.      *)
OneTrouble == bounds.edits + bounds.faults + bounds.crashes <= 1
=============================================================================
