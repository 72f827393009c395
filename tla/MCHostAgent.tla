------------------------------ MODULE MCHostAgent ------------------------------
(* Small instances of the Host Agent with its queue: one host, one instance. *)
EXTENDS HostAgent, TLC

CONSTANTS w1, w2

TheHost == [i \in Instances |-> "h"]
NoSessionOf == [s \in Sessions |-> "a"]

(* Workers are interchangeable.                                              *)
Loops == Permutations(Workers)
================================================================================
