------------------------------ MODULE MCJobStore ------------------------------
(* Small instances of JobStore.  Each run enables the job types whose       *)
(* interplay it is about; the tables of the others stay as they started.    *)
EXTENDS JobStore, TLC

CONSTANTS h1, h2, a, b, s1, s2, r1, r2

(* One host for every instance.                                             *)
OneHost == [i \in Instances |-> h1]
SessionsOnA == [s \in Sessions |-> a]

(* The job types whose interplay is of interest: those that move the        *)
(* lifecycle status and the inspections; chat and what ends it; the         *)
(* configurations and what fences them.                                     *)
LifecycleKinds == ActionTypes \cup InspectionTypes
ChatKinds == { "provision", "stop", "delete", "hermes.inspect", "chat.send" }
ConfigKinds == { "provision", "hermes.update" } \cup ConfigTypes
AllKinds == LifecycleKinds \cup ChatKinds \cup ConfigKinds
LiveKinds == { "provision", "stop", "hermes.inspect", "chat.send" }

(* A behaviour stays within one of the three: chat, with at most four jobs; *)
(* the lifecycle or the configurations, with at most three.                 *)
Used == { j \in JobIds : jobs[j].type # NoOne }
OneMix ==
    LET types == { jobs[j].type : j \in Used }
        noChat == \A s \in Sessions : sessions[s] = "NONE"
    IN \/ types \subseteq ChatKinds /\ reveals = {}
       \/ types \subseteq LifecycleKinds /\ noChat /\ Cardinality(Used) <= 3
       \/ types \subseteq ConfigKinds /\ noChat /\ reveals = {} /\ Cardinality(Used) <= 3
==============================================================================
