----------------------------- MODULE MCCampaigns -----------------------------
(* Campaigns for TLC: one campaign on two instances, or two campaigns that *)
(* share one.                                                               *)
EXTENDS Campaigns

TwoInstances == 1 .. 2
OneCampaignId == { "c1" }
TwoCampaigns == { "c1", "c2" }

(* Bounds the run: one campaign on both instances, or two campaigns,    *)
(* one a retry or both new, share the first one while the second is quiet. *)
OneOrTwoCampaigns ==
    \/ op["c2"] = "NONE"
    \/ /\ \A c \in CampaignIds : target[c][2] = "NONE" /\ ~fresh[c][2]
       /\ request[2] = "none" /\ held[2] = "none"
==============================================================================
