-------------------------- MODULE MCOrchestrator --------------------------
(***************************************************************************)
(* Instances of Orchestrator for TLC: the leads belong either to one       *)
(* campaign, or lead b1 to a second one.                                   *)
(***************************************************************************)
EXTENDS Orchestrator, TLC

CONSTANTS c1, c2, b1

\* Every lead in campaign c1.
SingleCampaign == [l \in Leads |-> c1]

\* Lead b1 in campaign c2, the others in c1.
TwoCampaigns == [l \in Leads |-> IF l = b1 THEN c2 ELSE c1]

\* Drives are interchangeable identities; leads of one campaign are rows of one
\* table that no operation tells apart.
DriveSymmetry == Permutations(Drives)
LeadSymmetry  == Permutations(Drives) \cup Permutations(Leads)
=============================================================================
