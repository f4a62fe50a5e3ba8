---------------------------- MODULE MCComputeHost ----------------------------
(***************************************************************************)
(* Instances of ComputeHost.                                                *)
(***************************************************************************)
EXTENDS ComputeHost, TLC

MCBinding == [provider |-> "p1", generation |-> 1]

MCRequirement == [profile_id |-> "local", work_units |-> 1]
=============================================================================
