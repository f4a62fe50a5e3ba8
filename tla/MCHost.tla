------------------------------- MODULE MCHost -------------------------------
(***************************************************************************)
(* Instances of SampleHost.                                                 *)
(***************************************************************************)
EXTENDS SampleHost, TLC

MCBinding == [provider |-> "p1", generation |-> 1]
=============================================================================
