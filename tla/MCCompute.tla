------------------------------ MODULE MCCompute ------------------------------
(***************************************************************************)
(* The instance of ComputeChild: another program may write one frame of     *)
(* every kind, in any order and any number of times.                        *)
(***************************************************************************)
EXTENDS ComputeChild, TLC

MCForeignFrames ==
  {[kind |-> k, dropped |-> 0,
    iterations |-> CASE k = "ready" -> 0 [] k = "progress" -> 1 [] OTHER -> Batches]
     : k \in FrameKind}
=============================================================================
