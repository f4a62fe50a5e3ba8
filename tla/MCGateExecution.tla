-------------------------- MODULE MCGateExecution --------------------------
(***************************************************************************)
(* One operation of one binding, from the constructed gate, whose times and *)
(* sequences the reports may disagree on.  There is one operation identity, *)
(* so a second admission finds the counter wrapped to 0, and one            *)
(* generation, so the binding can be withdrawn but not replaced.            *)
(***************************************************************************)
EXTENDS MCGate

\* Native reports whose times and sequences disagree in both directions;
\* settlement-side reports enough to dispose of the output and settle.
MCOffered ==
  {Rec("native", 0, 1), Rec("native", 1, 2), Rec("native", 0, 3),
   Rec("native", 1, 3),
   Rec("adapter", 0, 1), Rec("adapter", 1, 2), Rec("adapter", 1, 3),
   Rec("sink", 0, 2), Rec("sink", 1, 2), Rec("stop", 1, 1),
   Rec("host", 0, 1), Rec("worker", 0, 1), Rec("catalog", 0, 1)}
=============================================================================
