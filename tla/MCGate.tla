------------------------------- MODULE MCGate -------------------------------
(***************************************************************************)
(* What the model-checking instances of GateSystem share: the constants     *)
(* that are records.                                                        *)
(***************************************************************************)
EXTENDS GateSystem, TLC

MCBinding == [provider |-> "p1", generation |-> 1]

Rec(s, t, n) == [source |-> s, observed_at |-> t, sequence |-> n]
=============================================================================
