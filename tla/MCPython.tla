------------------------------ MODULE MCPython ------------------------------
(***************************************************************************)
(* Instances of PythonHost.                                                 *)
(***************************************************************************)
EXTENDS PythonHost

MCBinding == [provider |-> "worker", generation |-> 1]

MCSteps == [policy |-> 3, hold |-> 1]
=============================================================================
