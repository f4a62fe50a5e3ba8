----------------------------- MODULE MCRecovery -----------------------------
(***************************************************************************)
(* An instance of RecoverySession.                                          *)
(***************************************************************************)
EXTENDS RecoverySession, TLC

MCBinding == [provider |-> "recovery-owner", generation |-> 1]
=============================================================================
