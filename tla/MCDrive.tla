------------------------------- MODULE MCDrive -------------------------------
(***************************************************************************)
(* Instances of ScopedDrive for TLC.                                        *)
(***************************************************************************)
EXTENDS ScopedDrive

CONSTANTS s1, s2
=============================================================================
