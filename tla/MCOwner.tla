------------------------------- MODULE MCOwner -------------------------------
(***************************************************************************)
(* An instance of PermissionOwner.                                          *)
(***************************************************************************)
EXTENDS PermissionOwner

CONSTANTS s1, s2

MCScopeOf == <<s1, s2>>
=============================================================================
