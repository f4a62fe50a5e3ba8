---------------------------- MODULE MCNavigation ----------------------------
(***************************************************************************)
(* Instance of NavigationHandoff.                                           *)
(***************************************************************************)
EXTENDS NavigationHandoff, TLC

MCBinding == [provider |-> "p1", generation |-> 1]

MCCases ==
  ({"normal"} \X {"none", "clock", "foreign", "refused", "expired"})
    \cup ({"cancel"} \X {"none", "refused"})
    \cup ({"replace"} \X {"none", "foreign"})
    \cup ({"resume"} \X {"none", "late"})
=============================================================================
