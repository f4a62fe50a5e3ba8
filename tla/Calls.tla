-------------------------------- MODULE Calls --------------------------------
(***************************************************************************)
(* A call of the code that does one thing after another, on one state h.     *)
(***************************************************************************)

\* Step applied to the value of h, which is computed once.
then(h, Step(_)) == CHOOSE r \in {Step(x) : x \in {h}} : TRUE
=============================================================================
