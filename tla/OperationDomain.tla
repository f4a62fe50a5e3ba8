--------------------------- MODULE OperationDomain ---------------------------
(***************************************************************************)
(* What the gate promises about one effect domain.  At most one operation   *)
(* holds the domain.  Its result is delivered at most once, never after its *)
(* authority was revoked, and the next operation is admitted only when the  *)
(* one before it has been released.  An operation whose outcome is          *)
(* contradictory blocks the domain for good, also after its release.        *)
(***************************************************************************)
EXTENDS Integers

VARIABLES
  owner,     \* the last operation that was admitted, 0 before the first
  state,     \* "free", "held" or "blocked"
  revoked,   \* the authority of the owner was revoked
  delivered  \* the result of the owner was delivered

domain == <<owner, state, revoked, delivered>>

Init == owner = 0 /\ state = "free" /\ revoked = FALSE /\ delivered = FALSE

Admit ==
  /\ state = "free"
  /\ owner' = owner + 1 /\ state' = "held"
  /\ revoked' = FALSE /\ delivered' = FALSE

Revoke ==
  /\ owner # 0 /\ ~revoked
  /\ revoked' = TRUE
  /\ UNCHANGED <<owner, state, delivered>>

Deliver ==
  /\ state = "held" /\ ~revoked /\ ~delivered
  /\ delivered' = TRUE
  /\ UNCHANGED <<owner, state, revoked>>

\* The step that finds the operation closed may also be the one that revokes it,
\* or the one that delivers its result.
Release ==
  /\ state = "held" /\ state' = "free"
  /\ revoked' \in BOOLEAN /\ delivered' \in BOOLEAN
  /\ revoked => revoked'
  /\ delivered => delivered'
  /\ delivered' => delivered \/ ~revoked'
  /\ UNCHANGED owner

Block ==
  /\ owner # 0 /\ state # "blocked" /\ state' = "blocked"
  /\ revoked => revoked'
  /\ revoked' \in BOOLEAN
  /\ UNCHANGED <<owner, delivered>>

Next == Admit \/ Revoke \/ Deliver \/ Release \/ Block

Spec == Init /\ [][Next]_domain
=============================================================================
