-------------------------- MODULE MotionPermission --------------------------
(***************************************************************************)
(* MotionPermission of native_drive/motion_permission.hpp as operators on   *)
(* its state record p.  Every method reads the clock first, and that alone  *)
(* may close the permission for good.  A scope_id of 32 hexadecimal digits, *)
(* not all zero, is a member of Scope; NoScope stands for every other one.  *)
(***************************************************************************)
EXTENDS Integers

CONSTANTS
  Scope,          \* well-formed scope identities
  NoScope,        \* a malformed one, and the scope_ of a fresh drive
  LastGeneration, \* the largest generation (2^64 - 1)
  LastOperation,  \* the largest operation_id
  LastStamp,      \* the largest time stamp (2^64 - 1)
  Lifetime        \* lifetime_ns

ASSUME PermissionAssumption ==
  /\ NoScope \notin Scope
  /\ LastGeneration \in Nat /\ LastOperation \in Nat
  /\ LastStamp \in Nat /\ Lifetime \in 1..LastStamp

Stamp == 0..LastStamp
Generation == 0..LastGeneration

MotionPermitIdentity ==
  [scope : Scope \cup {NoScope}, generation : Generation,
   operation_id : 0..LastOperation]

NoIdentity == [scope |-> NoScope, generation |-> 0, operation_id |-> 0]

Permission ==
  [state : {"boot", "active", "normal", "fault"},
   identity : MotionPermitIdentity,
   opened : Stamp, issued : Stamp, deadline : Stamp, observed : Stamp]

initial_permission ==
  [state |-> "boot", identity |-> NoIdentity,
   opened |-> 0, issued |-> 0, deadline |-> 0, observed |-> 0]

valid_identity(identity) ==
  /\ identity.generation > 0 /\ identity.operation_id > 0
  /\ identity.scope \in Scope

valid_stamp(issued, now) ==
  /\ 0 < issued /\ issued <= now
  /\ issued <= LastStamp - Lifetime
  /\ now < issued + Lifetime

\* A clock that steps back, or the deadline, latches the fault.
observe_time(p, now) ==
  [p EXCEPT !.observed = now,
            !.state = IF \/ now < p.observed
                         \/ p.state = "active" /\ p.deadline <= now
                        THEN "fault" ELSE @]

\* The next three are evaluated in the state observe_time leaves.
retries_open(p, identity, expected, issued, now) ==
  /\ p.state = "active"
  /\ valid_identity(identity) /\ valid_stamp(issued, now)
  /\ expected # LastGeneration /\ identity.generation = expected + 1
  /\ p.identity = identity /\ issued = p.opened

\* Mutant: the zero of the previous generation need not be applied.
MutantOpenMoving(p, identity, expected, issued, now, prior_zero_applied) ==
  /\ p.state \in {"boot", "normal"}
  /\ valid_identity(identity) /\ valid_stamp(issued, now)
  /\ expected # LastGeneration /\ identity.generation = expected + 1
  /\ p.identity.generation = expected
  /\ identity.scope # p.identity.scope
  /\ identity.operation_id # p.identity.operation_id

opens(p, identity, expected, issued, now, prior_zero_applied) ==
  /\ p.state \in {"boot", "normal"}
  /\ valid_identity(identity) /\ valid_stamp(issued, now)
  /\ expected # LastGeneration /\ identity.generation = expected + 1
  /\ prior_zero_applied
  /\ p.identity.generation = expected
  /\ identity.scope # p.identity.scope
  /\ identity.operation_id # p.identity.operation_id

open(permission, identity, expected, issued, now, prior_zero_applied) ==
  LET p == observe_time(permission, now)
  IN  IF opens(p, identity, expected, issued, now, prior_zero_applied)
        THEN [p EXCEPT !.state = "active", !.identity = identity,
                       !.opened = issued, !.issued = issued,
                       !.deadline = issued + Lifetime]
        ELSE p

renews(p, identity, issued, now) ==
  /\ p.state = "active" /\ p.identity = identity
  /\ p.issued < issued /\ valid_stamp(issued, now)

\* Mutant: a renewal lasts from its receipt.
MutantReceipt(permission, identity, issued, now) ==
  LET p == observe_time(permission, now)
  IN  IF renews(p, identity, issued, now)
        THEN [p EXCEPT !.issued = issued, !.deadline = now + Lifetime]
        ELSE p

renew(permission, identity, issued, now) ==
  LET p == observe_time(permission, now)
  IN  IF renews(p, identity, issued, now)
        THEN [p EXCEPT !.issued = issued, !.deadline = issued + Lifetime]
        ELSE p

can_consume(p, identity) == p.state = "active" /\ p.identity = identity

closes(p, identity) == p.identity = identity /\ p.identity.generation # 0

close(permission, identity, now) ==
  LET p == observe_time(permission, now)
  IN  IF closes(p, identity) /\ p.state = "active"
        THEN [p EXCEPT !.state = "normal"]
        ELSE p
=============================================================================
