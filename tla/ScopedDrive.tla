----------------------------- MODULE ScopedDrive -----------------------------
(***************************************************************************)
(* The scoped differential drive of native_drive/scoped_diff_drive.cpp: who *)
(* may move the wheels, and when they have stopped.  Its handlers run on    *)
(* the executor threads and OnUpdate on the physics thread; all hold lock_. *)
(* OnUpdate is split where it reads the clock, once at its start and once   *)
(* before each wheel is written, because time passes in between; handlers   *)
(* wait until writing is 0.  Requests come from a network that may delay,   *)
(* repeat and reorder them, so a handler takes any request at any time.     *)
(*                                                                         *)
(* A speed is zero or not, with the generations whose commands went into    *)
(* it.  A twist is zero, moving or not finite.                              *)
(***************************************************************************)
EXTENDS MotionPermission

CONSTANTS
  Modes,        \* the modes the flags of the SDF may select: "one_shot",
                \* "generation" or "permission"
  Wheels,       \* 2 * num_wheel_pairs_, numbered in the order of the writes
  Ramped,       \* max_wheel_accel_ # 0
  ClockRegresses \* the monotonic clock may step back

ASSUME DriveAssumption ==
  /\ Modes \subseteq {"one_shot", "generation", "permission"}
  /\ Wheels \in Nat \ {0}
  /\ Ramped \in BOOLEAN /\ ClockRegresses \in BOOLEAN

VARIABLES
  mode,         \* generation_mode_ and owner_permission_mode_, fixed in Load
  permission,   \* permission_
  sealed,       \* sealed_
  applied,      \* applied_: zero was written to every wheel since the seal
  current,      \* scope_, generation_ and operation_id_
  target,       \* target_x_ and target_rot_
  instr,        \* wheel_speed_instr_
  wheels,       \* the velocity parameter of each joint
  writing,      \* the wheel OnUpdate writes next; 0 when lock_ is free
  acknowledged, \* the generations whose motion_scope_applied was published
  now           \* the clock

vars == <<mode, permission, sealed, applied, current, target, instr, wheels,
          writing, acknowledged, now>>

Wheel == 1..Wheels
Speed == [moving : BOOLEAN, from : SUBSET Generation]
Zero == [moving |-> FALSE, from |-> {}]
Still == [w \in Wheel |-> Zero]
Twist == {"zero", "moving", "not_finite"}

command(twist) ==
  IF twist = "zero" THEN Zero
  ELSE [moving |-> TRUE, from |-> {current.generation}]

Init ==
  /\ mode \in Modes
  /\ permission = initial_permission
  /\ sealed = (mode # "one_shot") /\ applied = FALSE
  /\ current = NoIdentity
  /\ target = Zero /\ instr = Still /\ wheels = Still
  /\ writing = 0 /\ acknowledged = {} /\ now = 0

-----------------------------------------------------------------------------
(* The clock *)

Tick ==
  /\ now < LastStamp
  /\ now' = now + 1
  /\ UNCHANGED <<mode, permission, sealed, applied, current, target, instr,
                 wheels, writing, acknowledged>>

Regress ==
  /\ ClockRegresses /\ now > 0
  /\ now' = now - 1
  /\ UNCHANGED <<mode, permission, sealed, applied, current, target, instr,
                 wheels, writing, acknowledged>>

-----------------------------------------------------------------------------
(* One-shot and generation mode *)

OnCmdVel(twist) ==
  /\ writing = 0 /\ mode = "one_shot" /\ ~sealed
  /\ target' = command(twist)
  /\ UNCHANGED <<mode, permission, sealed, applied, current, instr, wheels,
                 writing, acknowledged, now>>

CloseScope(scope) ==
  /\ writing = 0 /\ mode = "one_shot" /\ ~sealed /\ scope \in Scope
  /\ current' = [current EXCEPT !.scope = scope]
  /\ sealed' = TRUE /\ target' = Zero
  /\ UNCHANGED <<mode, permission, applied, instr, wheels, writing,
                 acknowledged, now>>

OpenScope(scope, expected) ==
  /\ writing = 0 /\ mode = "generation"
  /\ expected # LastGeneration /\ scope \in Scope
  /\ current.generation = expected /\ sealed /\ applied
  /\ current' = [current EXCEPT !.scope = scope, !.generation = @ + 1]
  /\ target' = Zero /\ applied' = FALSE /\ sealed' = FALSE
  /\ UNCHANGED <<mode, permission, instr, wheels, writing, acknowledged, now>>

CloseGeneration(scope, generation) ==
  /\ writing = 0 /\ mode = "generation" /\ ~sealed
  /\ current.generation # 0
  /\ scope = current.scope /\ generation = current.generation
  /\ sealed' = TRUE /\ applied' = FALSE /\ target' = Zero
  /\ UNCHANGED <<mode, permission, current, instr, wheels, writing,
                 acknowledged, now>>

\* Mutant: a command of a generation that was closed is taken.
MutantClosedCommand(scope, generation, twist) ==
  /\ writing = 0 /\ mode = "generation"
  /\ current.generation # 0
  /\ scope = current.scope /\ generation = current.generation
  /\ twist # "not_finite"
  /\ target' = command(twist)
  /\ UNCHANGED <<mode, permission, sealed, applied, current, instr, wheels,
                 writing, acknowledged, now>>

OnScopedCmd(scope, generation, twist) ==
  /\ writing = 0 /\ mode = "generation" /\ ~sealed
  /\ current.generation # 0
  /\ scope = current.scope /\ generation = current.generation
  /\ twist # "not_finite"
  /\ target' = command(twist)
  /\ UNCHANGED <<mode, permission, sealed, applied, current, instr, wheels,
                 writing, acknowledged, now>>

-----------------------------------------------------------------------------
(* Permission mode *)

seal ==
  /\ sealed' = TRUE /\ applied' = FALSE
  /\ target' = Zero /\ instr' = Still

sync_permission(p) ==
  IF p.state = "fault" /\ ~sealed THEN seal
  ELSE UNCHANGED <<sealed, applied, target, instr>>

\* expected_generation + 1 on uint64_t
following(generation) == (generation + 1) % (LastGeneration + 1)

open_permit(scope, expected, operation_id, issued) ==
  LET identity == [scope |-> scope, generation |-> following(expected),
                   operation_id |-> operation_id]
      p == observe_time(permission, now)
      accepted == \/ opens(p, identity, expected, issued, now, applied)
                  \/ retries_open(p, identity, expected, issued, now)
  IN  /\ writing = 0 /\ mode = "permission"
      /\ permission' = open(permission, identity, expected, issued, now, applied)
      /\ IF accepted /\ sealed
           THEN /\ current' = identity
                /\ target' = Zero /\ applied' = FALSE /\ sealed' = FALSE
                /\ UNCHANGED instr
           ELSE sync_permission(permission') /\ UNCHANGED current
      /\ UNCHANGED <<mode, wheels, writing, acknowledged, now>>

renew_permit(identity, issued) ==
  /\ writing = 0 /\ mode = "permission"
  /\ permission' = renew(permission, identity, issued, now)
  /\ sync_permission(permission')
  /\ UNCHANGED <<mode, current, wheels, writing, acknowledged, now>>

close_permit(identity) ==
  /\ writing = 0 /\ mode = "permission"
  /\ permission' = close(permission, identity, now)
  /\ IF closes(permission', identity) /\ ~sealed THEN seal
     ELSE sync_permission(permission')
  /\ UNCHANGED <<mode, current, wheels, writing, acknowledged, now>>

permitted_command(identity, twist) ==
  LET p == observe_time(permission, now)
      taken == can_consume(p, identity) /\ ~sealed /\ twist # "not_finite"
  IN  /\ writing = 0 /\ mode = "permission"
      /\ permission' = p
      /\ IF taken
           THEN target' = command(twist) /\ UNCHANGED <<sealed, applied, instr>>
           ELSE sync_permission(p)
      /\ UNCHANGED <<mode, current, wheels, writing, acknowledged, now>>

-----------------------------------------------------------------------------
(* OnUpdate *)

all_accepted(failed) == failed = {}

\* SetParam fails on the wheels in failed; sync_permission(p) came before.
apply_zero(p, failed) ==
  LET faulted == p.state = "fault" /\ ~sealed
      before == applied /\ ~faulted
  IN  /\ sealed' = (sealed \/ faulted)
      /\ target' = IF faulted THEN Zero ELSE target
      /\ wheels' = [w \in Wheel |-> IF w \in failed THEN wheels[w] ELSE Zero]
      /\ instr' = Still
      /\ applied' = (before \/ all_accepted(failed))
      /\ acknowledged' =
           IF /\ all_accepted(failed) /\ ~before
              /\ ~(mode # "one_shot" /\ current.generation = 0)
             THEN acknowledged \cup {current.generation}
             ELSE acknowledged
      /\ writing' = 0

\* Mutant: an update does not read the clock.
MutantStalePermission == permission

\* The permission as it stands once the clock has been read.
checked_permission ==
  IF mode = "permission" THEN observe_time(permission, now) ELSE permission

\* Mutant: a sealed drive is not updated any more.
MutantSkipSealed(failed) ==
  /\ writing = 0 /\ ~sealed
  /\ permission' = checked_permission
  /\ IF permission'.state = "fault"
       THEN apply_zero(permission', failed)
       ELSE /\ writing' = 1
            /\ UNCHANGED <<sealed, applied, target, instr, wheels, acknowledged>>
  /\ UNCHANGED <<mode, current, now>>

BeginUpdate(failed) ==
  /\ writing = 0
  /\ permission' = checked_permission
  /\ IF sealed \/ permission'.state = "fault"
       THEN apply_zero(permission', failed)
       ELSE /\ writing' = 1
            /\ UNCHANGED <<sealed, applied, target, instr, wheels, acknowledged>>
  /\ UNCHANGED <<mode, current, now>>

\* Mutant: the permission is checked at the start of the update only.
MutantUnchecked == TRUE

is_write_permitted ==
  mode = "permission" => can_consume(checked_permission, current)

\* The desired speed is written directly, or the ramp moves the last instruction
\* towards it from the measured speed, which may leave any value.  A wheel that
\* refuses the speed keeps the old one.
write_speed(w) ==
  \E ramp \in {FALSE, Ramped} :
    LET from == target.from \cup (IF ramp THEN instr[w].from ELSE {})
        speeds == {Zero} \cup (IF ramp \/ target.moving
                                 THEN {[moving |-> TRUE, from |-> from]} ELSE {})
    IN  \E speed \in speeds :
          /\ wheels' \in {wheels, [wheels EXCEPT ![w] = speed]}
          /\ instr' = IF ramp THEN [instr EXCEPT ![w] = speed] ELSE instr

WriteWheel(failed) ==
  /\ writing # 0
  /\ permission' = checked_permission
  /\ IF is_write_permitted
       THEN /\ write_speed(writing)
            /\ writing' = IF writing = Wheels THEN 0 ELSE writing + 1
            /\ UNCHANGED <<sealed, applied, target, acknowledged>>
       ELSE apply_zero(permission', failed)
  /\ UNCHANGED <<mode, current, now>>

\* ScopedDiffDrive::Reset, on a reset of the simulated world
Reset ==
  /\ writing = 0
  /\ target' = Zero
  /\ UNCHANGED <<mode, permission, sealed, applied, current, instr, wheels,
                 writing, acknowledged, now>>

-----------------------------------------------------------------------------
Command ==
  \/ \E twist \in Twist : OnCmdVel(twist)
  \/ \E scope \in Scope : CloseScope(scope)
  \/ \E scope \in Scope, n \in Generation : OpenScope(scope, n)
  \/ \E scope \in Scope, n \in Generation : CloseGeneration(scope, n)
  \/ \E scope \in Scope, n \in Generation, twist \in Twist :
       OnScopedCmd(scope, n, twist)

Permit ==
  \/ \E scope \in Scope \cup {NoScope}, n \in Generation,
        op \in 0..LastOperation, t \in Stamp : open_permit(scope, n, op, t)
  \/ \E id \in MotionPermitIdentity, t \in Stamp : renew_permit(id, t)
  \/ \E id \in MotionPermitIdentity : close_permit(id)
  \/ \E id \in MotionPermitIdentity, twist \in Twist :
       permitted_command(id, twist)

Update == \E failed \in SUBSET Wheel : BeginUpdate(failed) \/ WriteWheel(failed)

Next == Tick \/ Regress \/ Command \/ Permit \/ Update \/ Reset

Spec == Init /\ [][Next]_vars

\* The physics thread keeps updating, an update that has started finishes, and a
\* wheel does not refuse zero for ever.
Fairness ==
  /\ SF_vars(BeginUpdate({}))
  /\ WF_vars(\E failed \in SUBSET Wheel : WriteWheel(failed))

FairSpec == Spec /\ Fairness

-----------------------------------------------------------------------------
(* Properties *)

TypeOK ==
  /\ mode \in Modes
  /\ permission \in Permission
  /\ sealed \in BOOLEAN /\ applied \in BOOLEAN
  /\ current \in MotionPermitIdentity
  /\ target \in Speed
  /\ instr \in [Wheel -> Speed] /\ wheels \in [Wheel -> Speed]
  /\ writing \in 0..Wheels
  /\ acknowledged \subseteq Generation
  /\ now \in Stamp

\* The permission and the drive, which keep their own copies of the phase and of
\* the identity, agree at every instruction that holds the lock: the drive is
\* open exactly while the permission is active, and for the same identity.
PermissionAgrees ==
  mode = "permission" =>
    /\ permission.state = "active" <=> ~sealed
    /\ permission.identity = current

\* applied_ is reported only for wheels that really stand: every joint holds a
\* zero target, nothing is cached that could move it, and the drive is sealed.
AppliedIsStopped ==
  applied => sealed /\ wheels = Still /\ instr = Still /\ target = Zero

\* Commands never cross generations: whatever a joint, the ramp or the target
\* still holds comes from the generation that is current.
OnlyCurrentCommands ==
  \A s \in {target} \cup {instr[w] : w \in Wheel} \cup {wheels[w] : w \in Wheel} :
    s.from \subseteq {current.generation}

\* Once motion_scope_applied was published for a generation, that generation is
\* over: it is not open and no speed that stems from it is left anywhere.
AcknowledgedIsOver ==
  \A g \in acknowledged :
    /\ g <= current.generation
    /\ g = current.generation => sealed
    /\ \A w \in Wheel : g \notin wheels[w].from \cup instr[w].from \cup target.from

\* A wheel that the step sets in motion.
StartsMotion == \E w \in Wheel : wheels'[w].moving /\ wheels'[w] # wheels[w]

\* A new generation begins at rest, one above the last, with another scope.
GenerationsBeginAtRest ==
  [][current'.generation # current.generation =>
       /\ wheels = Still
       /\ current'.generation = current.generation + 1
       /\ ~sealed' /\ target' = Zero]_vars

\* A permission that has reached its deadline is over even before the drive has
\* noticed: no renewal, retry or command extends it or moves a wheel.
LapseIsFinal ==
  [][permission.state = "active" /\ permission.deadline <= now =>
       permission'.deadline = permission.deadline /\ ~StartsMotion]_vars

\* The fault latch holds for good: nothing opens the drive or moves a wheel.
FaultIsFinal ==
  [][permission.state = "fault" =>
       permission'.state = "fault" /\ sealed' /\ ~StartsMotion]_vars

\* A sealed drive comes to rest, although a wheel may refuse zero meanwhile.
SealedComesToRest == sealed ~> applied

\* A permission its owner stops renewing brings the wheels to rest without any
\* further message, unless the clock steps back before the drive has looked.
LapseComesToRest ==
  (permission.state = "active" /\ permission.deadline <= now) ~>
    (applied \/ now < permission.deadline)
=============================================================================
