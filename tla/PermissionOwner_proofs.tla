----------------------- MODULE PermissionOwner_proofs -----------------------
(***************************************************************************)
(* The safety of the drive, for every mode, number of wheels, number of     *)
(* generations and lifetime; then that of the permission owner together     *)
(* with it, for every period and largest stamp as well.                     *)
(***************************************************************************)
EXTENDS PermissionOwner, TLAPS

-----------------------------------------------------------------------------
(* The drive: types *)

\* observe_time changes the state only, and only to fault; a lapsed active
\* permission always becomes a fault.
LEMMA ObserveTimeType ==
  ASSUME NEW p \in Permission, NEW t \in Stamp
  PROVE  /\ observe_time(p, t) \in Permission
         /\ observe_time(p, t).identity = p.identity
         /\ observe_time(p, t).deadline = p.deadline
         /\ observe_time(p, t).state \in {p.state, "fault"}
         /\ p.state = "active" /\ p.deadline <= t
              => observe_time(p, t).state = "fault"
  BY DEF observe_time, Permission

\* Zero is a speed, and wheels at rest are well typed.
LEMMA ZeroType == Zero \in Speed /\ Still \in [Wheel -> Speed]
  BY DEF Zero, Still, Speed

\* A twist becomes a speed that comes from the current generation or from none.
LEMMA CommandType ==
  ASSUME NEW twist \in Twist, current \in MotionPermitIdentity
  PROVE  command(twist) \in Speed /\ command(twist).from \subseteq {current.generation}
  BY ZeroType DEF command, Speed, MotionPermitIdentity, Zero

\* A stamp that valid_stamp accepts leaves room for the lifetime: the sum of the
\* two does not overflow.
LEMMA StampType ==
  ASSUME NEW i \in Stamp, NEW t \in Stamp, valid_stamp(i, t)
  PROVE  i + Lifetime \in Stamp
  BY PermissionAssumption DEF valid_stamp, Stamp

\* open keeps the permission well typed.
LEMMA OpenType ==
  ASSUME NEW p \in Permission, NEW id \in MotionPermitIdentity, NEW n \in Generation,
         NEW i \in Stamp, NEW t \in Stamp, NEW z \in BOOLEAN
  PROVE  open(p, id, n, i, t, z) \in Permission
<1> DEFINE q == observe_time(p, t)
<1>1. q \in Permission
  BY ObserveTimeType
<1>2. ASSUME opens(q, id, n, i, t, z)
      PROVE  [q EXCEPT !.state = "active", !.identity = id, !.opened = i,
                       !.issued = i, !.deadline = i + Lifetime] \in Permission
  <2>1. i + Lifetime \in Stamp
    BY <1>2, StampType DEF opens
  <2> HIDE DEF q
  <2> QED BY <1>1, <2>1 DEF Permission
<1> QED BY <1>1, <1>2 DEF open

\* renew keeps the permission well typed.
LEMMA RenewType ==
  ASSUME NEW p \in Permission, NEW id \in MotionPermitIdentity,
         NEW i \in Stamp, NEW t \in Stamp
  PROVE  renew(p, id, i, t) \in Permission
<1> DEFINE q == observe_time(p, t)
<1>1. q \in Permission
  BY ObserveTimeType
<1>2. ASSUME renews(q, id, i, t)
      PROVE  [q EXCEPT !.issued = i, !.deadline = i + Lifetime] \in Permission
  <2>1. i + Lifetime \in Stamp
    BY <1>2, StampType DEF renews
  <2> HIDE DEF q
  <2> QED BY <1>1, <2>1 DEF Permission
<1> QED BY <1>1, <1>2 DEF renew

\* close keeps the permission well typed.
LEMMA CloseType ==
  ASSUME NEW p \in Permission, NEW id \in MotionPermitIdentity, NEW t \in Stamp
  PROVE  close(p, id, t) \in Permission
<1> DEFINE q == observe_time(p, t)
<1>1. q \in Permission
  BY ObserveTimeType
<1>2. [q EXCEPT !.state = "normal"] \in Permission
  <2> HIDE DEF q
  <2> QED BY <1>1 DEF Permission
<1> QED BY <1>1, <1>2 DEF close

-----------------------------------------------------------------------------
(* The inductive invariant *)

\* What the safety properties need besides themselves: a sealed drive holds no
\* target and is not being updated, an acknowledged generation that is still the
\* current one stays applied, and the permission is used in its own mode only.
SealedIsQuiet ==
  /\ sealed => target = Zero /\ writing = 0
  /\ \A g \in acknowledged : g = current.generation => applied
  /\ mode # "permission" => permission.state = "boot"

IInv ==
  /\ TypeOK
  /\ PermissionAgrees
  /\ AppliedIsStopped
  /\ OnlyCurrentCommands
  /\ AcknowledgedIsOver
  /\ SealedIsQuiet

\* The inductive invariant holds when the plugin has been configured.
LEMMA InitIInv == Init => IInv
<1> SUFFICES ASSUME Init PROVE IInv
  OBVIOUS
<1>1. TypeOK
  <2>1. NoIdentity \in MotionPermitIdentity /\ 0 \in Stamp
    BY PermissionAssumption DEF NoIdentity, MotionPermitIdentity, Generation, Stamp
  <2>2. initial_permission \in Permission
    BY <2>1 DEF initial_permission, Permission
  <2>3. sealed \in BOOLEAN /\ applied \in BOOLEAN
    BY Zenon DEF Init
  <2> QED BY <2>1, <2>2, <2>3, ZeroType, DriveAssumption DEF Init, TypeOK
<1>2. PermissionAgrees /\ SealedIsQuiet
  BY DEF Init, PermissionAgrees, SealedIsQuiet, initial_permission
<1>3. AppliedIsStopped /\ AcknowledgedIsOver
  BY DEF Init, AppliedIsStopped, AcknowledgedIsOver
<1>4. OnlyCurrentCommands
  BY DEF Init, OnlyCurrentCommands, Still, Zero
<1> QED BY <1>1, <1>2, <1>3, <1>4 DEF IInv

\* The speeds that exist, one by one.
LEMMA Origins ==
  OnlyCurrentCommands <=>
    /\ target.from \subseteq {current.generation}
    /\ \A w \in Wheel : /\ instr[w].from \subseteq {current.generation}
                        /\ wheels[w].from \subseteq {current.generation}
  BY DEF OnlyCurrentCommands

-----------------------------------------------------------------------------
(* Every step preserves it *)

\* The permission an update works with.
LEMMA Checked ==
  ASSUME IInv
  PROVE  /\ checked_permission \in Permission
         /\ checked_permission.identity = permission.identity
         /\ checked_permission.deadline = permission.deadline
         /\ checked_permission.state \in {permission.state, "fault"}
         /\ mode # "permission" => checked_permission.state = "boot"
  BY ObserveTimeType DEF checked_permission, IInv, TypeOK, SealedIsQuiet

\* apply_zero preserves the invariant, whichever joints refuse the write.
LEMMA ApplyZeroIInv ==
  ASSUME IInv, NEW failed \in SUBSET Wheel,
         permission' = checked_permission,
         sealed \/ permission'.state = "fault",
         apply_zero(permission', failed), UNCHANGED <<mode, current, now>>
  PROVE  IInv'
<1>0. sealed' = TRUE
  BY Zenon DEF apply_zero
<1>1. TypeOK'
  <2>1. permission' \in Permission
    BY Checked
  <2>2. applied' \in BOOLEAN /\ sealed' \in BOOLEAN
    BY Zenon, <1>0 DEF apply_zero
  <2>3. target' \in Speed /\ wheels' \in [Wheel -> Speed] /\ instr' \in [Wheel -> Speed]
    BY ZeroType DEF apply_zero, IInv, TypeOK
  <2>4. acknowledged' \subseteq Generation /\ writing' \in 0..Wheels
    BY DriveAssumption DEF apply_zero, IInv, TypeOK, MotionPermitIdentity
  <2> QED BY <2>1, <2>2, <2>3, <2>4 DEF TypeOK, IInv
<1>2. PermissionAgrees'
  BY <1>0, Checked DEF PermissionAgrees, IInv
<1>3. target' = Zero /\ instr' = Still /\ writing' = 0
  BY DEF apply_zero, IInv, SealedIsQuiet
<1>4. AppliedIsStopped'
  <2>1. ASSUME applied' PROVE wheels' = Still
    <3>1. CASE failed = {}
      BY <3>1 DEF apply_zero, Still
    <3>2. CASE failed # {}
      <4>1. applied /\ sealed
        BY <2>1, <3>2, Zenon DEF apply_zero, all_accepted, IInv, AppliedIsStopped
      <4>2. wheels = Still
        BY <4>1 DEF IInv, AppliedIsStopped
      <4> QED BY <4>2 DEF apply_zero, Still
    <3> QED BY <3>1, <3>2
  <2> QED BY <1>0, <1>3, <2>1 DEF AppliedIsStopped
<1>5. \A w \in Wheel : wheels'[w] \in {wheels[w], Zero}
  BY DEF apply_zero
<1>6. OnlyCurrentCommands'
  <2>1. \A w \in Wheel : wheels[w].from \subseteq {current.generation}
    BY Origins DEF IInv
  <2>2. \A w \in Wheel : wheels'[w].from \subseteq {current.generation}
    BY <1>5, <2>1 DEF Zero
  <2> QED BY <1>3, <2>2 DEF OnlyCurrentCommands, Still, Zero
<1>7. /\ acknowledged' \subseteq acknowledged \cup {current.generation}
      /\ acknowledged' # acknowledged => applied'
  BY DEF apply_zero
<1>8. applied => applied'
  <2>1. applied => sealed
    BY DEF IInv, AppliedIsStopped
  <2> QED BY <2>1, Zenon DEF apply_zero
<1>9. SealedIsQuiet'
  <2>1. \A g \in acknowledged' : g = current.generation => applied'
    BY <1>7, <1>8 DEF IInv, SealedIsQuiet
  <2> QED BY <1>3, <2>1, Checked DEF SealedIsQuiet
<1>10. AcknowledgedIsOver'
  <2> SUFFICES ASSUME NEW g \in acknowledged'
               PROVE  /\ g <= current.generation
                      /\ \A w \in Wheel : g \notin wheels'[w].from
    BY <1>0, <1>3 DEF AcknowledgedIsOver, Still, Zero
  <2>1. CASE g \in acknowledged
    BY <2>1, <1>5 DEF IInv, AcknowledgedIsOver, Zero
  <2>2. CASE g = current.generation
    <3>1. applied'
      BY <2>2, <1>7, <1>9 DEF SealedIsQuiet
    <3> QED BY <2>2, <3>1, <1>4 DEF AppliedIsStopped, Still, Zero, IInv, TypeOK,
                                    MotionPermitIdentity, Generation
  <2> QED BY <1>7, <2>1, <2>2
<1> QED BY <1>1, <1>2, <1>4, <1>6, <1>9, <1>10 DEF IInv

\* Sealing, and leaving everything as it is, together with a permission that is
\* not active afterwards exactly when the drive is sealed.
LEMMA SealIInv ==
  ASSUME IInv, writing = 0, mode = "permission",
         permission' \in Permission, permission'.identity = permission.identity,
         permission'.state # "active", ~sealed, seal,
         UNCHANGED <<mode, current, wheels, writing, acknowledged, now>>
  PROVE  IInv'
<1>1. TypeOK'
  BY ZeroType DEF seal, IInv, TypeOK
<1>2. PermissionAgrees' /\ AppliedIsStopped' /\ SealedIsQuiet'
  BY DEF seal, IInv, PermissionAgrees, AppliedIsStopped, SealedIsQuiet, AcknowledgedIsOver
<1>3. OnlyCurrentCommands'
  BY DEF seal, IInv, OnlyCurrentCommands, Zero, Still
<1>4. AcknowledgedIsOver'
  BY DEF seal, IInv, AcknowledgedIsOver, Zero, Still
<1> QED BY <1>1, <1>2, <1>3, <1>4 DEF IInv

\* A call that only touches the permission, and leaves it active exactly while
\* the drive is open, preserves the invariant.
LEMMA KeepIInv ==
  ASSUME IInv, permission' \in Permission,
         permission'.identity = permission.identity,
         mode = "permission" /\ (permission'.state = "active" <=> ~sealed),
         UNCHANGED <<mode, sealed, applied, current, target, instr, wheels,
                     writing, acknowledged, now>>
  PROVE  IInv'
  BY DEF IInv, TypeOK, PermissionAgrees, AppliedIsStopped, OnlyCurrentCommands,
         AcknowledgedIsOver, SealedIsQuiet

\* A new generation, opened at rest.
LEMMA OpenIInv ==
  ASSUME IInv, sealed, applied, writing = 0,
         current' \in MotionPermitIdentity,
         current'.generation = current.generation + 1,
         target' = Zero, ~applied', applied' \in BOOLEAN, ~sealed', sealed' \in BOOLEAN,
         permission' \in Permission, PermissionAgrees',
         mode # "permission" => permission'.state = "boot",
         UNCHANGED <<mode, instr, wheels, writing, acknowledged, now>>
  PROVE  IInv'
<1>1. TypeOK'
  BY ZeroType DEF IInv, TypeOK
<1>2. wheels = Still /\ instr = Still
  BY DEF IInv, AppliedIsStopped
<1>3. \A g \in acknowledged : g < current'.generation /\ g # current'.generation
  BY DEF IInv, TypeOK, AcknowledgedIsOver, MotionPermitIdentity, Generation
<1>4. OnlyCurrentCommands'
  BY <1>2 DEF OnlyCurrentCommands, Still, Zero
<1>5. AcknowledgedIsOver'
  BY <1>2, <1>3 DEF AcknowledgedIsOver, Still, Zero, IInv, TypeOK,
                      MotionPermitIdentity, Generation
<1>6. AppliedIsStopped' /\ SealedIsQuiet'
  BY <1>3 DEF AppliedIsStopped, SealedIsQuiet
<1> QED BY <1>1, <1>4, <1>5, <1>6 DEF IInv

\* A command of the current generation is taken.
LEMMA TargetIInv ==
  ASSUME IInv, ~sealed, NEW twist \in Twist, target' = command(twist),
         permission' \in Permission, PermissionAgrees',
         mode # "permission" => permission'.state = "boot",
         UNCHANGED <<mode, sealed, applied, current, instr, wheels, writing,
                     acknowledged, now>>
  PROVE  IInv'
<1>0. target' \in Speed /\ target'.from \subseteq {current.generation}
  BY CommandType DEF IInv, TypeOK
<1>1. TypeOK'
  BY <1>0 DEF IInv, TypeOK
<1>2. OnlyCurrentCommands'
  BY <1>0 DEF IInv, OnlyCurrentCommands
<1>3. AppliedIsStopped' /\ SealedIsQuiet'
  BY DEF IInv, AppliedIsStopped, SealedIsQuiet
<1>4. AcknowledgedIsOver'
  BY <1>0 DEF IInv, AcknowledgedIsOver
<1> QED BY <1>1, <1>2, <1>3, <1>4 DEF IInv

\* No step changes the mode the plugin was loaded with.
LEMMA ModeIsFixed == [Next]_vars => mode' = mode
<1>1. Command => mode' = mode
  BY DEF Command, OnCmdVel, CloseScope, OpenScope, CloseGeneration, OnScopedCmd
<1>2. Permit => mode' = mode
  BY DEF Permit, open_permit, renew_permit, close_permit, permitted_command
<1>3. Update => mode' = mode
  BY DEF Update, BeginUpdate, WriteWheel
<1> QED BY <1>1, <1>2, <1>3 DEF Next, Tick, Regress, Reset, vars

\* Every step of the drive preserves the invariant.
LEMMA StepIInv == IInv /\ [Next]_vars => IInv'
<1> SUFFICES ASSUME IInv, [Next]_vars PROVE IInv'
  OBVIOUS
<1> USE DEF IInv
<1>0. /\ permission \in Permission /\ current \in MotionPermitIdentity
      /\ sealed \in BOOLEAN /\ applied \in BOOLEAN
      /\ now \in Stamp
      /\ mode = "permission" =>
           /\ permission.state = "active" <=> ~sealed
           /\ permission.identity = current
      /\ mode # "permission" => permission.state = "boot"
  BY DEF TypeOK, PermissionAgrees, SealedIsQuiet
<1>1. CASE Tick \/ Regress
  <2>1. now' \in Stamp
    BY <1>0, <1>1, PermissionAssumption DEF Tick, Regress, Stamp
  <2> QED BY <1>1, <2>1 DEF Tick, Regress, TypeOK, PermissionAgrees, AppliedIsStopped,
       OnlyCurrentCommands, AcknowledgedIsOver, SealedIsQuiet
<1>2. ASSUME NEW twist \in Twist, OnCmdVel(twist) PROVE IInv'
  BY <1>0, <1>2, TargetIInv DEF OnCmdVel, PermissionAgrees
<1>3. ASSUME NEW scope \in Scope, CloseScope(scope) PROVE IInv'
  <2>1. current' \in MotionPermitIdentity /\ current'.generation = current.generation
    BY <1>0, <1>3 DEF CloseScope, MotionPermitIdentity
  <2>2. TypeOK'
    BY <1>3, <2>1, ZeroType DEF CloseScope, TypeOK
  <2>3. OnlyCurrentCommands' /\ AcknowledgedIsOver'
    BY <1>3, <2>1 DEF CloseScope, OnlyCurrentCommands, AcknowledgedIsOver, Zero
  <2>4. PermissionAgrees' /\ AppliedIsStopped' /\ SealedIsQuiet'
    BY <1>0, <1>3, <2>1 DEF CloseScope, PermissionAgrees, AppliedIsStopped, SealedIsQuiet,
       AcknowledgedIsOver
  <2> QED BY <2>2, <2>3, <2>4
<1>4. ASSUME NEW scope \in Scope, NEW n \in Generation, OpenScope(scope, n) PROVE IInv'
  <2>0. current.generation + 1 \in Generation
    BY <1>4, PermissionAssumption DEF OpenScope, Generation
  <2>1. /\ current' \in MotionPermitIdentity
        /\ current'.generation = current.generation + 1
    BY <1>0, <1>4, <2>0 DEF OpenScope, MotionPermitIdentity
  <2> QED BY <1>0, <1>4, <2>1, OpenIInv DEF OpenScope, PermissionAgrees
<1>5. ASSUME NEW scope \in Scope, NEW n \in Generation, CloseGeneration(scope, n)
      PROVE IInv'
  <2>1. TypeOK'
    BY <1>5, ZeroType DEF CloseGeneration, TypeOK
  <2>2. OnlyCurrentCommands' /\ AcknowledgedIsOver'
    BY <1>5 DEF CloseGeneration, OnlyCurrentCommands, AcknowledgedIsOver, Zero
  <2>3. PermissionAgrees' /\ AppliedIsStopped' /\ SealedIsQuiet'
    BY <1>0, <1>5 DEF CloseGeneration, PermissionAgrees, AppliedIsStopped, SealedIsQuiet,
       AcknowledgedIsOver
  <2> QED BY <2>1, <2>2, <2>3
<1>6. ASSUME NEW scope \in Scope, NEW n \in Generation, NEW twist \in Twist,
             OnScopedCmd(scope, n, twist)
      PROVE  IInv'
  BY <1>0, <1>6, TargetIInv DEF OnScopedCmd, PermissionAgrees
<1>7. ASSUME NEW p \in Permission, permission' = p, p.identity = permission.identity,
             p.state \in {permission.state, "fault"}, mode = "permission", writing = 0,
             sync_permission(p),
             UNCHANGED <<mode, current, wheels, writing, acknowledged, now>>
      PROVE  IInv'
  <2>1. CASE p.state = "fault" /\ ~sealed
    BY <1>0, <1>7, <2>1, SealIInv DEF sync_permission
  <2>2. CASE ~(p.state = "fault" /\ ~sealed)
    BY <1>0, <1>7, <2>2, KeepIInv DEF sync_permission
  <2> QED BY <2>1, <2>2
<1>8. ASSUME NEW scope \in Scope \cup {NoScope}, NEW n \in Generation,
             NEW op \in 0..LastOperation, NEW t \in Stamp, open_permit(scope, n, op, t)
      PROVE  IInv'
  <2> DEFINE named == [scope |-> scope, generation |-> following(n),
                       operation_id |-> op]
             p == observe_time(permission, now)
  <2>1. named \in MotionPermitIdentity
    BY PermissionAssumption DEF MotionPermitIdentity, following, Generation
  <2>2. /\ p \in Permission /\ p.identity = permission.identity
        /\ p.state \in {permission.state, "fault"}
    BY <1>0, ObserveTimeType
  <2>3. permission' \in Permission
    BY <1>0, <1>8, <2>1, OpenType DEF open_permit
  <2>4. CASE opens(p, named, n, t, now, applied)
    <3>1. sealed /\ applied
      BY <1>0, <1>8, <2>2, <2>4 DEF opens, open_permit
    <3>2. permission' = [p EXCEPT !.state = "active", !.identity = named,
                                  !.opened = t, !.issued = t, !.deadline = t + Lifetime]
      BY <1>8, <2>4 DEF open_permit, open
    <3>3. permission'.state = "active" /\ permission'.identity = named
      <4> HIDE DEF p, named
      <4> QED BY <2>2, <3>2 DEF Permission
    <3>4. current' = named /\ target' = Zero /\ applied' = FALSE /\ sealed' = FALSE
      BY <1>8, <2>4, <3>1 DEF open_permit
    <3>5. current'.generation = current.generation + 1
      BY <1>0, <1>8, <2>2, <2>4, <3>4 DEF opens, open_permit
    <3>6. PermissionAgrees'
      BY <3>3, <3>4 DEF PermissionAgrees
    <3>7. /\ writing = 0 /\ mode = "permission"
          /\ UNCHANGED <<mode, instr, wheels, writing, acknowledged, now>>
      BY <1>8, <2>4, <3>1 DEF open_permit
    <3> HIDE DEF p, named, IInv
    <3> QED BY <2>1, <2>3, <3>1, <3>4, <3>5, <3>6, <3>7, OpenIInv
  <2>5. CASE ~opens(p, named, n, t, now, applied)
    <3>1. permission' = p
      BY <1>8, <2>5 DEF open_permit, open
    <3>2. ~(retries_open(p, named, n, t, now) /\ sealed)
      BY <1>0, <1>8, <2>2 DEF retries_open, open_permit
    <3>3. sync_permission(p) /\ UNCHANGED current
      BY <1>8, <2>5, <3>1, <3>2 DEF open_permit
    <3> QED BY <1>7, <1>8, <2>2, <3>1, <3>3 DEF open_permit
  <2> QED BY <2>4, <2>5
<1>9. ASSUME NEW id \in MotionPermitIdentity, NEW t \in Stamp, renew_permit(id, t)
      PROVE  IInv'
  <2> DEFINE p == observe_time(permission, now)
  <2>1. /\ p \in Permission /\ p.identity = permission.identity
        /\ p.state \in {permission.state, "fault"}
    BY <1>0, ObserveTimeType
  <2>2. permission' \in Permission
    BY <1>0, <1>9, RenewType DEF renew_permit
  <2>3. permission'.identity = p.identity /\ permission'.state = p.state
    <3>1. \/ permission' = p
          \/ permission' = [p EXCEPT !.issued = t, !.deadline = t + Lifetime]
      BY <1>9 DEF renew_permit, renew
    <3> HIDE DEF p
    <3> QED BY <2>1, <3>1 DEF Permission
  <2> QED BY <1>7, <1>9, <2>1, <2>2, <2>3 DEF renew_permit
<1>10. ASSUME NEW id \in MotionPermitIdentity, close_permit(id) PROVE IInv'
  <2> DEFINE p == observe_time(permission, now)
  <2>1. /\ p \in Permission /\ p.identity = permission.identity
        /\ p.state \in {permission.state, "fault"}
    BY <1>0, ObserveTimeType
  <2>2. permission' \in Permission
    BY <1>0, <1>10, CloseType DEF close_permit
  <2>3. CASE closes(p, id) /\ p.state = "active"
    <3>1. permission' = [p EXCEPT !.state = "normal"]
      BY <1>10, <2>3 DEF close_permit, close
    <3>2. permission'.state = "normal" /\ permission'.identity = p.identity
      <4> HIDE DEF p
      <4> QED BY <2>1, <3>1 DEF Permission
    <3>3. ~sealed
      BY <1>0, <1>10, <2>1, <2>3 DEF close_permit
    <3>4. seal
      BY <1>10, <2>3, <3>2, <3>3 DEF close_permit, closes
    <3> QED BY <1>10, <2>1, <2>2, <3>2, <3>3, <3>4, SealIInv DEF close_permit
  <2>4. CASE ~(closes(p, id) /\ p.state = "active")
    <3>1. permission' = p
      BY <1>10, <2>4 DEF close_permit, close
    <3>2. sync_permission(p)
      <4>1. CASE closes(p, id) /\ ~sealed
        <5>1. p.state = "fault"
          BY <1>0, <1>10, <2>1, <2>4, <4>1 DEF close_permit
        <5> QED BY <1>10, <3>1, <4>1, <5>1 DEF close_permit, sync_permission
      <4>2. CASE ~(closes(p, id) /\ ~sealed)
        BY <1>10, <3>1, <4>2 DEF close_permit
      <4> QED BY <4>1, <4>2
    <3> QED BY <1>7, <1>10, <2>1, <3>1, <3>2 DEF close_permit
  <2> QED BY <2>3, <2>4
<1>11. ASSUME NEW id \in MotionPermitIdentity, NEW twist \in Twist,
              permitted_command(id, twist)
       PROVE  IInv'
  <2> DEFINE p == observe_time(permission, now)
  <2>1. /\ p \in Permission /\ p.identity = permission.identity
        /\ p.state \in {permission.state, "fault"}
    BY <1>0, ObserveTimeType
  <2>2. CASE can_consume(p, id) /\ ~sealed /\ twist # "not_finite"
    BY <1>0, <1>11, <2>1, <2>2, TargetIInv
       DEF permitted_command, can_consume, PermissionAgrees
  <2>3. CASE ~(can_consume(p, id) /\ ~sealed /\ twist # "not_finite")
    BY <1>7, <1>11, <2>1, <2>3 DEF permitted_command
  <2> QED BY <2>2, <2>3
<1>12. ASSUME NEW failed \in SUBSET Wheel, BeginUpdate(failed) PROVE IInv'
  <2>1. CASE sealed \/ permission'.state = "fault"
    BY <1>12, <2>1, ApplyZeroIInv DEF BeginUpdate
  <2>2. CASE ~(sealed \/ permission'.state = "fault")
    <3>1. /\ permission' \in Permission /\ permission'.identity = permission.identity
          /\ permission'.state = permission.state
      BY <1>12, <2>2, Checked DEF BeginUpdate
    <3>2. writing' = 1 /\ 1 \in 0..Wheels
      BY <1>12, <2>2, DriveAssumption DEF BeginUpdate
    <3> QED BY <1>12, <2>2, <3>1, <3>2 DEF BeginUpdate, TypeOK, PermissionAgrees,
         AppliedIsStopped, OnlyCurrentCommands, AcknowledgedIsOver, SealedIsQuiet
  <2> QED BY <2>1, <2>2
<1>13. ASSUME NEW failed \in SUBSET Wheel, WriteWheel(failed) PROVE IInv'
  <2>0. ~sealed /\ writing \in Wheel
    BY <1>13, DriveAssumption DEF WriteWheel, SealedIsQuiet, TypeOK, Wheel
  <2>1. CASE is_write_permitted
    <3>1. /\ permission' \in Permission /\ permission'.identity = permission.identity
          /\ permission'.state = permission.state
      BY <1>0, <1>13, <2>1, Checked DEF WriteWheel, is_write_permitted, can_consume
    <3>2. /\ writing' \in 0..Wheels
          /\ UNCHANGED <<mode, sealed, applied, target, acknowledged, current, now>>
      BY <1>13, <2>0, <2>1, DriveAssumption DEF WriteWheel, Wheel
    <3>3. PICK ramp \in {FALSE, Ramped} :
            LET from == target.from \cup (IF ramp THEN instr[writing].from ELSE {})
                speeds == {Zero} \cup (IF ramp \/ target.moving
                                         THEN {[moving |-> TRUE, from |-> from]}
                                         ELSE {})
            IN  \E speed \in speeds :
                  /\ wheels' \in {wheels, [wheels EXCEPT ![writing] = speed]}
                  /\ instr' = IF ramp THEN [instr EXCEPT ![writing] = speed]
                              ELSE instr
      BY <1>13, <2>1 DEF WriteWheel, write_speed
    <3>4. \E speed \in Speed :
            /\ speed.from \subseteq target.from \cup instr[writing].from
            /\ wheels' \in {wheels, [wheels EXCEPT ![writing] = speed]}
            /\ instr' \in {instr, [instr EXCEPT ![writing] = speed]}
      <4>1. target.from \subseteq Generation /\ instr[writing].from \subseteq Generation
        BY <2>0 DEF TypeOK, Speed
      <4>2. /\ Zero \in Speed /\ Zero.from = {}
            /\ \A from \in SUBSET Generation :
                 /\ [moving |-> TRUE, from |-> from] \in Speed
                 /\ [moving |-> TRUE, from |-> from].from = from
        BY ZeroType DEF Speed, Zero
      <4> QED BY <3>3, <4>1, <4>2
    <3>5. PICK speed \in Speed :
            /\ speed.from \subseteq target.from \cup instr[writing].from
            /\ wheels' \in {wheels, [wheels EXCEPT ![writing] = speed]}
            /\ instr' \in {instr, [instr EXCEPT ![writing] = speed]}
      BY <3>4
    <3>6. wheels' \in [Wheel -> Speed] /\ instr' \in [Wheel -> Speed]
      BY <3>5 DEF TypeOK
    <3>7. \A w \in Wheel : /\ wheels'[w] \in {wheels[w], speed}
                           /\ instr'[w] \in {instr[w], speed}
      BY <3>5 DEF TypeOK
    <3>8. TypeOK'
      BY <3>1, <3>2, <3>6 DEF TypeOK
    <3>9. OnlyCurrentCommands'
      <4>1. /\ target.from \subseteq {current.generation}
            /\ \A w \in Wheel : /\ instr[w].from \subseteq {current.generation}
                                /\ wheels[w].from \subseteq {current.generation}
        BY Origins
      <4>2. speed.from \subseteq {current.generation}
        BY <2>0, <3>5, <4>1
      <4>3. \A w \in Wheel : /\ instr'[w].from \subseteq {current.generation}
                             /\ wheels'[w].from \subseteq {current.generation}
        BY <3>7, <4>1, <4>2
      <4> QED BY <3>2, <4>1, <4>3 DEF OnlyCurrentCommands
    <3>10. AcknowledgedIsOver'
      <4>1. \A g \in acknowledged :
              /\ g <= current.generation /\ g # current.generation
              /\ \A w \in Wheel :
                   g \notin wheels[w].from \cup instr[w].from \cup target.from
        BY <2>0 DEF AcknowledgedIsOver
      <4>2. \A g \in acknowledged : g \notin speed.from
        BY <2>0, <3>5, <4>1
      <4> QED BY <3>2, <3>7, <4>1, <4>2 DEF AcknowledgedIsOver
    <3>11. PermissionAgrees' /\ AppliedIsStopped' /\ SealedIsQuiet'
      BY <2>0, <3>1, <3>2 DEF PermissionAgrees, AppliedIsStopped, SealedIsQuiet
    <3> QED BY <3>8, <3>9, <3>10, <3>11
  <2>2. CASE ~is_write_permitted
    <3>1. permission'.state = "fault"
      BY <1>0, <1>13, <2>0, <2>2, Checked DEF WriteWheel, is_write_permitted, can_consume
    <3> QED BY <1>13, <2>2, <3>1, ApplyZeroIInv DEF WriteWheel
  <2> QED BY <2>1, <2>2
<1>14. CASE Reset
  <2>1. target' \in Speed /\ target'.from = {}
    BY <1>14, ZeroType DEF Reset, Zero
  <2> QED BY <1>14, <2>1 DEF Reset, TypeOK, PermissionAgrees, AppliedIsStopped,
       OnlyCurrentCommands, AcknowledgedIsOver, SealedIsQuiet
<1>15. CASE UNCHANGED vars
  BY <1>15 DEF vars, TypeOK, PermissionAgrees, AppliedIsStopped,
       OnlyCurrentCommands, AcknowledgedIsOver, SealedIsQuiet
<1>16. CASE Command
  BY <1>2, <1>3, <1>4, <1>5, <1>6, <1>16 DEF Command
<1>17. CASE Permit
  BY <1>8, <1>9, <1>10, <1>11, <1>17 DEF Permit
<1>18. CASE Update
  BY <1>12, <1>13, <1>18 DEF Update
<1> QED BY <1>1, <1>14, <1>15, <1>16, <1>17, <1>18 DEF Next

-----------------------------------------------------------------------------
(* Theorems *)

\* The inductive invariant holds in every reachable state.
THEOREM Invariance == Spec => []IInv
  BY InitIInv, StepIInv, PTL DEF Spec

\* The state of the drive stays well typed; in particular no deadline exceeds
\* the largest stamp and no generation the largest one.
THEOREM TypeCorrect == Spec => []TypeOK
  BY Invariance, PTL DEF IInv

\* The drive is open exactly while its permission is active, for the same
\* identity, at every point of every handler and update.
THEOREM AgreementHolds == Spec => []PermissionAgrees
  BY Invariance, PTL DEF IInv

\* applied_ is only ever reported of a sealed drive whose wheels all hold zero.
THEOREM AppliedStops == Spec => []AppliedIsStopped
  BY Invariance, PTL DEF IInv

\* No speed outlives the generation whose command it comes from.
THEOREM CommandsStayInTheirGeneration == Spec => []OnlyCurrentCommands
  BY Invariance, PTL DEF IInv

\* A generation whose rest was acknowledged never moves the wheels again.
THEOREM AcknowledgementIsFinal == Spec => []AcknowledgedIsOver
  BY Invariance, PTL DEF IInv

\* Only OpenScope and open_permit start a generation, and both find the drive
\* sealed and applied, that is at rest.
THEOREM GenerationsStartAtRest == Spec => GenerationsBeginAtRest
<1>1. ASSUME IInv, [Next]_vars, current'.generation # current.generation
      PROVE  /\ wheels = Still
             /\ current'.generation = current.generation + 1
             /\ ~sealed' /\ target' = Zero
  <2>1. CASE \E scope \in Scope, n \in Generation : OpenScope(scope, n)
    BY <1>1, <2>1 DEF OpenScope, IInv, AppliedIsStopped, TypeOK, MotionPermitIdentity
  <2>2. CASE \E scope \in Scope \cup {NoScope}, n \in Generation,
                op \in 0..LastOperation, t \in Stamp : open_permit(scope, n, op, t)
    <3>1. PICK scope \in Scope \cup {NoScope}, n \in Generation,
               op \in 0..LastOperation, t \in Stamp : open_permit(scope, n, op, t)
      BY <2>2
    <3> DEFINE named == [scope |-> scope, generation |-> following(n),
                         operation_id |-> op]
               p == observe_time(permission, now)
    <3>2. /\ p.identity = current /\ p.state \in {permission.state, "fault"}
          /\ permission.state = "active" <=> ~sealed
      BY <1>1, <3>1, ObserveTimeType
         DEF IInv, TypeOK, PermissionAgrees, open_permit
    <3>3. /\ sealed /\ current' = named
          /\ ~sealed' /\ target' = Zero
          /\ \/ opens(p, named, n, t, now, applied)
             \/ retries_open(p, named, n, t, now)
      BY <1>1, <3>1 DEF open_permit
    <3>4. opens(p, named, n, t, now, applied)
      BY <3>2, <3>3 DEF retries_open
    <3>5. applied /\ current'.generation = current.generation + 1
      BY <3>2, <3>3, <3>4 DEF opens
    <3> QED BY <1>1, <3>3, <3>5 DEF IInv, AppliedIsStopped
  <2>3. CASE \E scope \in Scope : CloseScope(scope)
    BY <1>1, <2>3 DEF CloseScope, IInv, TypeOK, MotionPermitIdentity
  <2>4. CASE UNCHANGED current
    BY <1>1, <2>4
  <2>5. ASSUME Next PROVE \/ UNCHANGED current
                          \/ \E scope \in Scope : CloseScope(scope)
                          \/ \E scope \in Scope, n \in Generation : OpenScope(scope, n)
                          \/ \E scope \in Scope \cup {NoScope}, n \in Generation,
                                op \in 0..LastOperation, t \in Stamp :
                               open_permit(scope, n, op, t)
    BY <2>5 DEF Next, Tick, Regress, Command, Permit, Update, Reset, OnCmdVel,
       CloseGeneration, OnScopedCmd, renew_permit, close_permit, permitted_command,
       BeginUpdate, WriteWheel
  <2>6. CASE UNCHANGED vars
    BY <1>1, <2>6 DEF vars
  <2> QED BY <1>1, <2>1, <2>2, <2>3, <2>4, <2>5, <2>6
<1> QED BY <1>1, Invariance, PTL DEF Spec, GenerationsBeginAtRest

\* A wheel is only set in motion by a write that the permission, read against the
\* clock just before, allows.
LEMMA MotionIsPermitted ==
  ASSUME IInv, [Next]_vars, StartsMotion
  PROVE  writing # 0 /\ is_write_permitted
<1>1. PICK w \in Wheel : wheels'[w].moving /\ wheels'[w] # wheels[w]
  BY DEF StartsMotion
<1>2. ASSUME NEW p, NEW failed, apply_zero(p, failed) PROVE FALSE
  BY <1>1, <1>2 DEF apply_zero, Zero
<1>3. wheels' # wheels
  BY <1>1
<1>4. \E failed \in SUBSET Wheel : BeginUpdate(failed) \/ WriteWheel(failed)
  BY <1>3 DEF Next, vars, Tick, Regress, Command, Permit, Update, Reset, OnCmdVel,
     CloseScope, OpenScope, CloseGeneration, OnScopedCmd, open_permit, renew_permit,
     close_permit, permitted_command
<1>5. PICK failed \in SUBSET Wheel : BeginUpdate(failed) \/ WriteWheel(failed)
  BY <1>4
<1>6. CASE BeginUpdate(failed)
  BY <1>2, <1>3, <1>6 DEF BeginUpdate
<1>7. CASE WriteWheel(failed)
  BY <1>2, <1>7 DEF WriteWheel
<1> QED BY <1>5, <1>6, <1>7

\* Once the deadline has passed nothing extends the permission or moves a wheel,
\* although the drive may not have noticed the lapse yet.
THEOREM LapseHolds == Spec => LapseIsFinal
<1>1. ASSUME IInv, [Next]_vars, permission.state = "active", permission.deadline <= now
      PROVE  permission'.deadline = permission.deadline /\ ~StartsMotion
  <2> DEFINE p == observe_time(permission, now)
  <2>0. permission \in Permission /\ now \in Stamp
    BY <1>1 DEF IInv, TypeOK
  <2>1. p.state = "fault" /\ p.deadline = permission.deadline /\ p \in Permission
    BY <1>1, <2>0, ObserveTimeType
  <2>2. mode = "permission"
    BY <1>1 DEF IInv, SealedIsQuiet
  <2>3. ~StartsMotion
    BY <1>1, <2>1, <2>2, MotionIsPermitted
       DEF is_write_permitted, checked_permission, can_consume
  <2>4. permission'.deadline = permission.deadline
    <3>1. \/ UNCHANGED permission
          \/ permission' = p
          \/ permission' = [p EXCEPT !.state = "normal"]
      <4>1. \A id, n, t, z : open(permission, id, n, t, now, z) = p
        BY <2>1 DEF open, opens
      <4>2. \A id, t : renew(permission, id, t, now) = p
        BY <2>1 DEF renew, renews
      <4>3. \A id : close(permission, id, now) = p
        BY <2>1 DEF close
      <4> HIDE DEF p
      <4>4. CASE Permit
        BY <4>1, <4>2, <4>3, <4>4
           DEF Permit, open_permit, renew_permit, close_permit, permitted_command, p
      <4>5. CASE Update
        BY <2>2, <4>5 DEF Update, BeginUpdate, WriteWheel, checked_permission, p
      <4>6. CASE Command
        BY <4>6 DEF Command, OnCmdVel, CloseScope, OpenScope, CloseGeneration, OnScopedCmd
      <4> QED BY <1>1, <4>4, <4>5, <4>6 DEF Next, vars, Tick, Regress, Reset
    <3> HIDE DEF p
    <3> QED BY <2>1, <3>1 DEF Permission
  <2> QED BY <2>3, <2>4
<1> QED BY <1>1, Invariance, PTL DEF Spec, LapseIsFinal

\* After a fault the drive stays sealed and its wheels are never set in motion.
THEOREM FaultHolds == Spec => FaultIsFinal
<1>1. ASSUME IInv, IInv', [Next]_vars, permission.state = "fault"
      PROVE  permission'.state = "fault" /\ sealed' /\ ~StartsMotion
  <2> DEFINE p == observe_time(permission, now)
  <2>0. permission \in Permission /\ now \in Stamp
    BY <1>1 DEF IInv, TypeOK
  <2>1. p.state = "fault"
    BY <1>1, <2>0, ObserveTimeType
  <2>2. mode = "permission"
    BY <1>1 DEF IInv, SealedIsQuiet
  <2>3. ~StartsMotion
    BY <1>1, <2>1, <2>2, MotionIsPermitted
       DEF is_write_permitted, checked_permission, can_consume
  <2>4. permission' \in {permission, p}
    <3>1. \A id, n, t, z : open(permission, id, n, t, now, z) = p
      BY <2>1 DEF open, opens
    <3>2. \A id, t : renew(permission, id, t, now) = p
      BY <2>1 DEF renew, renews
    <3>3. \A id : close(permission, id, now) = p
      BY <2>1 DEF close
    <3> HIDE DEF p
    <3>4. CASE Permit
      BY <3>1, <3>2, <3>3, <3>4
         DEF Permit, open_permit, renew_permit, close_permit, permitted_command, p
    <3>5. CASE Update
      BY <2>2, <3>5 DEF Update, BeginUpdate, WriteWheel, checked_permission, p
    <3>6. CASE Command
      BY <3>6 DEF Command, OnCmdVel, CloseScope, OpenScope, CloseGeneration, OnScopedCmd
    <3> QED BY <1>1, <3>4, <3>5, <3>6 DEF Next, vars, Tick, Regress, Reset
  <2>5. permission'.state = "fault"
    BY <1>1, <2>1, <2>4
  <2>6. sealed'
    <3>1. sealed' \in BOOLEAN /\ mode' = "permission"
      BY <1>1, <2>2, ModeIsFixed DEF IInv, TypeOK
    <3> QED BY <1>1, <2>5, <3>1 DEF IInv, PermissionAgrees
  <2> QED BY <2>3, <2>5, <2>6
<1> QED BY <1>1, Invariance, PTL DEF Spec, FaultIsFinal

-----------------------------------------------------------------------------
(* The owner and the drive: the inductive invariant *)

Call ==
  [state : {"none", "sent", "answered"}, visit : 0..2, issued : Stamp,
   accepted : BOOLEAN, deadline : Stamp]

Fact ==
  [id : MotionPermitIdentity, deadline : Stamp, at : Stamp,
   reason : {"none", "normal_close", "permission_expired"}]

Lane ==
  [open : BOOLEAN, granted : BOOLEAN, first : Stamp, last : Stamp,
   close_at : Stamp, drive_ack : Fact]

OwnerTypeOK ==
  /\ pc \in Waits \cup {"renewing", "stopped"}
  /\ visit \in Visit /\ bound \subseteq Visit
  /\ authority \in {"none", "current", "lost"}
  /\ lane \in Lane /\ due \in Nat /\ fault \in BOOLEAN
  /\ opening \in Call /\ renewal \in Call /\ closing \in Call
  /\ opening.state # "none" => opening.visit \in Visit
  /\ renewal.state # "none" => renewal.visit \in Visit
  /\ closing.state # "none" => closing.visit \in Visit
  /\ abandoned \in BOOLEAN /\ ack \in Fact
  /\ lost_at \in Stamp /\ stopped_at \in Stamp

\* What the owner was told of the rest of a visit, and what it concluded from
\* it, is acknowledged by the drive.
Acknowledged ==
  /\ ack # NoFact => ack.id.generation \in acknowledged
  /\ lane.drive_ack # NoFact => visit \in acknowledged
  /\ \A v \in Visit : visit > v => v \in acknowledged
  /\ pc = "completed" => visit \in acknowledged

\* One call at a time: an opening never meets a renewal, and a renewal is sent
\* only while the drive is granted.
OneCall ==
  /\ pc \notin {"opening", "stopped"} => opening.state = "none"
  /\ pc \in {"bound", "opening", "renewing"} => renewal.state = "none"
  /\ opening.state # "none" => renewal.state # "sent"
  /\ lane.granted => pc \in {"driving", "renewing"}

\* Stamps lie in the past, and for an owner that has stopped before its end.
Stamps ==
  /\ permission.issued <= now
  /\ opening.state # "none" => opening.issued <= now
  /\ renewal.state # "none" => renewal.issued <= now
  /\ permission.state = "active" =>
       permission.deadline = permission.issued + Lifetime
  /\ pc = "stopped" =>
       /\ permission.issued <= stopped_at
       /\ opening.state # "none" => opening.issued <= stopped_at
       /\ renewal.state # "none" => renewal.issued <= stopped_at

\* Renewals are a period apart, and the check of the one that is about to be
\* sent came before the loss of the authority.
Periods ==
  /\ pc \in {"driving", "renewing"} =>
       /\ permission.issued + Period <= due
       /\ renewal.state = "sent" => renewal.issued + Period <= due
  /\ pc = "opening" /\ opening.state = "answered" /\ opening.accepted =>
       permission.issued = opening.issued
  /\ pc = "renewing" =>
       /\ due <= now
       /\ authority = "lost" => due <= lost_at

\* A renewal that was stamped after the loss came a period after the last one.
LastGrant ==
  authority = "lost" =>
    /\ renewal.state = "sent" =>
         \/ renewal.issued <= lost_at
         \/ permission.issued + Period <= lost_at
    /\ permission.state = "active" =>
         \/ lost_at < permission.opened
         \/ permission.issued + Period <= lost_at + Lifetime

OwnerInv ==
  /\ IInv
  /\ mode = "permission"
  /\ OwnerTypeOK
  /\ Acknowledged
  /\ OneCall
  /\ Stamps
  /\ Periods
  /\ LastGrant

-----------------------------------------------------------------------------
(* The drive as the owner meets it *)

\* A permission that was only looked at, or closed: its grant is the same.
SameGrant ==
  /\ permission'.identity = permission.identity
  /\ permission'.opened = permission.opened
  /\ permission'.issued = permission.issued
  /\ permission'.deadline = permission.deadline
  /\ permission'.state = "active" => permission.state = "active"

\* The clock is read first in every call; the grant is not changed by that, and
\* is over once its deadline has passed.
LEMMA CheckedGrant ==
  ASSUME IInv
  PROVE  /\ checked \in Permission
         /\ checked.identity = permission.identity
         /\ checked.opened = permission.opened
         /\ checked.issued = permission.issued
         /\ checked.deadline = permission.deadline
         /\ checked.state \in {permission.state, "fault"}
         /\ checked.state = "active" => now < checked.deadline
<1>1. permission \in Permission /\ now \in Stamp
  BY DEF IInv, TypeOK
<1>2. checked \in Permission /\ checked.state \in {permission.state, "fault"}
  BY <1>1, ObserveTimeType DEF checked
<1>3. ~(permission.deadline <= now) => now < permission.deadline
  BY <1>1 DEF Permission, Stamp
<1> QED BY <1>1, <1>2, <1>3 DEF checked, observe_time, Permission

\* The identity of a visit is one the drive can be asked about.
LEMMA IdentityType ==
  ASSUME NEW v \in Visit
  PROVE  /\ identity(v) \in MotionPermitIdentity
         /\ ScopeOf[v] \in Scope /\ v \in 0..LastOperation /\ v - 1 \in Generation
         /\ identity(v).generation = v
  BY OwnerAssumption, PermissionAssumption
     DEF identity, Visit, MotionPermitIdentity, Generation

\* NoFact is a fact, NoCall a call and NoLane a lane.
LEMMA NothingType == NoFact \in Fact /\ NoCall \in Call /\ NoLane \in Lane
<1>1. 0 \in Stamp
  BY PermissionAssumption DEF Stamp
<1>2. NoIdentity \in MotionPermitIdentity
  BY PermissionAssumption DEF NoIdentity, MotionPermitIdentity, Generation
<1>3. NoFact \in Fact
  BY <1>1, <1>2 DEF NoFact, Fact
<1> QED BY <1>1, <1>3 DEF NoCall, Call, NoLane, Lane

\* A request carries the visit and the stamp.
LEMMA SendType ==
  ASSUME OwnerTypeOK, now \in Stamp
  PROVE  /\ send \in Call /\ send.state = "sent"
         /\ send.issued = now /\ send.visit = visit
<1> DEFINE none == NoCall
<1>1. none \in Call /\ visit \in 0..2
  BY NothingType DEF OwnerTypeOK, Visit
<1> HIDE DEF none
<1>2. [none EXCEPT !.state = "sent", !.visit = visit, !.issued = now] \in Call
  BY <1>1 DEF Call
<1>3. /\ [none EXCEPT !.state = "sent", !.visit = visit, !.issued = now].state
           = "sent"
      /\ [none EXCEPT !.state = "sent", !.visit = visit, !.issued = now].visit
           = visit
      /\ [none EXCEPT !.state = "sent", !.visit = visit, !.issued = now].issued
           = now
  BY <1>1 DEF Call
<1> QED BY <1>2, <1>3 DEF send, none

\* Every step of the composition is a step of the drive.
LEMMA DriveStep ==
  ASSUME IInv, mode = "permission", OwnerTypeOK, [OwnerNext]_system
  PROVE  [Next]_vars
<1>1. CASE ServeOpen
  <2>1. opening.visit \in Visit /\ opening.issued \in Stamp
    BY <1>1 DEF ServeOpen, OwnerTypeOK, Call
  <2>2. open_permit(ScopeOf[opening.visit], opening.visit - 1, opening.visit,
                    opening.issued)
    BY <1>1 DEF ServeOpen
  <2> QED BY <2>1, <2>2, IdentityType DEF Next, Permit
<1>2. CASE ServeRenewal
  <2>1. renewal.visit \in Visit /\ renewal.issued \in Stamp
    BY <1>2 DEF ServeRenewal, OwnerTypeOK, Call
  <2>2. renew_permit(identity(renewal.visit), renewal.issued)
    BY <1>2 DEF ServeRenewal
  <2> QED BY <2>1, <2>2, IdentityType DEF Next, Permit
<1>3. CASE ServeClose
  <2>1. closing.visit \in Visit
    BY <1>3 DEF ServeClose, OwnerTypeOK, Call
  <2>2. close_permit(identity(closing.visit))
    BY <1>3 DEF ServeClose
  <2> QED BY <2>1, <2>2, IdentityType DEF Next, Permit
<1>4. CASE ServeAbandoned
  BY <1>4, IdentityType DEF ServeAbandoned, OwnerTypeOK, Next, Permit
<1>5. CASE Native
  <2>1. PICK v \in bound, twist \in {"zero", "moving"} :
          permitted_command(identity(v), twist)
    BY <1>5 DEF Native
  <2>2. v \in Visit /\ twist \in Twist
    BY DEF OwnerTypeOK, Twist
  <2> QED BY <2>1, <2>2, IdentityType DEF Next, Permit
<1>6. CASE Physics \/ Time
  BY <1>6 DEF Physics, Time, Next
<1>7. CASE Open \/ Close \/ OwnerTick \/ SendRenewal \/ TakeAck
  BY <1>7 DEF Open, Admit, TakeClosedRenewal, Bind, CheckOpening, SendOpen,
       TakeOpened, Close, SendClose, TakeClosed, Settle, OwnerTick, SendRenewal,
       TakeAck, abort, stop, drive
<1>8. CASE Lose \/ GiveUp \/ Crash
  BY <1>8 DEF Lose, GiveUp, Crash, abort, stop, drive
<1>9. CASE UNCHANGED system
  BY <1>9 DEF system, drive
<1> QED BY <1>1, <1>2, <1>3, <1>4, <1>5, <1>6, <1>7, <1>8, <1>9
           DEF OwnerNext, Serve

\* An answered opening was granted with its stamp, or changed no grant.
LEMMA ServeOpenGrant ==
  ASSUME IInv, mode = "permission", OwnerTypeOK, ServeOpen
  PROVE  /\ now' = now /\ acknowledged' = acknowledged
         /\ opening' = [opening EXCEPT !.state = "answered",
                          !.accepted = opening'.accepted,
                          !.deadline = permission'.deadline]
         /\ opening'.accepted \in BOOLEAN
         /\ opening'.accepted =>
              /\ opens(checked, identity(opening.visit), opening.visit - 1,
                       opening.issued, now, applied)
              /\ permission' = [checked EXCEPT
                   !.state = "active", !.identity = identity(opening.visit),
                   !.opened = opening.issued, !.issued = opening.issued,
                   !.deadline = opening.issued + Lifetime]
              /\ current' = identity(opening.visit)
         /\ ~opening'.accepted =>
              /\ ~opens(checked, identity(opening.visit), opening.visit - 1,
                        opening.issued, now, applied)
              /\ permission' = checked /\ SameGrant
              /\ current' = current /\ (applied => applied')
<1> DEFINE v == opening.visit
           id == [scope |-> ScopeOf[v], generation |-> following(v - 1),
                  operation_id |-> v]
           granted == opens(checked, id, v - 1, opening.issued, now, applied)
<1>1. /\ open_permit(ScopeOf[v], v - 1, v, opening.issued)
      /\ opening' = answer(opening, opens(checked, identity(v), v - 1,
                                          opening.issued, now, applied))
  BY DEF ServeOpen
<1>2. following(v - 1) = v /\ id = identity(v)
  <2>1. v \in Visit /\ LastGeneration > 2 /\ LastGeneration \in Nat
    BY OwnerAssumption, PermissionAssumption DEF ServeOpen, OwnerTypeOK
  <2>2. 1 % (LastGeneration + 1) = 1 /\ 2 % (LastGeneration + 1) = 2
    BY <2>1
  <2>3. following(v - 1) = v
    BY <2>1, <2>2 DEF following, Visit
  <2> QED BY <2>3 DEF identity
<1>3. opening \in Call /\ permission' \in Permission
  <2>1. IInv'
    BY DriveStep, StepIInv DEF OwnerNext, Serve
  <2> QED BY <2>1 DEF IInv, TypeOK, OwnerTypeOK
<1>4. /\ opening'.accepted = granted
      /\ opening' = [opening EXCEPT !.state = "answered", !.accepted = granted,
                                    !.deadline = permission'.deadline]
  BY <1>1, <1>2, <1>3 DEF answer, Call
<1>5. now' = now /\ acknowledged' = acknowledged
  BY <1>1 DEF open_permit
<1>6. /\ permission' = open(permission, id, v - 1, opening.issued, now, applied)
      /\ granted /\ sealed => current' = id
      /\ \/ granted /\ sealed
         \/ retries_open(checked, id, v - 1, opening.issued, now) /\ sealed
         \/ sync_permission(permission') /\ UNCHANGED current
  BY <1>1 DEF open_permit, checked
<1>7. granted \in BOOLEAN
  BY DEF opens
<1>8. ASSUME granted
      PROVE  /\ permission' = [checked EXCEPT
                   !.state = "active", !.identity = id,
                   !.opened = opening.issued, !.issued = opening.issued,
                   !.deadline = opening.issued + Lifetime]
             /\ current' = id
  <2>1. sealed
    BY <1>8, CheckedGrant DEF opens, IInv, PermissionAgrees
  <2> QED BY <1>6, <1>8, <2>1 DEF open, checked
<1>9. ASSUME ~granted
      PROVE  /\ permission' = checked /\ SameGrant
             /\ current' = current /\ (applied => applied')
  <2>1. permission' = checked
    BY <1>6, <1>9 DEF open, checked
  <2>2. ~(retries_open(checked, id, v - 1, opening.issued, now) /\ sealed)
    BY CheckedGrant DEF retries_open, IInv, PermissionAgrees
  <2>3. current' = current /\ (applied => applied')
    BY <1>6, <1>9, <2>2 DEF sync_permission, seal, IInv, AppliedIsStopped
  <2> QED BY <2>1, <2>3, CheckedGrant DEF SameGrant
<1> QED BY <1>2, <1>4, <1>5, <1>7, <1>8, <1>9

\* An answered renewal carries its stamp into the grant, or changes none.
LEMMA ServeRenewalGrant ==
  ASSUME IInv, mode = "permission", OwnerTypeOK, ServeRenewal
  PROVE  /\ now' = now /\ acknowledged' = acknowledged /\ current' = current
         /\ renewal' = [renewal EXCEPT !.state = "answered",
                          !.accepted = renewal'.accepted,
                          !.deadline = permission'.deadline]
         /\ renewal'.accepted \in BOOLEAN
         /\ renewal'.accepted =>
              /\ renews(checked, identity(renewal.visit), renewal.issued, now)
              /\ permission' = [checked EXCEPT
                   !.issued = renewal.issued,
                   !.deadline = renewal.issued + Lifetime]
         /\ ~renewal'.accepted =>
              /\ ~renews(checked, identity(renewal.visit), renewal.issued, now)
              /\ permission' = checked /\ SameGrant /\ (applied => applied')
<1> DEFINE id == identity(renewal.visit)
           granted == renews(checked, id, renewal.issued, now)
<1>1. /\ renew_permit(id, renewal.issued)
      /\ renewal' = answer(renewal, granted)
  BY DEF ServeRenewal
<1>2. renewal \in Call /\ granted \in BOOLEAN
  BY DEF OwnerTypeOK, renews
<1>3. /\ renewal'.accepted = granted
      /\ renewal' = [renewal EXCEPT !.state = "answered", !.accepted = granted,
                                    !.deadline = permission'.deadline]
  BY <1>1, <1>2 DEF answer, Call
<1>4. now' = now /\ acknowledged' = acknowledged /\ current' = current
  BY <1>1 DEF renew_permit
<1>5. permission' = renew(permission, id, renewal.issued, now)
  BY <1>1 DEF renew_permit
<1>6. ASSUME granted
      PROVE  permission' = [checked EXCEPT !.issued = renewal.issued,
                                           !.deadline = renewal.issued + Lifetime]
  BY <1>5, <1>6 DEF renew, checked
<1>7. ASSUME ~granted
      PROVE  permission' = checked /\ SameGrant /\ (applied => applied')
  <2>1. permission' = checked
    BY <1>5, <1>7 DEF renew, checked
  <2>2. applied => applied'
    BY <1>1 DEF renew_permit, sync_permission, seal, IInv, AppliedIsStopped
  <2> QED BY <2>1, <2>2, CheckedGrant DEF SameGrant
<1> QED BY <1>2, <1>3, <1>4, <1>6, <1>7

\* The other steps of the drive leave the grant, and only add acknowledgements.
LEMMA OtherGrant ==
  ASSUME IInv, mode = "permission", OwnerTypeOK,
         ServeClose \/ ServeAbandoned \/ Native \/ Physics
  PROVE  /\ SameGrant /\ current' = current /\ now' = now
         /\ acknowledged \subseteq acknowledged'
<1>1. ASSUME NEW id, close_permit(id)
      PROVE  /\ SameGrant /\ current' = current /\ now' = now
             /\ acknowledged' = acknowledged
  <2>1. permission' \in {checked, [checked EXCEPT !.state = "normal"]}
    BY <1>1 DEF close_permit, close, checked
  <2>2. SameGrant
    BY <2>1, CheckedGrant DEF SameGrant, Permission
  <2> QED BY <1>1, <2>2 DEF close_permit
<1>2. CASE ServeClose \/ ServeAbandoned
  BY <1>1, <1>2 DEF ServeClose, ServeAbandoned
<1>3. CASE Native
  <2>1. PICK v \in bound, twist \in {"zero", "moving"} :
          permitted_command(identity(v), twist)
    BY <1>3 DEF Native
  <2>2. permission' = checked
    BY <2>1 DEF permitted_command, checked
  <2>3. SameGrant
    BY <2>2, CheckedGrant DEF SameGrant
  <2> QED BY <2>1, <2>3 DEF permitted_command
<1>4. CASE Physics
  <2>1. PICK failed \in SUBSET Wheel : BeginUpdate(failed) \/ WriteWheel(failed)
    BY <1>4 DEF Physics, Update
  <2>2. permission' = checked /\ current' = current /\ now' = now
    BY <2>1 DEF BeginUpdate, WriteWheel, checked_permission, checked
  <2>3. SameGrant
    BY <2>2, CheckedGrant DEF SameGrant
  <2>4. acknowledged \subseteq acknowledged'
    BY <2>1 DEF BeginUpdate, WriteWheel, apply_zero
  <2> QED BY <2>2, <2>3, <2>4
<1> QED BY <1>2, <1>3, <1>4

-----------------------------------------------------------------------------
(* Every step preserves the invariant *)

\* The invariant holds when the owner starts.
LEMMA InitOwnerInv == OwnerInit => OwnerInv
<1> SUFFICES ASSUME OwnerInit PROVE OwnerInv
  OBVIOUS
<1>0. mode = "permission" /\ 0 \in Stamp
  BY OwnerAssumption, PermissionAssumption DEF OwnerInit, Stamp
<1>1. IInv
  <2>1. TypeOK
    <3>1. NoIdentity \in MotionPermitIdentity
      BY PermissionAssumption DEF NoIdentity, MotionPermitIdentity, Generation
    <3>2. initial_permission \in Permission
      BY <1>0, <3>1 DEF initial_permission, Permission
    <3>3. sealed \in BOOLEAN /\ applied \in BOOLEAN
      BY Zenon DEF OwnerInit
    <3> QED BY <1>0, <3>1, <3>2, <3>3, ZeroType, DriveAssumption
            DEF OwnerInit, TypeOK
  <2>2. PermissionAgrees /\ SealedIsQuiet /\ AppliedIsStopped /\ AcknowledgedIsOver
    BY <1>0 DEF OwnerInit, PermissionAgrees, SealedIsQuiet, AppliedIsStopped,
       AcknowledgedIsOver, initial_permission
  <2>3. OnlyCurrentCommands
    BY DEF OwnerInit, OnlyCurrentCommands, Still, Zero
  <2> QED BY <2>1, <2>2, <2>3 DEF IInv
<1>2. OwnerTypeOK
  <2>1. fault \in BOOLEAN /\ abandoned \in BOOLEAN
    BY Zenon DEF OwnerInit
  <2> QED BY <1>0, <2>1, NothingType DEF OwnerInit, OwnerTypeOK, Waits, Visit, NoCall
<1>3. Acknowledged /\ OneCall
  BY DEF OwnerInit, Acknowledged, OneCall, NoLane, NoCall, Visit
<1>4. Stamps /\ Periods /\ LastGrant
  BY <1>0 DEF OwnerInit, Stamps, Periods, LastGrant, initial_permission, NoCall
<1> QED BY <1>0, <1>1, <1>2, <1>3, <1>4 DEF OwnerInv

\* A call as it was, or answered without a grant.
Unchanged(call, next) ==
  /\ next \in Call
  /\ next.state = "none" <=> call.state = "none"
  /\ next.state = "sent" => call.state = "sent"
  /\ next.visit = call.visit /\ next.issued = call.issued
  /\ next.state = "answered" /\ next.accepted =>
       call.state = "answered" /\ call.accepted

\* A step that grants nothing and leaves the program of the owner alone.
LEMMA KeepOwnerInv ==
  ASSUME OwnerInv, IInv', mode' = mode, SameGrant, UNCHANGED <<program, history>>,
         Unchanged(opening, opening'), Unchanged(renewal, renewal'),
         closing' \in Call, closing'.state # "none" => closing'.visit \in Visit,
         abandoned' \in BOOLEAN, ack' \in Fact,
         acknowledged \subseteq acknowledged',
         ack' # NoFact => ack'.id.generation \in acknowledged',
         now <= now'
  PROVE  OwnerInv'
<1>1. OwnerTypeOK'
  BY DEF OwnerInv, OwnerTypeOK, program, history, Unchanged
<1>2. Acknowledged' /\ OneCall'
  BY DEF OwnerInv, Acknowledged, OneCall, program, Unchanged
<1>3. now \in Int /\ now' \in Int /\ permission.issued \in Int
      /\ opening.issued \in Int /\ renewal.issued \in Int
  BY DEF OwnerInv, OwnerTypeOK, IInv, TypeOK, Stamp, Permission, Call
<1>4. Stamps'
  BY <1>3 DEF OwnerInv, Stamps, program, history, SameGrant, Unchanged
<1>5. Periods'
  <2>1. due \in Int
    BY DEF OwnerInv, OwnerTypeOK
  <2> QED BY <1>3, <2>1 DEF OwnerInv, Periods, program, history, SameGrant, Unchanged
<1>6. LastGrant'
  BY DEF OwnerInv, LastGrant, program, history, SameGrant, Unchanged
<1> QED BY <1>1, <1>2, <1>4, <1>5, <1>6 DEF OwnerInv

\* The owner stops, with or without giving its authority up.
LEMMA StopOwnerInv ==
  ASSUME OwnerInv, NEW reason, stop(reason), abandoned' \in BOOLEAN,
         lose \/ UNCHANGED <<authority, lost_at>>
  PROVE  OwnerInv'
<1>0. UNCHANGED <<vars, visit, bound, opening, renewal, closing, ack>>
      /\ pc' = "stopped" /\ stopped_at' = now /\ lane' = NoLane
      /\ due' = 0 /\ fault' = FALSE
  BY DEF stop, drive
<1>1. IInv' /\ mode' = "permission"
  BY <1>0, StepIInv, ModeIsFixed DEF OwnerInv
<1>2. now \in Stamp
  BY DEF OwnerInv, IInv, TypeOK
<1>3. OwnerTypeOK'
  BY <1>0, <1>2, NothingType DEF OwnerInv, OwnerTypeOK, lose, is_current
<1>4. Acknowledged' /\ OneCall'
  BY <1>0 DEF OwnerInv, Acknowledged, OneCall, NoLane, vars
<1>5. Stamps' /\ Periods'
  BY <1>0 DEF OwnerInv, Stamps, Periods, vars
<1>6. LastGrant'
  <2>1. CASE UNCHANGED <<authority, lost_at>>
    BY <1>0, <2>1 DEF OwnerInv, LastGrant, vars
  <2>2. CASE lose /\ authority = "current"
    <3>1. authority' = "lost" /\ lost_at' = now
      BY <2>2 DEF lose, is_current
    <3>2. permission.issued + Period <= now + Lifetime
      BY <1>2, OwnerAssumption, PermissionAssumption
         DEF OwnerInv, Stamps, IInv, TypeOK, Permission, Stamp
    <3> QED BY <1>0, <3>1, <3>2 DEF OwnerInv, LastGrant, Stamps, vars
  <2>3. CASE lose /\ authority # "current"
    BY <1>0, <2>3 DEF OwnerInv, LastGrant, vars, lose, is_current
  <2> QED BY <2>1, <2>2, <2>3
<1> QED BY <1>1, <1>3, <1>4, <1>5, <1>6 DEF OwnerInv

\* An opening is answered.
LEMMA ServeOpenInv ==
  ASSUME OwnerInv, IInv', mode' = mode, ServeOpen
  PROVE  OwnerInv'
<1>0. /\ UNCHANGED <<program, renewal, closing, abandoned, ack, history>>
      /\ opening.state = "sent" /\ opening \in Call /\ now' = now
      /\ acknowledged' = acknowledged
  BY ServeOpenGrant DEF ServeOpen, OwnerInv, OwnerTypeOK
<1>1. /\ opening'.state = "answered" /\ opening'.visit = opening.visit
      /\ opening'.issued = opening.issued /\ opening' \in Call
  <2>1. permission'.deadline \in Stamp
    BY DEF IInv, TypeOK, Permission
  <2> QED BY <1>0, <2>1, ServeOpenGrant DEF OwnerInv, Call
<1>2. CASE ~opening'.accepted
  <2>1. SameGrant
    BY <1>2, ServeOpenGrant DEF OwnerInv
  <2>2. Unchanged(opening, opening')
    BY <1>0, <1>1, <1>2 DEF Unchanged
  <2>3. /\ Unchanged(renewal, renewal') /\ closing' \in Call
        /\ closing'.state # "none" => closing'.visit \in Visit
    BY <1>0 DEF Unchanged, OwnerInv, OwnerTypeOK
  <2>4. /\ abandoned' \in BOOLEAN /\ ack' \in Fact
        /\ ack' # NoFact => ack'.id.generation \in acknowledged'
        /\ now <= now'
    BY <1>0 DEF OwnerInv, OwnerTypeOK, Acknowledged, IInv, TypeOK, Stamp
  <2> QED BY <1>0, <2>1, <2>2, <2>3, <2>4, KeepOwnerInv
<1>3. CASE opening'.accepted
  <2>1. /\ permission'.issued = opening.issued
        /\ permission'.opened = opening.issued
        /\ permission'.deadline = opening.issued + Lifetime
    <3>1. checked \in Permission
      BY CheckedGrant DEF OwnerInv
    <3> QED BY <1>3, <3>1, ServeOpenGrant DEF OwnerInv, Permission
  <2>2. OwnerTypeOK'
    BY <1>0, <1>1 DEF OwnerInv, OwnerTypeOK, program, history
  <2>3. Acknowledged' /\ OneCall'
    BY <1>0, <1>1 DEF OwnerInv, Acknowledged, OneCall, program
  <2>4. Stamps'
    BY <1>0, <1>1, <2>1 DEF OwnerInv, Stamps, program, history
  <2>5. pc \in {"opening", "stopped"} /\ renewal.state # "sent"
    BY <1>0 DEF OwnerInv, OneCall
  <2>6. Periods'
    BY <1>0, <1>1, <2>1, <2>5 DEF OwnerInv, Periods, program, history
  <2>7. LastGrant'
    <3>1. opening.issued \in Int /\ lost_at \in Int
      BY <1>0 DEF OwnerInv, OwnerTypeOK, Call, Stamp
    <3>2. opening.issued <= lost_at => opening.issued + Period <= lost_at + Lifetime
      BY <3>1, OwnerAssumption, PermissionAssumption DEF Stamp
    <3> QED BY <1>0, <2>1, <2>5, <3>1, <3>2
            DEF OwnerInv, LastGrant, program, history
  <2> QED BY <2>2, <2>3, <2>4, <2>6, <2>7 DEF OwnerInv
<1> QED BY <1>2, <1>3

\* A renewal is answered: one that is granted was stamped before the loss or a
\* period after the last, and arrives within the lifetime of that one.
LEMMA ServeRenewalInv ==
  ASSUME OwnerInv, IInv', mode' = mode, ServeRenewal
  PROVE  OwnerInv'
<1>0. /\ UNCHANGED <<program, opening, closing, abandoned, ack, history>>
      /\ renewal.state = "sent" /\ renewal \in Call /\ now' = now
      /\ acknowledged' = acknowledged
  BY ServeRenewalGrant DEF ServeRenewal, OwnerInv, OwnerTypeOK
<1>1. /\ renewal'.state = "answered" /\ renewal'.visit = renewal.visit
      /\ renewal'.issued = renewal.issued /\ renewal' \in Call
  <2>1. permission'.deadline \in Stamp
    BY DEF IInv, TypeOK, Permission
  <2> QED BY <1>0, <2>1, ServeRenewalGrant DEF OwnerInv, Call
<1>2. CASE ~renewal'.accepted
  <2>1. SameGrant
    BY <1>2, ServeRenewalGrant DEF OwnerInv
  <2>2. Unchanged(renewal, renewal')
    BY <1>0, <1>1, <1>2 DEF Unchanged
  <2>3. /\ Unchanged(opening, opening') /\ closing' \in Call
        /\ closing'.state # "none" => closing'.visit \in Visit
    BY <1>0 DEF Unchanged, OwnerInv, OwnerTypeOK
  <2>4. /\ abandoned' \in BOOLEAN /\ ack' \in Fact
        /\ ack' # NoFact => ack'.id.generation \in acknowledged'
        /\ now <= now'
    BY <1>0 DEF OwnerInv, OwnerTypeOK, Acknowledged, IInv, TypeOK, Stamp
  <2> QED BY <1>0, <2>1, <2>2, <2>3, <2>4, KeepOwnerInv
<1>3. CASE renewal'.accepted
  <2>0. /\ permission \in Permission /\ now \in Int
        /\ renewal.issued \in Int /\ lost_at \in Int
        /\ permission.issued \in Int
    BY <1>0 DEF OwnerInv, OwnerTypeOK, Call, IInv, TypeOK, Permission, Stamp
  <2>1. /\ permission'.issued = renewal.issued
        /\ permission'.opened = permission.opened
        /\ permission'.deadline = renewal.issued + Lifetime
        /\ permission.state = "active" /\ now < permission.deadline
    <3>1. /\ checked \in Permission /\ checked.opened = permission.opened
          /\ checked.state \in {permission.state, "fault"}
          /\ checked.state = "active" => now < checked.deadline
          /\ checked.deadline = permission.deadline
      BY CheckedGrant DEF OwnerInv
    <3>2. checked.state = "active"
      BY <1>3, ServeRenewalGrant DEF OwnerInv, renews
    <3> QED BY <1>3, <3>1, <3>2, ServeRenewalGrant DEF OwnerInv, Permission
  <2>2. OwnerTypeOK'
    BY <1>0, <1>1 DEF OwnerInv, OwnerTypeOK, program, history
  <2>3. Acknowledged' /\ OneCall'
    BY <1>0, <1>1 DEF OwnerInv, Acknowledged, OneCall, program
  <2>4. Stamps'
    BY <1>0, <1>1, <2>1 DEF OwnerInv, Stamps, program, history
  <2>5. pc \notin {"opening", "renewing"}
    BY <1>0 DEF OwnerInv, OneCall
  <2>6. Periods'
    BY <1>0, <1>1, <2>1, <2>5 DEF OwnerInv, Periods, program, history
  <2>7. LastGrant'
    <3>1. SUFFICES ASSUME authority = "lost", ~(lost_at < permission.opened)
                   PROVE  renewal.issued + Period <= lost_at + Lifetime
      BY <1>0, <1>1, <2>1 DEF LastGrant, program, history
    <3>2. CASE renewal.issued <= lost_at
      BY <2>0, <3>2, OwnerAssumption, PermissionAssumption DEF Stamp
    <3>3. CASE permission.issued + Period <= lost_at
      <4>1. now < permission.issued + Lifetime /\ renewal.issued <= now
        BY <1>0, <2>1 DEF OwnerInv, Stamps
      <4> QED BY <2>0, <3>3, <4>1, OwnerAssumption, PermissionAssumption DEF Stamp
    <3> QED BY <1>0, <3>1, <3>2, <3>3 DEF OwnerInv, LastGrant
  <2> QED BY <2>2, <2>3, <2>4, <2>6, <2>7 DEF OwnerInv
<1> QED BY <1>2, <1>3

\* Every step of the composition preserves the invariant.
LEMMA StepOwnerInv == OwnerInv /\ [OwnerNext]_system => OwnerInv'
<1> SUFFICES ASSUME OwnerInv, [OwnerNext]_system PROVE OwnerInv'
  OBVIOUS
<1>0. [Next]_vars /\ IInv' /\ mode' = mode
  BY DriveStep, StepIInv, ModeIsFixed DEF OwnerInv
<1>1. ASSUME NEW reason, abort(reason) PROVE OwnerInv'
  <2>1. stop(reason) /\ lose /\ abandoned' \in BOOLEAN
    BY <1>1 DEF abort, OwnerInv, OwnerTypeOK, Lane
  <2> QED BY <2>1, StopOwnerInv
<1>2. ASSUME UNCHANGED drive
      PROVE  /\ permission' = permission /\ now' = now
             /\ acknowledged' = acknowledged
  BY <1>2 DEF drive, vars
<1>3. now \in Stamp /\ due \in Nat /\ lane \in Lane
  BY DEF OwnerInv, OwnerTypeOK, IInv, TypeOK
<1>4. CASE Admit
  <2>1. OwnerTypeOK'
    BY <1>4 DEF Admit, OwnerInv, OwnerTypeOK, Waits, calls, history
  <2>2. Acknowledged' /\ OneCall' /\ Stamps' /\ Periods' /\ LastGrant'
    BY <1>2, <1>4 DEF Admit, OwnerInv, Acknowledged, OneCall, Stamps, Periods,
       LastGrant, calls, history
  <2> QED BY <1>0, <2>1, <2>2 DEF OwnerInv
<1>5. CASE TakeClosedRenewal
  <2>1. SUFFICES ASSUME renewal' = NoCall,
                        UNCHANGED <<drive, program, opening, closing, abandoned,
                                    ack, history>>
                 PROVE  OwnerInv'
    BY <1>1, <1>5 DEF TakeClosedRenewal
  <2>2. OwnerTypeOK'
    BY <2>1, NothingType DEF OwnerInv, OwnerTypeOK, program, history, NoCall
  <2>3. Acknowledged' /\ OneCall' /\ Stamps' /\ Periods' /\ LastGrant'
    BY <1>2, <2>1 DEF OwnerInv, Acknowledged, OneCall, Stamps, Periods,
       LastGrant, program, history, NoCall
  <2> QED BY <1>0, <2>2, <2>3 DEF OwnerInv
<1>6. CASE Bind
  <2>1. SUFFICES ASSUME pc' = "bound", bound' = bound \cup {visit},
                        lane' = [NoLane EXCEPT !.open = TRUE],
                        UNCHANGED <<drive, visit, authority, due, fault, error,
                                    calls, ack, history>>
                 PROVE  OwnerInv'
    BY <1>1, <1>6 DEF Bind
  <2>2. lane' \in Lane /\ lane'.granted = FALSE /\ lane'.drive_ack = NoFact
    BY <2>1, NothingType DEF Lane, NoLane
  <2>3. OwnerTypeOK'
    BY <2>1, <2>2 DEF OwnerInv, OwnerTypeOK, Waits, calls, history
  <2>4. pc = "draining" /\ renewal.state = "none"
    BY <1>6 DEF Bind, drained
  <2>5. Acknowledged' /\ OneCall' /\ Stamps' /\ Periods' /\ LastGrant'
    BY <1>2, <2>1, <2>2, <2>4 DEF OwnerInv, Acknowledged, OneCall, Stamps,
       Periods, LastGrant, calls, history
  <2> QED BY <1>0, <2>3, <2>5 DEF OwnerInv
<1>7. CASE CheckOpening
  <2>1. SUFFICES ASSUME pc' = "opening",
                        UNCHANGED <<drive, visit, authority, bound, lane, due,
                                    fault, error, calls, ack, history>>
                 PROVE  OwnerInv'
    BY <1>1, <1>7 DEF CheckOpening
  <2>2. OwnerTypeOK'
    BY <2>1 DEF OwnerInv, OwnerTypeOK, Waits, calls, history
  <2>3. Acknowledged' /\ OneCall' /\ Stamps' /\ Periods' /\ LastGrant'
    BY <1>2, <1>7, <2>1 DEF CheckOpening, OwnerInv, Acknowledged, OneCall,
       Stamps, Periods, LastGrant, calls, history
  <2> QED BY <1>0, <2>2, <2>3 DEF OwnerInv
<1>8. CASE SendOpen
  <2>1. /\ opening' \in Call /\ opening'.state = "sent"
        /\ opening'.issued = now /\ opening'.visit = visit
    BY <1>3, <1>8, SendType DEF SendOpen, OwnerInv
  <2>2. OwnerTypeOK'
    BY <1>8, <2>1 DEF SendOpen, OwnerInv, OwnerTypeOK, program, history
  <2>3. Acknowledged' /\ OneCall' /\ Stamps' /\ Periods' /\ LastGrant'
    BY <1>2, <1>3, <1>8, <2>1 DEF SendOpen, OwnerInv, Acknowledged, OneCall,
       Stamps, Periods, LastGrant, program, history, Stamp
  <2> QED BY <1>0, <2>2, <2>3 DEF OwnerInv
<1>9. CASE TakeOpened
  <2>1. SUFFICES ASSUME
          pc' = "driving",
          lane' = [lane EXCEPT !.granted = TRUE, !.last = opening.deadline,
                               !.first = opening.deadline],
          due' = opening.issued + Period, opening' = NoCall,
          opening.state = "answered", opening.accepted, pc = "opening",
          UNCHANGED <<drive, visit, authority, bound, fault, error,
                      renewal, closing, abandoned, ack, history>>
                 PROVE  OwnerInv'
    BY <1>1, <1>9 DEF TakeOpened
  <2>2. /\ opening.deadline \in Stamp /\ opening.issued \in Nat
        /\ due' \in Nat
    BY <2>1, OwnerAssumption, PermissionAssumption
       DEF OwnerInv, OwnerTypeOK, Call, Stamp
  <2>3. lane' \in Lane /\ lane'.drive_ack = lane.drive_ack
    BY <1>3, <2>1, <2>2 DEF Lane
  <2>4. OwnerTypeOK'
    BY <2>1, <2>2, <2>3, NothingType
       DEF OwnerInv, OwnerTypeOK, Waits, history, NoCall
  <2>5. Acknowledged' /\ OneCall' /\ Stamps' /\ LastGrant'
    BY <1>2, <2>1, <2>3 DEF OwnerInv, Acknowledged, OneCall, Stamps, LastGrant,
       history, NoCall
  <2>6. permission.issued = opening.issued /\ renewal.state = "none"
    BY <2>1 DEF OwnerInv, Periods, OneCall
  <2>7. Periods'
    BY <1>2, <2>1, <2>2, <2>6, OwnerAssumption, PermissionAssumption
       DEF OwnerInv, Periods, history
  <2> QED BY <1>0, <2>4, <2>5, <2>7 DEF OwnerInv
<1>10. CASE OwnerTick
  <2>1. SUFFICES ASSUME
          tick_error = "none", lane.granted, renewal.state # "sent",
          renewal' = NoCall, pc' = IF due <= now THEN "renewing" ELSE pc,
          UNCHANGED <<drive, visit, authority, bound, lane, due, fault,
                      error, opening, closing, abandoned, ack, history>>
                 PROVE  OwnerInv'
    BY <1>1, <1>10 DEF OwnerTick
  <2>2. authority # "lost" /\ pc \in {"driving", "renewing"}
    BY <2>1 DEF tick_error, OwnerInv, OneCall
  <2>3. OwnerTypeOK'
    BY <2>1, NothingType DEF OwnerInv, OwnerTypeOK, Waits, history, NoCall
  <2>4. pc' \in {"driving", "renewing"} /\ (pc' = "renewing" => due <= now)
    BY <2>1, <2>2, <1>10 DEF OwnerTick, Waits
  <2>5. Acknowledged' /\ OneCall' /\ Stamps' /\ Periods' /\ LastGrant'
    BY <1>2, <2>1, <2>2, <2>4 DEF OwnerInv, Acknowledged, OneCall, Stamps,
       Periods, LastGrant, history, NoCall
  <2> QED BY <1>0, <2>3, <2>5 DEF OwnerInv
<1>11. CASE SendRenewal
  <2>1. /\ renewal' \in Call /\ renewal'.state = "sent"
        /\ renewal'.issued = now /\ renewal'.visit = visit
    BY <1>3, <1>11, SendType DEF SendRenewal, OwnerInv
  <2>2. due' \in Nat /\ now + Lifetime \in Stamp /\ due' = now + Period
    BY <1>3, <1>11, OwnerAssumption, PermissionAssumption
       DEF SendRenewal, stampable, Stamp
  <2>3. lane' \in Lane /\ lane'.drive_ack = lane.drive_ack
    BY <1>3, <1>11, <2>2 DEF SendRenewal, Lane
  <2>4. OwnerTypeOK'
    BY <1>11, <2>1, <2>2, <2>3
       DEF SendRenewal, OwnerInv, OwnerTypeOK, Waits, history
  <2>5. pc = "renewing" /\ pc' = "driving" /\ opening.state = "none"
    BY <1>11 DEF SendRenewal, OwnerInv, OneCall
  <2>6. Acknowledged' /\ OneCall' /\ Stamps'
    BY <1>2, <1>3, <1>11, <2>1, <2>3, <2>5 DEF SendRenewal, OwnerInv,
       Acknowledged, OneCall, Stamps, history, Stamp
  <2>7. permission.issued + Period <= due /\ permission.issued \in Int /\ due <= now
    BY <2>5 DEF OwnerInv, Periods, IInv, TypeOK, Permission, Stamp
  <2>8. Periods'
    BY <1>2, <1>3, <1>11, <2>1, <2>2, <2>5, <2>7, OwnerAssumption,
       PermissionAssumption DEF SendRenewal, Periods, Stamp
  <2>9. LastGrant'
    <3>1. authority = "lost" => permission.issued + Period <= lost_at
      BY <1>3, <2>5, <2>7, OwnerAssumption, PermissionAssumption
         DEF OwnerInv, Periods, OwnerTypeOK, Stamp
    <3> QED BY <1>2, <1>11, <3>1 DEF SendRenewal, OwnerInv, LastGrant, history
  <2> QED BY <1>0, <2>4, <2>6, <2>8, <2>9 DEF OwnerInv
<1>12. CASE TakeAck
  <2>1. SUFFICES ASSUME
          ack # NoFact, ack_error = "none", ack' = NoFact,
          lane' \in {lane, [lane EXCEPT !.drive_ack = ack]},
          fault' \in {fault, TRUE},
          UNCHANGED <<drive, pc, visit, authority, bound, due, error, calls,
                      history>>
                 PROVE  OwnerInv'
    BY <1>1, <1>12 DEF TakeAck
  <2>2. ack.id = identity(visit)
    BY <2>1 DEF ack_error
  <2>3. visit \in acknowledged
    BY <2>1, <2>2, IdentityType DEF OwnerInv, OwnerTypeOK, Acknowledged
  <2>4. lane' \in Lane /\ lane'.granted = lane.granted
    BY <1>3, <2>1 DEF OwnerInv, OwnerTypeOK, Lane
  <2>5. OwnerTypeOK'
    BY <2>1, <2>4, NothingType DEF OwnerInv, OwnerTypeOK, calls, history
  <2>6. Acknowledged' /\ OneCall' /\ Stamps' /\ Periods' /\ LastGrant'
    BY <1>2, <2>1, <2>3, <2>4 DEF OwnerInv, Acknowledged, OneCall, Stamps,
       Periods, LastGrant, calls, history
  <2> QED BY <1>0, <2>5, <2>6 DEF OwnerInv
<1>13. CASE SendClose
  <2>1. /\ closing' \in Call /\ closing'.visit = visit
    BY <1>3, <1>13, SendType DEF SendClose, OwnerInv
  <2>2. /\ lane' \in Lane /\ lane'.drive_ack = lane.drive_ack
        /\ lane'.granted = FALSE
    BY <1>3, <1>13 DEF SendClose, Lane
  <2>3. OwnerTypeOK'
    BY <1>13, <2>1, <2>2 DEF SendClose, OwnerInv, OwnerTypeOK, Waits, history
  <2>4. Acknowledged' /\ OneCall' /\ Stamps' /\ Periods' /\ LastGrant'
    BY <1>2, <1>13, <2>2 DEF SendClose, OwnerInv, Acknowledged, OneCall, Stamps,
       Periods, LastGrant, history
  <2> QED BY <1>0, <2>3, <2>4 DEF OwnerInv
<1>14. CASE TakeClosed
  <2>1. SUFFICES ASSUME pc = "closing", pc' = "settling", closing' = NoCall,
                        UNCHANGED <<drive, visit, authority, bound, lane, due,
                                    fault, error, opening, renewal, abandoned,
                                    ack, history>>
                 PROVE  OwnerInv'
    BY <1>1, <1>14 DEF TakeClosed
  <2>2. OwnerTypeOK'
    BY <2>1, NothingType DEF OwnerInv, OwnerTypeOK, Waits, history, NoCall
  <2>3. Acknowledged' /\ OneCall' /\ Stamps' /\ Periods' /\ LastGrant'
    BY <1>2, <2>1 DEF OwnerInv, Acknowledged, OneCall, Stamps, Periods,
       LastGrant, history
  <2> QED BY <1>0, <2>2, <2>3 DEF OwnerInv
<1>15. CASE Settle
  <2>1. visit \in acknowledged /\ lane' = NoLane
    BY <1>15 DEF Settle, confirmed, OwnerInv, Acknowledged
  <2>2. lane'.granted = FALSE /\ lane'.drive_ack = NoFact
    BY <2>1 DEF NoLane
  <2>3. OwnerTypeOK'
    BY <1>15, <2>1, NothingType
       DEF Settle, OwnerInv, OwnerTypeOK, Waits, Visit, calls, history
  <2>4. Acknowledged'
    BY <1>2, <1>15, <2>1, <2>2
       DEF Settle, OwnerInv, OwnerTypeOK, Acknowledged, Visit
  <2>5. OneCall' /\ Stamps' /\ Periods' /\ LastGrant'
    BY <1>2, <1>15, <2>2 DEF Settle, OwnerInv, OneCall, Stamps, Periods,
       LastGrant, calls, history
  <2> QED BY <1>0, <2>3, <2>4, <2>5 DEF OwnerInv
<1>16. CASE Lose
  <2>1. authority' = "lost" /\ lost_at' = now /\ pc # "stopped"
    BY <1>16 DEF Lose, lose
  <2>2. OwnerTypeOK'
    BY <1>3, <1>16, <2>1 DEF Lose, OwnerInv, OwnerTypeOK, calls
  <2>3. Acknowledged' /\ OneCall' /\ Stamps'
    BY <1>2, <1>16 DEF Lose, OwnerInv, Acknowledged, OneCall, Stamps, calls
  <2>4. Periods'
    BY <1>2, <1>16, <2>1 DEF Lose, OwnerInv, Periods, calls
  <2>5. LastGrant'
    <3>1. permission.issued <= now /\ permission.issued \in Int
      BY DEF OwnerInv, Stamps, IInv, TypeOK, Permission, Stamp
    <3>2. permission.issued + Period <= now + Lifetime
      BY <1>3, <3>1, OwnerAssumption, PermissionAssumption DEF Stamp
    <3> QED BY <1>2, <1>16, <2>1, <3>2 DEF Lose, OwnerInv, LastGrant, Stamps, calls
  <2> QED BY <1>0, <2>2, <2>3, <2>4, <2>5 DEF OwnerInv
<1>17. CASE Crash
  <2>1. stop("crash") /\ abandoned' \in BOOLEAN
    BY <1>17 DEF Crash, OwnerInv, OwnerTypeOK
  <2> QED BY <1>17, <2>1, StopOwnerInv DEF Crash
<1>18. ASSUME ServeClose \/ ServeAbandoned \/ Native \/ Physics,
              closing' \in Call, closing'.state # "none" => closing'.visit \in Visit,
              abandoned' \in BOOLEAN, ack' \in Fact,
              ack' # NoFact => ack'.id.generation \in acknowledged'
       PROVE  OwnerInv'
  <2>1. /\ SameGrant /\ now <= now'
        /\ acknowledged \subseteq acknowledged'
    BY <1>3, <1>18, OtherGrant DEF OwnerInv, Stamp
  <2>2. UNCHANGED <<program, opening, renewal, history>>
    BY <1>18 DEF ServeClose, ServeAbandoned, Native, Physics, publish, calls
  <2>3. Unchanged(opening, opening') /\ Unchanged(renewal, renewal')
    BY <2>2 DEF Unchanged, OwnerInv, OwnerTypeOK
  <2> QED BY <1>0, <1>18, <2>1, <2>2, <2>3, KeepOwnerInv
<1>19. CASE ServeClose
  <2>1. /\ closing.state = "sent" /\ UNCHANGED <<abandoned, ack>>
        /\ \E b \in BOOLEAN : closing' = answer(closing, b)
    BY <1>19 DEF ServeClose, closes
  <2>2. permission'.deadline \in Stamp
    BY <1>0 DEF IInv, TypeOK, Permission
  <2>3. closing' \in Call /\ closing'.visit = closing.visit
    BY <2>1, <2>2 DEF answer, Call, OwnerInv, OwnerTypeOK
  <2>4. acknowledged \subseteq acknowledged'
    BY <1>19, OtherGrant DEF OwnerInv
  <2> QED BY <1>18, <1>19, <2>1, <2>3, <2>4 DEF OwnerInv, OwnerTypeOK, Acknowledged
<1>20. CASE ServeAbandoned \/ Native
  <2>1. UNCHANGED <<closing, ack>> /\ abandoned' \in BOOLEAN
    BY <1>20 DEF ServeAbandoned, Native, calls, OwnerInv, OwnerTypeOK
  <2>2. acknowledged \subseteq acknowledged'
    BY <1>20, OtherGrant DEF OwnerInv
  <2> QED BY <1>18, <1>20, <2>1, <2>2 DEF OwnerInv, OwnerTypeOK, Acknowledged
<1>21. CASE Physics
  <2>1. UNCHANGED calls /\ acknowledged \subseteq acknowledged'
    BY <1>21, OtherGrant DEF Physics, publish, OwnerInv
  <2>2. CASE ack' = ack
    BY <1>18, <1>21, <2>1, <2>2 DEF OwnerInv, OwnerTypeOK, Acknowledged, calls
  <2>3. CASE ack' # ack
    <3>1. /\ applied' /\ ~applied /\ current.generation # 0
          /\ ack' = [id |-> current, at |-> now, deadline |-> permission'.deadline,
                     reason |-> IF permission'.state = "fault"
                                  THEN "permission_expired" ELSE "normal_close"]
      BY <1>21, <2>3 DEF Physics, publish
    <3>2. current \in MotionPermitIdentity /\ permission'.deadline \in Stamp
      BY <1>0 DEF OwnerInv, IInv, TypeOK, Permission
    <3>3. ack' \in Fact /\ ack'.id = current
      BY <1>3, <3>1, <3>2 DEF Fact
    <3>4. current.generation \in acknowledged'
      <4>1. PICK failed \in SUBSET Wheel : BeginUpdate(failed) \/ WriteWheel(failed)
        BY <1>21 DEF Physics, Update
      <4>2. apply_zero(permission', failed)
        BY <3>1, <4>1 DEF BeginUpdate, WriteWheel
      <4> QED BY <3>1, <4>2, Zenon DEF apply_zero
    <3> QED BY <1>18, <1>21, <2>1, <3>3, <3>4 DEF OwnerInv, OwnerTypeOK, calls
  <2> QED BY <2>2, <2>3
<1>22. CASE Time
  <2>1. /\ UNCHANGED <<program, calls, ack, history, permission, acknowledged>>
        /\ now <= now'
    BY <1>3, <1>22 DEF Time, Tick, Stamp
  <2>2. /\ Unchanged(opening, opening') /\ Unchanged(renewal, renewal')
        /\ SameGrant
    BY <2>1 DEF Unchanged, SameGrant, calls, OwnerInv, OwnerTypeOK
  <2> QED BY <1>0, <2>1, <2>2, KeepOwnerInv
          DEF OwnerInv, OwnerTypeOK, Acknowledged, calls
<1>23. CASE UNCHANGED system
  <2>1. /\ UNCHANGED <<drive, program, calls, ack, history>>
        /\ UNCHANGED <<permission, acknowledged, now>>
    BY <1>2, <1>23 DEF system
  <2>2. /\ Unchanged(opening, opening') /\ Unchanged(renewal, renewal')
        /\ SameGrant /\ now <= now'
    BY <1>3, <2>1 DEF Unchanged, SameGrant, calls, OwnerInv, OwnerTypeOK, Stamp
  <2> QED BY <1>0, <2>1, <2>2, KeepOwnerInv
          DEF OwnerInv, OwnerTypeOK, Acknowledged, calls
<1>24. CASE GiveUp
  BY <1>1, <1>24 DEF GiveUp
<1>25. CASE ServeOpen
  BY <1>0, <1>25, ServeOpenInv
<1>26. CASE ServeRenewal
  BY <1>0, <1>26, ServeRenewalInv
<1> QED
  BY <1>4, <1>5, <1>6, <1>7, <1>8, <1>9, <1>10, <1>11, <1>12, <1>13, <1>14,
     <1>15, <1>16, <1>17, <1>19, <1>20, <1>21, <1>22, <1>23, <1>24, <1>25, <1>26
     DEF OwnerNext, Open, Close, Serve

-----------------------------------------------------------------------------
(* Theorems *)

\* The inductive invariant holds in every reachable state.
THEOREM OwnerInvariance == OwnerSpec => []OwnerInv
  BY InitOwnerInv, StepOwnerInv, PTL DEF OwnerSpec

\* A settled visit is at rest: its acknowledgement reached the owner, and a
\* generation that is acknowledged is sealed and applied, and stays so.
THEOREM SettlementIsAtRest == OwnerSpec => []SettledIsAtRest
<1>1. OwnerInv => SettledIsAtRest
  <2>1. SUFFICES ASSUME OwnerInv, NEW v \in Visit,
                        visit > v \/ (pc = "completed" /\ visit = v),
                        current.generation <= v
                 PROVE  sealed /\ applied /\ wheels = Still /\ v \in acknowledged
    BY DEF SettledIsAtRest
  <2>2. v \in acknowledged
    BY <2>1 DEF OwnerInv, Acknowledged
  <2>3. v = current.generation /\ sealed
    BY <2>1, <2>2 DEF OwnerInv, IInv, AcknowledgedIsOver, TypeOK,
       MotionPermitIdentity, Generation, Visit
  <2>4. applied
    BY <2>1, <2>2, <2>3 DEF OwnerInv, IInv, SealedIsQuiet
  <2> QED BY <2>1, <2>2, <2>3, <2>4 DEF OwnerInv, IInv, AppliedIsStopped
<1> QED BY <1>1, OwnerInvariance, PTL

\* Motion ends a lifetime after the last stamp: every write of a speed is checked
\* against the deadline, and the stamps of an owner that has stopped or has lost
\* its authority are bounded by the time it did.
THEOREM GrantsAreFinite == OwnerSpec => GrantsEnd
<1>1. ASSUME OwnerInv, [OwnerNext]_system, StartsMotion
      PROVE  /\ pc = "stopped" => now < stopped_at + Lifetime
             /\ authority = "lost" =>
                  \/ now < lost_at + 2 * Lifetime - Period
                  \/ lost_at < permission.opened
  <2>1. can_consume(checked_permission, current)
    BY <1>1, DriveStep, MotionIsPermitted DEF OwnerInv, is_write_permitted
  <2>2. checked.state = "active" /\ checked_permission = checked
    BY <1>1, <2>1 DEF OwnerInv, can_consume, checked_permission, checked
  <2>3. permission.state = "active" /\ now < permission.issued + Lifetime
    BY <1>1, <2>2, CheckedGrant DEF OwnerInv, Stamps
  <2>4. /\ now \in Int /\ permission.issued \in Int /\ stopped_at \in Int
        /\ lost_at \in Int /\ Lifetime \in Int /\ Period \in Int
    BY <1>1, OwnerAssumption, PermissionAssumption
       DEF OwnerInv, OwnerTypeOK, IInv, TypeOK, Permission, Stamp
  <2>5. ASSUME pc = "stopped" PROVE now < stopped_at + Lifetime
    BY <1>1, <2>3, <2>4, <2>5 DEF OwnerInv, Stamps
  <2>6. ASSUME authority = "lost", ~(lost_at < permission.opened)
        PROVE  now < lost_at + 2 * Lifetime - Period
    <3>1. permission.issued + Period <= lost_at + Lifetime
      BY <1>1, <2>3, <2>6 DEF OwnerInv, LastGrant
    <3> QED BY <2>3, <2>4, <3>1
  <2> QED BY <2>5, <2>6
<1> QED BY <1>1, OwnerInvariance, PTL DEF OwnerSpec, GrantsEnd

-----------------------------------------------------------------------------
(* What the owner may rely on while it runs *)

\* The drive knows operations of bound visits only, every deadline it granted is
\* a lifetime after a stamp, and a fault means that the deadline has passed.
Identified ==
  /\ current.generation = 0 => current = NoIdentity /\ permission.state = "boot"
  /\ current.generation # 0 =>
       /\ current.generation \in bound
       /\ current = identity(current.generation)
       /\ permission.state # "boot"
       /\ permission.deadline = permission.issued + Lifetime
  /\ permission.observed <= now
  /\ permission.state = "fault" => permission.deadline <= now
  /\ opening.state # "none" => opening.visit \in bound
  /\ renewal.state = "answered" /\ renewal.accepted =>
       renewal.deadline = renewal.issued + Lifetime

\* The drive before a visit is opened, and afterwards.
Unopened ==
  /\ current.generation = visit - 1
  /\ permission.state = (IF visit = 1 THEN "boot" ELSE "normal")
  /\ applied /\ ack = NoFact

Opened ==
  /\ current.generation = visit
  /\ permission.state = "normal" => lane.close_at \in 1..now

is_granted == opening.state = "answered" /\ opening.accepted

\* Where the drive is in each phase of the owner, and what a call that was
\* answered tells.
Phases ==
  pc # "stopped" =>
    /\ \/ pc \in {"idle", "draining", "bound"}
       \/ pc = "opening" /\ ~is_granted
       => Unopened
    /\ \/ pc \in {"driving", "renewing", "closing", "settling"}
       \/ pc = "opening" /\ is_granted
       => Opened
    /\ pc = "completed" =>
         /\ current.generation = visit /\ permission.state = "normal"
         /\ applied /\ ack = NoFact
    /\ pc \in {"bound", "opening"} => visit \in bound
    /\ opening.state # "none" =>
         /\ opening.visit = visit /\ opening.issued > 0
         /\ opening.issued + Lifetime <= LastStamp
    /\ opening.state = "answered" =>
         IF opening.accepted
           THEN opening.deadline = opening.issued + Lifetime
           ELSE opening.issued + Lifetime <= now
    /\ ~abandoned
    /\ pc # "closing" => closing.state = "none"
    /\ closing.state # "none" => closing.visit = visit
    /\ closing.state = "answered" => closing.accepted

\* What the lane of the owner says of the grant.
Lanes ==
  pc # "stopped" =>
    /\ pc \in {"idle", "draining", "completed"} => lane = NoLane
    /\ pc \in {"bound", "opening"} => lane = [NoLane EXCEPT !.open = TRUE]
    /\ pc \in {"driving", "renewing", "closing", "settling"} =>
         /\ lane.open /\ lane.first # 0
         /\ lane.first <= permission.deadline
         /\ permission.deadline <= lane.last
         /\ renewal.state = "sent" =>
              /\ renewal.visit = visit
              /\ permission.issued < renewal.issued
              /\ renewal.issued + Lifetime <= lane.last
    /\ pc \in {"driving", "renewing"} =>
         /\ lane.close_at = 0 /\ now > 0
         /\ renewal.state = "answered" =>
              IF renewal.accepted THEN permission.deadline = renewal.deadline
                                  ELSE permission.state = "fault"
    /\ pc \in {"closing", "settling"} => lane.close_at \in 1..now

\* The facts of the drive, on their way and taken.
Facts ==
  pc # "stopped" =>
    /\ ack # NoFact =>
         /\ current.generation = visit /\ ack.id = current /\ applied
         /\ ack.deadline = permission.deadline
         /\ IF permission.state = "fault"
              THEN ack.reason = "permission_expired" /\ ack.deadline <= ack.at
              ELSE ack.reason = "normal_close" /\ lane.close_at \in 1..ack.at
    /\ fault => permission.state = "fault" /\ ack = NoFact /\ applied
    /\ lane.drive_ack # NoFact =>
         permission.state = "normal" /\ ack = NoFact /\ applied

RunInv ==
  /\ Identified
  /\ Phases
  /\ Lanes
  /\ Facts

\* With a clock that does not step back only a lapse is a fault.
LEMMA CheckedRun ==
  ASSUME IInv, Identified
  PROVE  /\ checked.observed = now
         /\ checked.state = "fault" => checked.deadline <= now
         /\ permission.state # "active" => checked.state = permission.state
<1>1. permission \in Permission /\ now \in Int /\ permission.observed \in Int
  BY DEF IInv, TypeOK, Permission, Stamp
<1>2. ~(now < permission.observed)
  BY <1>1 DEF Identified
<1> QED BY <1>1, <1>2 DEF checked, observe_time, Permission, Identified

\* The calls that grant nothing, and an update: a permission that is over stays
\* as it is, a normal end comes from a close, and zero stays applied.
LEMMA OtherRun ==
  ASSUME OwnerInv, Identified,
         ServeClose \/ ServeAbandoned \/ Native \/ Physics
  PROVE  /\ permission'.observed = now
         /\ permission'.state = "fault" => permission'.deadline <= now
         /\ permission.state # "active" => permission'.state = permission.state
         /\ permission'.state = "normal" =>
              permission.state = "normal" \/ ServeClose \/ ServeAbandoned
         /\ permission'.state = "boot" => permission.state = "boot"
         /\ applied => applied'
<1>0. /\ mode = "permission" /\ checked \in Permission
      /\ applied => sealed
      /\ checked.state \in {permission.state, "fault"}
      /\ permission.state \in {"boot", "active", "normal", "fault"}
  BY CheckedGrant DEF OwnerInv, IInv, AppliedIsStopped, TypeOK, Permission
<1>1. ASSUME NEW id, close_permit(id)
      PROVE  /\ permission'.observed = now
             /\ permission'.state = "fault" => permission'.deadline <= now
             /\ permission.state # "active" => permission'.state = permission.state
             /\ permission'.state = "boot" => permission.state = "boot"
             /\ applied => applied'
  <2>1. /\ permission' \in {checked, [checked EXCEPT !.state = "normal"]}
        /\ checked.state # "active" => permission' = checked
    BY <1>1 DEF close_permit, close, checked
  <2>2. applied => applied'
    BY <1>0, <1>1 DEF close_permit, sync_permission, seal
  <2> QED BY <1>0, <2>1, <2>2, CheckedRun DEF Permission, OwnerInv
<1>2. CASE ServeClose \/ ServeAbandoned
  BY <1>1, <1>2 DEF ServeClose, ServeAbandoned
<1>3. CASE Native
  <2>1. PICK v \in bound, twist \in {"zero", "moving"} :
          permitted_command(identity(v), twist)
    BY <1>3 DEF Native
  <2>2. permission' = checked
    BY <2>1 DEF permitted_command, checked
  <2>3. applied => applied'
    BY <1>0, <2>1 DEF permitted_command, sync_permission, seal
  <2> QED BY <1>0, <2>2, <2>3, CheckedRun DEF OwnerInv
<1>4. CASE Physics
  <2>1. PICK failed \in SUBSET Wheel : BeginUpdate(failed) \/ WriteWheel(failed)
    BY <1>4 DEF Physics, Update
  <2>2. permission' = checked
    BY <1>0, <2>1 DEF BeginUpdate, WriteWheel, checked_permission, checked
  <2>3. applied => applied'
    BY <1>0, <2>1, Zenon DEF BeginUpdate, WriteWheel, apply_zero
  <2> QED BY <1>0, <2>2, <2>3, CheckedRun DEF OwnerInv
<1> QED BY <1>2, <1>3, <1>4

\* It holds when the owner starts.
LEMMA InitRunInv == OwnerInit => RunInv
<1> SUFFICES ASSUME OwnerInit PROVE RunInv
  OBVIOUS
<1>1. Identified
  BY DEF OwnerInit, Identified, initial_permission, NoIdentity, NoCall
<1>2. Phases
  BY DEF OwnerInit, Phases, Unopened, initial_permission, NoIdentity, NoCall,
     is_granted
<1>3. Lanes /\ Facts
  BY DEF OwnerInit, Lanes, Facts, NoLane
<1> QED BY <1>1, <1>2, <1>3 DEF RunInv

\* An owner that has stopped only needs to know what the drive answered.
LEMMA StoppedRunInv ==
  ASSUME Identified', pc' = "stopped"
  PROVE  RunInv'
  BY DEF RunInv, Phases, Lanes, Facts

\* A step that leaves the program and the grant alone: a permission that is over
\* stays as it is, and only a close gives it a normal end.
Quiet ==
  /\ UNCHANGED <<program, history, current>> /\ SameGrant
  /\ now <= now' /\ permission'.observed <= now'
  /\ permission'.state = "fault" => permission'.deadline <= now'
  /\ permission.state # "active" => permission'.state = permission.state
  /\ permission'.state = "normal" =>
       permission.state = "normal" \/ pc \in {"closing", "stopped"}
  /\ permission'.state = "boot" => permission.state = "boot"
  /\ applied =>
       applied' /\ ack' = ack

\* A call as it was, or answered.
Answered(call, next) ==
  \/ next = call
  \/ /\ call.state = "sent" /\ next.state = "answered"
     /\ next.visit = call.visit /\ next.issued = call.issued

\* Such a step, which may answer calls, but refuses only what is too late.
LEMMA QuietRun ==
  ASSUME OwnerInv, RunInv, OwnerInv', Quiet,
         Answered(opening, opening'), Answered(renewal, renewal'),
         Answered(closing, closing'),
         pc # "stopped" =>
           /\ ~abandoned'
           /\ opening' # opening =>
                ~opening'.accepted /\ opening.issued + Lifetime <= now
           /\ renewal' # renewal =>
                /\ ~renewal'.accepted
                /\ pc \in {"driving", "renewing"} => permission'.state = "fault"
           /\ closing' # closing => closing'.accepted,
         pc = "stopped" =>
           (renewal' # renewal => ~renewal'.accepted)
  PROVE  Identified' /\ Phases' /\ Lanes'
<1>0. /\ now \in Int /\ now' \in Int /\ Lifetime \in Int
      /\ permission.observed \in Int /\ permission.deadline \in Int
      /\ opening.issued \in Int /\ opening \in Call /\ renewal \in Call
      /\ lane.close_at \in Int
  <2>1. permission \in Permission /\ opening \in Call /\ renewal \in Call
        /\ lane \in Lane /\ now \in Stamp
    BY DEF OwnerInv, OwnerTypeOK, IInv, TypeOK
  <2>2. now' \in Int
    BY DEF OwnerInv, IInv, TypeOK, Stamp
  <2> QED BY <2>1, <2>2, PermissionAssumption
          DEF Stamp, Permission, Call, Lane
<1>1. Identified'
  <2>1. (renewal'.state = "answered" /\ renewal'.accepted) =>
           renewal' = renewal
    BY DEF Answered
  <2>2. /\ (opening'.state # "none") => (opening.state # "none")
        /\ opening'.visit = opening.visit
    BY DEF Answered
  <2>3. \A v \in Visit : identity(v)' = identity(v)
    BY DEF identity
  <2> QED BY <1>0, <2>1, <2>2, <2>3
          DEF RunInv, Identified, Quiet, SameGrant, program, identity
<1>2. Phases'
  <2>1. SUFFICES ASSUME pc # "stopped" PROVE Phases'
    BY DEF Phases, Quiet, program
  <2>2. Unopened => Unopened'
    BY DEF Unopened, Quiet, program
  <2>3. Opened /\ Lanes => Opened'
    BY <1>0, <2>1 DEF Opened, Lanes, Quiet, program
  <2>4. is_granted' <=> is_granted
    BY <2>1 DEF is_granted, Answered
  <2> QED BY <1>0, <2>1, <2>2, <2>3, <2>4
          DEF RunInv, Phases, Quiet, program, Answered
<1>3. Lanes'
  BY <1>0 DEF RunInv, Lanes, Quiet, SameGrant, program, Answered
<1> QED BY <1>1, <1>2, <1>3

\* A fact is published of a drive that is sealed, and stays true of it.
LEMMA QuietFacts ==
  ASSUME OwnerInv, RunInv, Quiet, ack' = ack
  PROVE  Facts'
<1>1. applied => permission'.state = permission.state
  BY DEF OwnerInv, IInv, AppliedIsStopped, PermissionAgrees, Quiet
<1>2. permission.state = "fault" => permission'.state = "fault"
  BY DEF Quiet
<1> QED BY <1>1, <1>2 DEF RunInv, Facts, Quiet, SameGrant, program

\* An opening that is not too late is granted: the drive waits for the visit.
LEMMA ServeOpenRun ==
  ASSUME OwnerInv, RunInv, OwnerInv', ServeOpen
  PROVE  RunInv'
<1>0. /\ UNCHANGED <<program, renewal, closing, abandoned, ack, history>>
      /\ opening.state = "sent" /\ opening \in Call /\ opening.visit \in Visit
      /\ now' = now
  BY ServeOpenGrant DEF ServeOpen, OwnerInv, OwnerTypeOK
<1>1. /\ opening'.state = "answered" /\ opening'.visit = opening.visit
      /\ opening'.issued = opening.issued
      /\ opening'.deadline = permission'.deadline
      /\ opening'.accepted \in BOOLEAN
  <2>1. opening' \in Call
    BY DEF OwnerInv, OwnerTypeOK
  <2>2. /\ opening' = [opening EXCEPT !.state = "answered",
                          !.accepted = opening'.accepted,
                          !.deadline = permission'.deadline]
        /\ opening'.accepted \in BOOLEAN
    BY ServeOpenGrant DEF OwnerInv
  <2> QED BY <1>0, <2>2 DEF Call
<1>2. CASE ~opening'.accepted
  <2>1. /\ ~opens(checked, identity(opening.visit), opening.visit - 1,
                  opening.issued, now, applied)
        /\ permission' = checked /\ SameGrant
        /\ current' = current /\ (applied => applied')
    BY <1>2, ServeOpenGrant DEF OwnerInv
  <2>2. Quiet
    BY <1>0, <2>1, CheckedRun, CheckedGrant
       DEF Quiet, RunInv, OwnerInv, IInv, TypeOK, Stamp
  <2>3. ASSUME pc # "stopped"
        PROVE  opening.issued + Lifetime <= now
    <3>1. pc = "opening" /\ Unopened /\ opening.visit = visit
          /\ 0 < opening.issued /\ opening.issued + Lifetime <= LastStamp
          /\ opening.issued <= now
      BY <1>0, <2>3 DEF OwnerInv, OneCall, RunInv, Phases, is_granted, Stamps
    <3>2. checked.state \in {"boot", "normal"} /\ applied
      BY <3>1, CheckedRun DEF Unopened, OwnerInv, RunInv
    <3>3. /\ checked.identity = current /\ current.generation = visit - 1
          /\ (visit - 1 = 0 => current = NoIdentity)
          /\ (visit - 1 # 0 => current = identity(visit - 1))
      BY <3>1, CheckedGrant
         DEF Unopened, OwnerInv, IInv, PermissionAgrees, RunInv, Identified
    <3>4. valid_identity(identity(visit)) /\ ScopeOf[visit] \in Scope
      BY <1>0, <3>1, IdentityType DEF valid_identity, identity, Visit
    <3>5. /\ identity(visit).scope # checked.identity.scope
          /\ identity(visit).operation_id # checked.identity.operation_id
      <4>1. CASE visit = 1
        BY <3>3, <3>4, <4>1, PermissionAssumption DEF NoIdentity, identity
      <4>2. CASE visit = 2
        BY <3>3, <4>2, OwnerAssumption DEF identity
      <4> QED BY <1>0, <3>1, <4>1, <4>2 DEF Visit
    <3>6. ~valid_stamp(opening.issued, now)
      <4>1. /\ visit - 1 # LastGeneration
            /\ identity(visit).generation = (visit - 1) + 1
        BY <1>0, <3>1, OwnerAssumption, PermissionAssumption DEF identity, Visit
      <4> QED BY <2>1, <3>1, <3>2, <3>3, <3>4, <3>5, <4>1 DEF opens
    <3>7. now \in Int /\ opening.issued \in Int /\ LastStamp \in Int
          /\ Lifetime \in Int
      BY <1>0, PermissionAssumption DEF OwnerInv, IInv, TypeOK, Stamp, Call
    <3> QED BY <3>1, <3>6, <3>7 DEF valid_stamp
  <2>4. Answered(opening, opening') /\ Answered(renewal, renewal')
        /\ Answered(closing, closing')
    BY <1>0, <1>1 DEF Answered
  <2>5. pc # "stopped" => ~abandoned'
    BY <1>0 DEF RunInv, Phases
  <2> QED BY <1>0, <1>2, <2>2, <2>3, <2>4, <2>5, QuietRun, QuietFacts DEF RunInv
<1>3. CASE opening'.accepted
  <2> DEFINE v == opening.visit
  <2>1. /\ opens(checked, identity(v), v - 1, opening.issued, now, applied)
        /\ permission' = [checked EXCEPT
             !.state = "active", !.identity = identity(v),
             !.opened = opening.issued, !.issued = opening.issued,
             !.deadline = opening.issued + Lifetime]
        /\ current' = identity(v)
    BY <1>3, ServeOpenGrant DEF OwnerInv
  <2>2. checked \in Permission /\ checked.observed = now
    BY CheckedGrant, CheckedRun DEF OwnerInv, RunInv
  <2>3. /\ permission'.state = "active" /\ permission'.observed = now
        /\ permission'.issued = opening.issued
        /\ permission'.deadline = opening.issued + Lifetime
    BY <2>1, <2>2 DEF Permission
  <2>4. now \in Int /\ permission.deadline \in Int
    BY DEF OwnerInv, IInv, TypeOK, Stamp, Permission
  <2>5. v \in bound /\ v # 0 /\ identity(v).generation = v
        /\ identity(v)' = identity(v)
    BY <1>0, <1>1 DEF RunInv, Identified, Visit, identity
  <2>6. Identified'
    BY <1>0, <1>1, <2>1, <2>3, <2>4, <2>5
       DEF RunInv, Identified, program, identity
  <2>7. CASE pc = "stopped"
    BY <1>0, <2>6, <2>7, StoppedRunInv DEF program
  <2>8. CASE pc # "stopped"
    <3>1. pc = "opening" /\ v = visit
      BY <1>0, <2>8 DEF OwnerInv, OneCall, RunInv, Phases
    <3>2. Phases'
      BY <1>0, <1>1, <1>3, <2>1, <2>3, <2>5, <3>1
         DEF RunInv, Phases, Opened, is_granted, program
    <3>3. Lanes'
      BY <1>0, <3>1 DEF RunInv, Lanes, program
    <3>4. Facts'
      <4>1. ack = NoFact
        BY <1>0, <3>1 DEF RunInv, Phases, Unopened, is_granted
      <4>2. lane = [NoLane EXCEPT !.open = TRUE]
        BY <3>1 DEF RunInv, Lanes
      <4>3. lane.drive_ack = NoFact
        BY <4>2 DEF NoLane
      <4>4. ~fault
        <5>1. permission.state # "fault"
          BY <1>0, <3>1 DEF RunInv, Phases, Unopened, is_granted
        <5> QED BY <3>1, <5>1 DEF RunInv, Facts
      <4> QED BY <1>0, <4>1, <4>3, <4>4 DEF Facts, program
    <3> QED BY <2>6, <3>2, <3>3, <3>4 DEF RunInv
  <2> QED BY <2>7, <2>8
<1> QED BY <1>1, <1>2, <1>3

\* While a visit is driven a renewal is refused only by a drive that has lapsed;
\* the one that was in flight when the scope was closed may be refused as well.
LEMMA ServeRenewalRun ==
  ASSUME OwnerInv, RunInv, OwnerInv', ServeRenewal
  PROVE  RunInv'
<1>0. /\ UNCHANGED <<program, opening, closing, abandoned, ack, history>>
      /\ renewal.state = "sent" /\ renewal \in Call /\ renewal.visit \in Visit
      /\ now' = now /\ current' = current
  BY ServeRenewalGrant DEF ServeRenewal, OwnerInv, OwnerTypeOK
<1>1. /\ renewal'.state = "answered" /\ renewal'.visit = renewal.visit
      /\ renewal'.issued = renewal.issued
      /\ renewal'.deadline = permission'.deadline
      /\ renewal'.accepted \in BOOLEAN
  <2>1. /\ renewal' = [renewal EXCEPT !.state = "answered",
                          !.accepted = renewal'.accepted,
                          !.deadline = permission'.deadline]
        /\ renewal'.accepted \in BOOLEAN
    BY ServeRenewalGrant DEF OwnerInv
  <2> QED BY <1>0, <2>1 DEF Call
<1>2. /\ now \in Int /\ renewal.issued \in Int /\ LastStamp \in Int
      /\ Lifetime \in Int /\ permission.issued \in Int /\ 0 <= permission.issued
      /\ lane.last \in Int /\ lane.last <= LastStamp /\ lane.first \in Int
  <2>1. permission \in Permission /\ lane \in Lane /\ now \in Stamp
    BY DEF OwnerInv, OwnerTypeOK, IInv, TypeOK
  <2> QED BY <1>0, <2>1, PermissionAssumption DEF Stamp, Permission, Call, Lane
<1>3. CASE ~renewal'.accepted
  <2>1. /\ ~renews(checked, identity(renewal.visit), renewal.issued, now)
        /\ permission' = checked /\ SameGrant /\ (applied => applied')
    BY <1>3, ServeRenewalGrant DEF OwnerInv
  <2>2. Quiet
    BY <1>0, <2>1, CheckedRun, CheckedGrant
       DEF Quiet, RunInv, OwnerInv, IInv, TypeOK, Stamp
  <2>3. ASSUME pc \in {"driving", "renewing"}
        PROVE  permission'.state = "fault"
    <3>1. SUFFICES ASSUME checked.state # "fault" PROVE FALSE
      BY <2>1
    <3>2. /\ Opened /\ lane.close_at = 0 /\ renewal.visit = visit
          /\ permission.issued < renewal.issued
          /\ renewal.issued + Lifetime <= lane.last
          /\ renewal.issued <= now
      BY <1>0, <2>3 DEF OwnerInv, Stamps, RunInv, Phases, Lanes
    <3>3. permission.state = "active" /\ checked.state = "active"
      BY <3>1, <3>2, CheckedGrant DEF Opened, RunInv, Identified, OwnerInv,
         OwnerTypeOK, IInv, TypeOK, Permission, Visit
    <3>4. checked.identity = identity(renewal.visit)
      BY <3>2, CheckedGrant DEF Opened, RunInv, Identified, OwnerInv, IInv,
         OwnerTypeOK, PermissionAgrees, Visit
    <3>5. checked.issued = permission.issued /\ now < permission.issued + Lifetime
      BY <3>3, CheckedGrant DEF OwnerInv, Stamps
    <3> QED BY <1>2, <2>1, <3>2, <3>3, <3>4, <3>5 DEF renews, valid_stamp
  <2>4. Answered(opening, opening') /\ Answered(renewal, renewal')
        /\ Answered(closing, closing')
    BY <1>0, <1>1 DEF Answered
  <2>5. pc # "stopped" => ~abandoned'
    BY <1>0 DEF RunInv, Phases
  <2> QED BY <1>0, <1>3, <2>2, <2>3, <2>4, <2>5, QuietRun, QuietFacts DEF RunInv
<1>4. CASE renewal'.accepted
  <2>1. /\ renews(checked, identity(renewal.visit), renewal.issued, now)
        /\ permission' = [checked EXCEPT !.issued = renewal.issued,
                                         !.deadline = renewal.issued + Lifetime]
    BY <1>4, ServeRenewalGrant DEF OwnerInv
  <2>2. checked \in Permission /\ checked.observed = now
        /\ checked.state = "active" /\ permission.state = "active"
        /\ permission.issued < renewal.issued
    BY <2>1, CheckedGrant, CheckedRun DEF OwnerInv, RunInv, renews
  <2>3. /\ permission'.state = "active" /\ permission'.observed = now
        /\ permission'.issued = renewal.issued
        /\ permission'.deadline = renewal.issued + Lifetime
    BY <2>1, <2>2 DEF Permission
  <2>4. permission.deadline = permission.issued + Lifetime
    BY <2>2 DEF OwnerInv, Stamps
  <2>5. current.generation # 0
    BY <2>2 DEF RunInv, Identified
  <2>6. Identified'
    BY <1>0, <1>1, <1>2, <2>2, <2>3, <2>5
       DEF RunInv, Identified, program, identity
  <2>7. CASE pc = "stopped"
    BY <1>0, <2>6, <2>7, StoppedRunInv DEF program
  <2>8. CASE pc # "stopped"
    <3>1. ~Unopened /\ pc # "completed"
      BY <2>2, <2>8 DEF RunInv, Phases, Unopened, OwnerInv, OwnerTypeOK, Visit
    <3>2. Opened => Opened'
      BY <1>0, <2>2, <2>3 DEF Opened, program
    <3>3. Phases'
      BY <1>0, <2>3, <2>8, <3>1, <3>2 DEF RunInv, Phases, is_granted, program
    <3>4. Lanes'
      BY <1>0, <1>1, <1>2, <1>4, <2>2, <2>3, <2>4, <2>8
         DEF RunInv, Lanes, program
    <3>5. Facts'
      <4>1. ~applied
        BY <2>2 DEF OwnerInv, IInv, AppliedIsStopped, PermissionAgrees
      <4>2. ack = NoFact /\ ~fault /\ lane.drive_ack = NoFact
        BY <2>8, <4>1 DEF RunInv, Facts
      <4> QED BY <1>0, <4>2 DEF Facts, program
    <3> QED BY <2>6, <3>3, <3>4, <3>5 DEF RunInv
  <2> QED BY <2>7, <2>8
<1> QED BY <1>1, <1>3, <1>4

\* A close is answered, a command is taken, or an update begins or goes on; what
\* the update publishes is the fact of the drive it leaves.
LEMMA OtherServeRun ==
  ASSUME OwnerInv, RunInv, OwnerInv',
         ServeClose \/ ServeAbandoned \/ Native \/ Physics
  PROVE  RunInv'
<1>0. /\ UNCHANGED <<program, opening, renewal, history>>
      /\ SameGrant /\ current' = current /\ now' = now /\ now \in Int
  <2>1. now \in Int
    BY DEF OwnerInv, IInv, TypeOK, Stamp
  <2> QED BY <2>1, OtherGrant DEF OwnerInv, ServeClose, ServeAbandoned, Native,
             Physics, publish, calls
<1>1. /\ permission'.observed = now
      /\ permission'.state = "fault" => permission'.deadline <= now
      /\ permission.state # "active" => permission'.state = permission.state
      /\ permission'.state = "normal" =>
           permission.state = "normal" \/ ServeClose \/ ServeAbandoned
      /\ applied => applied'
  BY OtherRun DEF RunInv
<1>2. /\ ServeClose => pc \in {"closing", "stopped"}
      /\ ServeAbandoned => pc = "stopped"
  BY DEF ServeClose, ServeAbandoned, RunInv, Phases
<1>3. permission'.state = "boot" => permission.state = "boot"
  BY OtherRun DEF RunInv
<1>4. applied => ack' = ack
  BY DEF ServeClose, ServeAbandoned, Native, Physics, publish
<1>5. Quiet
  BY <1>0, <1>1, <1>2, <1>3, <1>4 DEF Quiet, program, history
<1>6. Answered(closing, closing')
      /\ (pc # "stopped" /\ closing' # closing => closing'.accepted)
  <2>1. CASE ServeClose
    <3>1. closing \in Call /\ closing.state = "sent" /\ closing.visit \in Visit
      BY <2>1 DEF ServeClose, OwnerInv, OwnerTypeOK
    <3>2. closes(checked, identity(closing.visit)) \in BOOLEAN
      BY DEF closes
    <3>3. /\ closing'.state = "answered" /\ closing'.visit = closing.visit
          /\ closing'.issued = closing.issued
          /\ closing'.accepted = closes(checked, identity(closing.visit))
      BY <2>1, <3>1, <3>2 DEF ServeClose, answer, Call
    <3>4. pc # "stopped" => closes(checked, identity(closing.visit))
      <4>1. SUFFICES ASSUME pc # "stopped"
                     PROVE  closes(checked, identity(closing.visit))
        OBVIOUS
      <4>2. Opened /\ closing.visit = visit
        BY <1>2, <2>1, <3>1, <4>1 DEF RunInv, Phases
      <4>3. checked.identity = identity(visit) /\ visit # 0
        BY <4>2, CheckedGrant DEF Opened, RunInv, Identified, OwnerInv, IInv,
           OwnerTypeOK, PermissionAgrees, Visit
      <4> QED BY <3>1, <4>2, <4>3, IdentityType DEF closes
    <3> QED BY <3>1, <3>3, <3>4 DEF Answered
  <2>2. CASE ServeAbandoned \/ Native \/ Physics
    BY <2>2 DEF ServeAbandoned, Native, Physics, publish, calls, Answered
  <2> QED BY <2>1, <2>2
<1>7. pc # "stopped" => ~abandoned'
  BY DEF ServeClose, ServeAbandoned, Native, Physics, publish, calls, RunInv,
     Phases
<1>8. Identified' /\ Phases' /\ Lanes'
  BY <1>0, <1>5, <1>6, <1>7, QuietRun DEF Answered
<1>9. CASE ack' = ack
  BY <1>5, <1>8, <1>9, QuietFacts DEF RunInv
<1>10. CASE ack' # ack
  <2>1. /\ Physics /\ applied' /\ ~applied /\ current.generation # 0
        /\ ack' = [id |-> current, at |-> now, deadline |-> permission'.deadline,
                   reason |-> IF permission'.state = "fault"
                                THEN "permission_expired" ELSE "normal_close"]
    BY <1>10 DEF ServeClose, ServeAbandoned, Native, Physics, publish
  <2>2. SUFFICES ASSUME pc # "stopped" PROVE Facts'
    BY <1>0, <1>8 DEF Facts, RunInv, program
  <2>3. Opened
    BY <2>1, <2>2 DEF RunInv, Phases, Unopened, is_granted, OwnerInv,
       OwnerTypeOK, Waits
  <2>4. permission'.state # "fault" => lane.close_at \in 1..now
    <3>1. permission'.state # "active"
      BY <2>1 DEF OwnerInv, IInv, AppliedIsStopped, PermissionAgrees
    <3>2. permission'.state # "boot" /\ permission'.state
             \in {"boot", "active", "normal", "fault"}
      BY <1>3, <2>1 DEF RunInv, Identified, OwnerInv, IInv, TypeOK, Permission
    <3>3. ASSUME permission'.state = "normal" PROVE permission.state = "normal"
      BY <1>1, <1>10, <2>1, <3>3 DEF ServeClose, ServeAbandoned
    <3> QED BY <2>3, <3>1, <3>2, <3>3 DEF Opened
  <2>5. fault = FALSE /\ lane.drive_ack = NoFact
    BY <2>1, <2>2 DEF RunInv, Facts, OwnerInv, OwnerTypeOK
  <2> QED BY <1>0, <1>1, <2>1, <2>3, <2>4, <2>5 DEF Facts, Opened, program
<1> QED BY <1>9, <1>10

\* Time passes.
LEMMA TimeRun ==
  ASSUME OwnerInv, RunInv, OwnerInv', Time
  PROVE  RunInv'
<1>0. /\ UNCHANGED <<program, calls, ack, history, permission, applied, current>>
      /\ now' = now + 1 /\ now \in Int
  BY DEF Time, Tick, OwnerInv, IInv, TypeOK, Stamp
<1>1. permission.observed \in Int /\ permission.deadline \in Int
  BY DEF OwnerInv, IInv, TypeOK, Stamp, Permission
<1>2. Quiet
  BY <1>0, <1>1 DEF Quiet, SameGrant, RunInv, Identified
<1>3. pc # "stopped" => ~abandoned'
  BY <1>0 DEF RunInv, Phases, calls
<1> QED BY <1>0, <1>2, <1>3, QuietRun, QuietFacts DEF RunInv, Answered, calls

\* The owner stops.
LEMMA StopRun ==
  ASSUME RunInv, NEW reason, stop(reason)
  PROVE  RunInv'
<1>1. /\ UNCHANGED <<permission, current, now, bound, opening, renewal>>
      /\ pc' = "stopped"
  BY DEF stop, drive, vars
<1>2. Identified'
  BY <1>1 DEF RunInv, Identified, identity
<1> QED BY <1>1, <1>2, StoppedRunInv


\* The steps that open a visit.
LEMMA OpenRun ==
  ASSUME OwnerInv, RunInv, Open
  PROVE  RunInv'
<1>0. now \in Int /\ permission \in Permission /\ Lifetime \in Int
      /\ renewal \in Call /\ opening \in Call /\ visit \in Visit
  BY PermissionAssumption DEF OwnerInv, OwnerTypeOK, IInv, TypeOK, Stamp
<1>1. CASE \E reason : abort(reason)
  BY <1>1, StopRun DEF abort
<1>2. CASE Admit
  <2>1. /\ UNCHANGED <<permission, applied, current, now, ack, visit, bound,
                       lane, fault, calls>>
        /\ pc = "idle" /\ pc' = "draining"
    BY <1>2 DEF Admit, drive, vars
  <2> QED BY <2>1 DEF RunInv, Identified, Phases, Lanes, Facts, Unopened,
             identity, calls, is_granted
<1>3. CASE TakeClosedRenewal /\ ~\E reason : abort(reason)
  <2>1. /\ UNCHANGED <<permission, applied, current, now, ack, program, opening,
                       closing, abandoned>>
        /\ renewal' = NoCall /\ pc = "draining"
    BY <1>3 DEF TakeClosedRenewal, drive, vars
  <2> QED BY <2>1 DEF RunInv, Identified, Phases, Lanes, Facts, Unopened,
             identity, program, is_granted, NoCall
<1>4. CASE Bind /\ ~\E reason : abort(reason)
  <2>1. /\ UNCHANGED <<permission, applied, current, now, ack, visit, fault,
                       calls>>
        /\ pc = "draining" /\ pc' = "bound" /\ bound' = bound \cup {visit}
        /\ lane' = [NoLane EXCEPT !.open = TRUE]
    BY <1>4 DEF Bind, drive, vars
  <2>2. lane'.drive_ack = NoFact
    BY <2>1 DEF NoLane
  <2> QED BY <2>1, <2>2 DEF RunInv, Identified, Phases, Lanes, Facts, Unopened,
             identity, calls, is_granted
<1>5. CASE CheckOpening /\ ~\E reason : abort(reason)
  <2>1. /\ UNCHANGED <<permission, applied, current, now, ack, visit, bound,
                       lane, fault, calls>>
        /\ pc = "bound" /\ pc' = "opening"
    BY <1>5 DEF CheckOpening, drive, vars
  <2>2. opening.state = "none"
    BY <2>1 DEF OwnerInv, OneCall
  <2> QED BY <2>1, <2>2 DEF RunInv, Identified, Phases, Lanes, Facts, Unopened,
             identity, calls, is_granted
<1>6. CASE SendOpen
  <2>1. /\ UNCHANGED <<permission, applied, current, now, ack, program, renewal,
                       closing, abandoned>>
        /\ pc = "opening" /\ opening.state = "none" /\ opening' = send
        /\ 0 < now /\ now + Lifetime <= LastStamp
    BY <1>0, <1>6 DEF SendOpen, drive, vars, stampable
  <2>2. /\ send.state = "sent" /\ send.issued = now /\ send.visit = visit
    BY SendType DEF OwnerInv, IInv, TypeOK
  <2> QED BY <2>1, <2>2 DEF RunInv, Identified, Phases, Lanes, Facts, Unopened,
             identity, program, is_granted
<1>7. CASE TakeOpened /\ ~\E reason : abort(reason)
  <2>1. /\ UNCHANGED <<permission, applied, current, now, ack, visit, bound,
                       fault, renewal, closing, abandoned>>
        /\ pc = "opening" /\ pc' = "driving" /\ is_granted
        /\ opening.deadline = opening.issued + Lifetime /\ now < opening.deadline
        /\ lane' = [lane EXCEPT !.granted = TRUE, !.last = opening.deadline,
                                !.first = opening.deadline]
        /\ opening' = NoCall
    BY <1>7 DEF TakeOpened, drive, vars, is_granted
  <2>2. lane = [NoLane EXCEPT !.open = TRUE]
    BY <2>1 DEF RunInv, Lanes
  <2>3. /\ lane'.open /\ lane'.first = opening.deadline
        /\ lane'.last = opening.deadline /\ lane'.close_at = 0
        /\ lane'.drive_ack = NoFact
    BY <2>1, <2>2 DEF NoLane
  <2>4. Opened /\ lane.close_at = 0
    BY <2>1, <2>2 DEF RunInv, Phases, is_granted, NoLane
  <2>5. renewal.state = "none"
    BY <2>1 DEF OwnerInv, OneCall
  <2>6. /\ permission.issued = opening.issued
        /\ permission.deadline = opening.deadline
    BY <2>1, <2>4 DEF OwnerInv, Periods, is_granted, RunInv, Identified, Opened,
       Visit, OwnerTypeOK
  <2>7. opening.deadline # 0 /\ 0 < now
    BY <1>0, <2>1 DEF OwnerInv, Stamps, RunInv, Phases, is_granted, Call, Stamp
  <2>8. Identified' /\ Phases'
    BY <2>1, <2>3, <2>4 DEF RunInv, Identified, Phases, Opened, identity,
       is_granted, NoCall
  <2>9. Lanes'
    BY <1>0, <2>1, <2>3, <2>5, <2>6, <2>7 DEF RunInv, Lanes, Permission, Stamp
  <2>10. Facts'
    BY <2>1, <2>3, <2>4 DEF RunInv, Facts, Opened
  <2> QED BY <2>8, <2>9, <2>10 DEF RunInv
<1> QED BY <1>1, <1>2, <1>3, <1>4, <1>5, <1>6, <1>7 DEF Open

\* The steps of a wait.
LEMMA WaitRun ==
  ASSUME OwnerInv, RunInv, OwnerTick \/ SendRenewal \/ TakeAck
  PROVE  RunInv'
<1>0. now \in Int /\ permission \in Permission /\ Lifetime \in Int
      /\ lane \in Lane /\ due \in Int /\ Period \in Int /\ 0 < Period
      /\ permission.issued \in Int
  BY OwnerAssumption, PermissionAssumption
     DEF OwnerInv, OwnerTypeOK, IInv, TypeOK, Stamp, Permission
<1>1. CASE \E reason : abort(reason)
  BY <1>1, StopRun DEF abort
<1>2. CASE OwnerTick /\ ~\E reason : abort(reason)
  <2>1. /\ UNCHANGED <<permission, applied, current, now, ack, visit, bound,
                       lane, fault, opening, closing, abandoned>>
        /\ pc \in Waits /\ lane.granted /\ renewal' = NoCall
        /\ pc' \in {pc, "renewing"}
    BY <1>2, Zenon DEF OwnerTick, drive, vars
  <2>2. pc = "driving"
    BY <2>1 DEF OwnerInv, OneCall, Waits
  <2> QED BY <2>1, <2>2 DEF RunInv, Identified, Phases, Lanes, Facts, Opened,
             identity, is_granted, NoCall
<1>3. CASE SendRenewal
  <2>1. /\ UNCHANGED <<permission, applied, current, now, ack, visit, bound,
                       fault, opening, closing, abandoned>>
        /\ pc = "renewing" /\ pc' = "driving" /\ renewal' = send
        /\ lane' = [lane EXCEPT !.last = now + Lifetime]
    BY <1>3 DEF SendRenewal, drive, vars
  <2>2. /\ send.state = "sent" /\ send.issued = now /\ send.visit = visit
    BY SendType DEF OwnerInv, IInv, TypeOK
  <2>3. /\ lane'.last = now + Lifetime /\ lane'.first = lane.first
        /\ lane'.open = lane.open /\ lane'.close_at = lane.close_at
        /\ lane'.drive_ack = lane.drive_ack
    BY <1>0, <2>1 DEF Lane
  <2>4. permission.issued < now
    BY <1>0, <2>1 DEF OwnerInv, Periods
  <2>5. permission.deadline = permission.issued + Lifetime
    BY <2>1 DEF RunInv, Identified, Phases, Opened, OwnerInv, OwnerTypeOK, Visit
  <2>6. Identified' /\ Phases'
    BY <2>1, <2>2, <2>3 DEF RunInv, Identified, Phases, Opened, identity,
       is_granted
  <2>7. Lanes'
    BY <1>0, <2>1, <2>2, <2>3, <2>4, <2>5 DEF RunInv, Lanes
  <2>8. Facts'
    BY <2>1, <2>3 DEF RunInv, Facts
  <2> QED BY <2>6, <2>7, <2>8 DEF RunInv
<1>4. CASE TakeAck /\ ~\E reason : abort(reason)
  <2>1. /\ UNCHANGED <<permission, applied, current, now, pc, visit, bound, calls>>
        /\ pc \in Waits /\ ack # NoFact /\ ack' = NoFact /\ lane.first # 0
    BY <1>4 DEF TakeAck, drive, vars, ack_error
  <2>2. /\ applied /\ current.generation = visit
        /\ permission.state = "fault" <=> ack.reason # "normal_close"
    BY <2>1 DEF RunInv, Facts, Waits
  <2>3. permission.state \in {"normal", "fault"}
    <3>1. permission.state # "active"
      BY <2>2 DEF OwnerInv, IInv, AppliedIsStopped, PermissionAgrees
    <3>2. permission.state # "boot"
      BY <2>2 DEF RunInv, Identified, OwnerInv, OwnerTypeOK, Visit
    <3> QED BY <1>0, <3>1, <3>2 DEF Permission
  <2>4. pc \in {"driving", "closing", "settling"}
    BY <2>1 DEF RunInv, Phases, Unopened, Lanes, NoLane, Waits
  <2>5. CASE ack.reason = "normal_close"
    <3>1. lane' = [lane EXCEPT !.drive_ack = ack] /\ fault' = fault
      BY <1>4, <2>5 DEF TakeAck
    <3>2. /\ lane'.last = lane.last /\ lane'.first = lane.first
          /\ lane'.open = lane.open /\ lane'.close_at = lane.close_at
      BY <1>0, <3>1 DEF Lane
    <3> QED BY <2>1, <2>2, <2>3, <2>4, <2>5, <3>1, <3>2
            DEF RunInv, Identified, Phases, Lanes, Facts, Opened, identity,
                calls, is_granted
  <2>6. CASE ack.reason # "normal_close"
    <3>1. lane' = lane
      BY <1>4, <2>6 DEF TakeAck
    <3> QED BY <2>1, <2>2, <2>3, <2>4, <2>6, <3>1
            DEF RunInv, Identified, Phases, Lanes, Facts, Opened, identity,
                calls, is_granted
  <2> QED BY <2>5, <2>6
<1> QED BY <1>1, <1>2, <1>3, <1>4

\* The steps that close a visit.
LEMMA CloseRun ==
  ASSUME OwnerInv, RunInv, Close
  PROVE  RunInv'
<1>0. now \in Int /\ permission \in Permission /\ lane \in Lane
      /\ closing \in Call /\ visit \in Visit
  BY DEF OwnerInv, OwnerTypeOK, IInv, TypeOK, Stamp
<1>1. CASE \E reason : abort(reason)
  BY <1>1, StopRun DEF abort
<1>2. CASE SendClose
  <2>1. /\ UNCHANGED <<permission, applied, current, now, ack, visit, bound,
                       fault, opening, renewal, abandoned>>
        /\ pc = "driving" /\ pc' = "closing" /\ closing' = send
        /\ lane' = [lane EXCEPT !.granted = FALSE, !.close_at = now]
    BY <1>2 DEF SendClose, drive, vars
  <2>2. /\ send.state = "sent" /\ send.visit = visit
    BY SendType DEF OwnerInv, IInv, TypeOK
  <2>3. /\ lane'.last = lane.last /\ lane'.first = lane.first
        /\ lane'.open = lane.open /\ lane'.close_at = now
        /\ lane'.drive_ack = lane.drive_ack
    BY <1>0, <2>1 DEF Lane
  <2>4. now \in 1..now /\ lane.close_at = 0
    BY <1>0, <2>1 DEF RunInv, Lanes
  <2>5. Identified' /\ Phases'
    BY <2>1, <2>2, <2>3, <2>4 DEF RunInv, Identified, Phases, Opened, identity,
       is_granted
  <2>6. Lanes'
    BY <2>1, <2>3, <2>4 DEF RunInv, Lanes
  <2>7. Facts'
    BY <2>1, <2>3, <2>4 DEF RunInv, Facts
  <2> QED BY <2>5, <2>6, <2>7 DEF RunInv
<1>3. CASE TakeClosed /\ ~\E reason : abort(reason)
  <2>1. /\ UNCHANGED <<permission, applied, current, now, ack, visit, bound,
                       lane, fault, opening, renewal, abandoned>>
        /\ pc = "closing" /\ pc' = "settling" /\ closing' = NoCall
    BY <1>3 DEF TakeClosed, drive, vars
  <2> QED BY <2>1 DEF RunInv, Identified, Phases, Lanes, Facts, Opened, identity,
             is_granted, NoCall
<1>4. CASE Settle
  <2>1. /\ UNCHANGED <<permission, applied, current, now, ack, bound, fault, calls>>
        /\ pc = "settling" /\ lane.drive_ack # NoFact /\ lane' = NoLane
        /\ \/ visit = 1 /\ pc' = "idle" /\ visit' = 2
           \/ visit = 2 /\ pc' = "completed" /\ visit' = 2
    BY <1>0, <1>4 DEF Settle, drive, vars, confirmed, Visit
  <2>2. /\ permission.state = "normal" /\ ack = NoFact /\ applied
        /\ current.generation = visit
        /\ opening.state = "none" /\ closing.state = "none" /\ ~abandoned
    BY <2>1 DEF RunInv, Facts, Phases, Opened, OwnerInv, OneCall
  <2>3. lane'.drive_ack = NoFact
    BY <2>1 DEF NoLane
  <2> QED BY <2>1, <2>2, <2>3 DEF RunInv, Identified, Phases, Lanes, Facts,
             Unopened, identity, calls, is_granted
<1> QED BY <1>1, <1>2, <1>3, <1>4 DEF Close

\* Every step of the composition preserves it.
LEMMA StepRunInv == OwnerInv /\ RunInv /\ [OwnerNext]_system => RunInv'
<1> SUFFICES ASSUME OwnerInv, RunInv, [OwnerNext]_system PROVE RunInv'
  OBVIOUS
<1>0. OwnerInv'
  BY StepOwnerInv
<1>1. CASE Open
  BY <1>1, OpenRun
<1>2. CASE Close
  BY <1>2, CloseRun
<1>3. CASE OwnerTick \/ SendRenewal \/ TakeAck
  BY <1>3, WaitRun
<1>4. CASE GiveUp \/ Crash
  BY <1>4, StopRun DEF GiveUp, Crash, abort
<1>5. CASE ServeOpen
  BY <1>0, <1>5, ServeOpenRun
<1>6. CASE ServeRenewal
  BY <1>0, <1>6, ServeRenewalRun
<1>7. CASE ServeClose \/ ServeAbandoned \/ Native \/ Physics
  BY <1>0, <1>7, OtherServeRun
<1>8. CASE Time
  BY <1>0, <1>8, TimeRun
<1>9. CASE Lose \/ UNCHANGED system
  <2>1. UNCHANGED <<permission, applied, current, now, ack, pc, visit, bound,
                    lane, fault, calls>>
    BY <1>9 DEF Lose, system, drive, vars, program
  <2> QED BY <2>1 DEF RunInv, Identified, Phases, Lanes, Facts, Unopened, Opened,
             identity, calls, is_granted
<1> QED BY <1>1, <1>2, <1>3, <1>4, <1>5, <1>6, <1>7, <1>8, <1>9
        DEF OwnerNext, Serve

\* The owner never mistakes its own drive.
LEMMA TrueAlarm ==
  ASSUME OwnerInv, RunInv, OwnerNext, error' # error
  PROVE  /\ error' \notin {"closed renewal", "identity", "repeated", "fact",
                           "early", "uncorrelated", "close"}
         /\ error' = "opening" => opening.issued + Lifetime <= now
         /\ error' \in {"renewal", "fault", "unopened"} =>
              permission.state = "fault" \/ permission.deadline <= now
<1>0. /\ now \in Int /\ Lifetime \in Int /\ opening \in Call /\ renewal \in Call
      /\ opening.issued \in Int /\ opening.deadline \in Int
      /\ renewal.issued \in Int /\ renewal.deadline \in Int
      /\ ack \in Fact /\ ack.at \in Int /\ ack.deadline \in Int
      /\ permission.deadline \in Int /\ lane \in Lane
      /\ lane.first \in Int /\ lane.last \in Int /\ lane.close_at \in Int
  <2>1. opening \in Call /\ renewal \in Call /\ ack \in Fact /\ lane \in Lane
        /\ permission \in Permission /\ now \in Stamp
    BY DEF OwnerInv, OwnerTypeOK, IInv, TypeOK
  <2> QED BY <2>1, PermissionAssumption DEF Call, Fact, Lane, Permission, Stamp
<1>1. CASE TakeClosedRenewal
  BY <1>1 DEF TakeClosedRenewal, abort, stop, program, RunInv, Identified
<1>2. CASE Bind \/ CheckOpening \/ GiveUp \/ Crash
  BY <1>2 DEF Bind, CheckOpening, GiveUp, Crash, abort, stop
<1>3. CASE TakeOpened
  <2>1. /\ pc = "opening" /\ opening.state = "answered" /\ error' = "opening"
        /\ ~(/\ opening.accepted /\ opening.deadline = opening.issued + Lifetime
             /\ now < opening.deadline)
    BY <1>3 DEF TakeOpened, abort, stop
  <2> QED BY <1>0, <2>1 DEF RunInv, Phases
<1>4. CASE OwnerTick
  <2>1. /\ pc \in Waits /\ tick_error # "none" /\ error' = tick_error
    BY <1>4 DEF OwnerTick, abort, stop
  <2>2. CASE error' = "renewal"
    <3>1. /\ lane.granted /\ renewal.state = "answered"
          /\ \/ ~renewal.accepted \/ renewal.deadline <= now
             \/ renewal.deadline # renewal.issued + Lifetime
      BY <2>1, <2>2 DEF tick_error, is_answered
    <3>2. pc = "driving"
      BY <2>1, <3>1 DEF OwnerInv, OneCall, Waits
    <3> QED BY <2>2, <3>1, <3>2 DEF RunInv, Identified, Lanes
  <2>3. CASE error' = "fault"
    <3>1. fault
      BY <2>1, <2>3 DEF tick_error
    <3> QED BY <2>1, <2>3, <3>1 DEF RunInv, Facts, Waits
  <2> QED BY <2>1, <2>2, <2>3 DEF tick_error
<1>5. CASE TakeAck
  <2>1. /\ pc \in Waits /\ ack # NoFact /\ error' = ack_error /\ pc # "stopped"
    BY <1>5 DEF TakeAck, abort, stop, Waits
  <2>2. /\ current.generation = visit /\ ack.id = current /\ visit # 0
        /\ ack.deadline = permission.deadline
        /\ IF permission.state = "fault"
             THEN ack.reason = "permission_expired" /\ ack.deadline <= ack.at
             ELSE ack.reason = "normal_close" /\ lane.close_at \in 1..ack.at
    BY <2>1 DEF RunInv, Facts, OwnerInv, OwnerTypeOK, Visit
  <2>3. visit \in bound /\ ack.id = identity(visit)
    BY <2>2 DEF RunInv, Identified
  <2>4. /\ lane.open
        /\ lane.first = 0 => lane.close_at = 0
        /\ lane.first # 0 =>
             lane.first <= permission.deadline /\ permission.deadline <= lane.last
    <3>1. CASE pc \in {"driving", "renewing", "closing", "settling"}
      BY <2>1, <3>1 DEF RunInv, Lanes
    <3>2. CASE pc \in {"bound", "opening"}
      BY <2>1, <3>2 DEF RunInv, Lanes, NoLane
    <3>3. CASE pc \in {"idle", "draining", "completed"}
      BY <2>1, <3>3 DEF RunInv, Phases, Unopened
    <3> QED BY <2>1, <3>1, <3>2, <3>3 DEF Waits
  <2>5. lane.first # 0 => ack.deadline \in lane.first..lane.last
    BY <1>0, <2>2, <2>4
  <2>6. ack_error \in {"none", "unopened"}
    <3>1. CASE permission.state = "fault"
      BY <1>0, <2>2, <2>3, <2>4, <2>5, <3>1 DEF ack_error
    <3>2. CASE permission.state # "fault"
      BY <1>0, <2>2, <2>3, <2>4, <2>5, <3>2 DEF ack_error
    <3> QED BY <3>1, <3>2
  <2>7. ack_error = "unopened" => permission.state = "fault"
    BY <1>0, <2>2, <2>4 DEF ack_error
  <2>8. ack_error # "none"
    BY <1>5 DEF TakeAck
  <2> QED BY <2>1, <2>6, <2>7, <2>8
<1>6. CASE TakeClosed
  BY <1>6 DEF TakeClosed, abort, stop, RunInv, Phases
<1>7. ASSUME Admit \/ SendOpen \/ SendClose \/ Settle \/ SendRenewal \/ Lose
             \/ Serve \/ Native \/ Physics \/ Time
      PROVE  FALSE
  BY <1>7 DEF Admit, SendOpen, SendClose, Settle, SendRenewal, Lose, Serve,
     ServeOpen, ServeRenewal, ServeClose, ServeAbandoned, Native, Physics,
     publish, Time, program
<1> QED BY <1>1, <1>2, <1>3, <1>4, <1>5, <1>6, <1>7 DEF OwnerNext, Open, Close

\* Every alarm is true: what the drive refuses or reports is refused for its
\* lapse, and every fact the owner checks agrees with what it knows of the grant.
THEOREM AlarmsAreTrue == OwnerSpec => NoFalseAlarm
<1>1. OwnerSpec => [](OwnerInv /\ RunInv)
  <2>1. OwnerInit => RunInv
    BY InitRunInv
  <2>2. OwnerInv /\ RunInv /\ [OwnerNext]_system => RunInv'
    BY StepRunInv
  <2> QED BY <2>1, <2>2, OwnerInvariance, PTL DEF OwnerSpec
<1>2. OwnerInv /\ RunInv /\ [OwnerNext]_system =>
        [error' # error =>
          /\ error' \notin {"closed renewal", "identity", "repeated", "fact",
                            "early", "uncorrelated", "close"}
          /\ error' = "opening" => opening.issued + Lifetime <= now
          /\ error' \in {"renewal", "fault", "unopened"} =>
               permission.state = "fault" \/ permission.deadline <= now]_system
  BY TrueAlarm DEF system, program
<1> QED BY <1>1, <1>2, PTL DEF OwnerSpec, NoFalseAlarm
=============================================================================
