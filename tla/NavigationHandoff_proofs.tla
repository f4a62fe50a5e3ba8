------------------------ MODULE NavigationHandoff_proofs ------------------------
(***************************************************************************)
(* Theorems about the navigation owner, for every budget of its watches,     *)
(* every length of their windows and every fault around it: operation B is   *)
(* admitted only when nothing of A is left, a result is delivered only if the *)
(* observations never stood still, B is resumed only behind a clear corridor, *)
(* and an accepted goal whose authority is revoked was told to stop.          *)
(***************************************************************************)
EXTENDS NavigationHandoff, GateProcess_proofs

-----------------------------------------------------------------------------
(* Types *)

Place == {"baseline", "opening", "running", "terminal", "lost", "workers", "bt",
          "drive", "quiet", "clear", "preparing", "quiet_again", "settling",
          "sealing", "ended"}

Goal ==
  [handle : BOOLEAN, feedback : BOOLEAN, done : BOOLEAN, error : BOOLEAN,
   stop_requested : BOOLEAN, stop_sent : BOOLEAN, cancel_seen : BOOLEAN,
   loss : BOOLEAN, reason : {"", "unknown", "blocked", "continue"}]

Outcome == {"", "raised", "blocked", "lost", "cancelled", "interrupted",
            "refused", "passed"}

OwnerRecord ==
  [goal : Goal, sends : 0..2, native_sequence : Nat, output_sequence : Nat,
   settlement_sequence : Nat, refused : BOOLEAN, outcome : Outcome]

Identity == {"own", "foreign"}

Facts ==
  [generation : 1..2, parent : BOOLEAN, link : [Child -> SUBSET Identity],
   ack : [Child -> SUBSET Identity], bt_closed : BOOLEAN,
   drive : {"open", "closed", "rejected"}, rejected : BOOLEAN]

ClosureRecord ==
  [facts : Facts, requested : BOOLEAN, response : {"none", "accepted", "failed"}]

RuntimeRecord ==
  [active : BOOLEAN, lost : SUBSET Stream, age : [Stream -> Nat]]

Sample == [age : Nat, after : BOOLEAN]

CorridorRecord ==
  [scan : SUBSET [age : Nat, after : BOOLEAN, value : Clearance],
   costmap : SUBSET [age : Nat, after : BOOLEAN, value : Occupancy],
   close : Seq(Sample), clear : Seq(Sample)]

WindowRecord ==
  [status : {"pending", "rejected", "observed"}, count : Nat, span : Nat]

HostRecord ==
  [pc : Place, gate : Gate, owner : OwnerRecord, closure : ClosureRecord,
   runtime : RuntimeRecord, corridor : CorridorRecord, window : WindowRecord]

WorldRecord ==
  [work : [goal : {"none", "sent", "active", "refused"} \cup Terminal,
           workers : [Child -> {"idle", "running", "over"}], joined : BOOLEAN],
   drive : [generation : 0..2, applied : 0..2],
   robot : {"still", "moving"}, fault : Fault]

TruthRecord == [gap : BOOLEAN, clears : Nat, unseen : Nat]

-----------------------------------------------------------------------------
(* The inductive invariant, of the record h a step passes between its calls,  *)
(* the world w and the history t                                             *)

Generation(h) == h.closure.facts.generation

\* A B that was refused was never sent.
RefusedUnsent(h) == h.owner.refused => h.owner.sends < Generation(h)

\* How often a goal was sent, and what the drive is open for, wherever the
\* owner waits.
Placed(h, w) ==
  LET own == h.owner
      opened == w.drive.generation
  IN  /\ h.pc \in {"baseline", "opening"} =>
           /\ own.sends = Generation(h) - 1 /\ ~own.refused /\ ~own.goal.error
           /\ opened = Generation(h) - 1
      /\ h.pc \in {"running", "terminal", "lost", "workers", "bt", "drive"} =>
           own.sends = Generation(h) /\ ~own.refused
      /\ h.pc = "sealing" => own.refused
      /\ h.pc = "quiet" => own.refused \/ own.sends = Generation(h)
      /\ h.pc \in {"clear", "preparing", "quiet_again", "settling"} =>
           own.sends = 1 /\ Generation(h) = 1 /\ ~own.refused
      /\ h.pc \notin {"baseline", "opening", "ended"} => opened = Generation(h)

\* A stop is requested, and an operation revoked, by a revocation.
Grounded(r) ==
  r.disposition = "revoked" \/ r.stop_requested_at # {} => is_revoked(r)

\* The gate is at the operation the closure is for.
GateSound(h) ==
  /\ h.gate.receipt.authority.operation_id = Generation(h)
  /\ h.gate.next_operation_id = IF Generation(h) = 1 THEN 2 ELSE 0
  /\ Grounded(h.gate.receipt)

\* The goal of the owner is that of the operation at the gate.
Current(h) == h.owner.sends = h.gate.receipt.authority.operation_id

\* The owner asks a goal to stop when its authority is revoked, at once or
\* when it learns its handle.
Asked(h) ==
  LET r == h.gate.receipt
      requested == h.owner.goal.stop_requested
  IN  /\ r.dispatch = "submitted"
      /\ is_revoked(r) /\ r.outcome = "pending" => requested
      /\ r.stop_requested_at # {} => requested

Relayed(goal) == goal.stop_requested /\ goal.handle => goal.stop_sent

Duty(h) == Current(h) /\ ~h.owner.goal.error => Asked(h) /\ Relayed(h.owner.goal)

Count(b) == IF b THEN 1 ELSE 0

\* The records of a goal: three of its native work and one for each end.
Over(goal) == Count(goal.done) + Count(goal.error)

\* n and k: what a step has numbered before it notes that it did.
Within(h, n, k) ==
  LET own == h.owner
      heard == Count(own.goal.handle) + Count(own.goal.feedback)
  IN  /\ own.native_sequence <= 3 * (own.sends - 1) + heard + Over(own.goal) + n
      /\ own.output_sequence <= own.sends - 1 + Over(own.goal) + k
      /\ own.settlement_sequence <= own.sends + Generation(h) - 2 + Over(own.goal) + k

Numbered(h) ==
  LET own == h.owner
  IN  h.pc \notin {"sealing", "ended"} /\ ~own.refused =>
        /\ own.sends = 0 => /\ own.native_sequence = 0 /\ own.output_sequence = 0
                            /\ own.settlement_sequence = 0
        /\ own.sends # 0 => Within(h, 0, 0)

\* The drive follows the closure, and seals when it is asked to.
DriveSound(h, w) ==
  LET drive == w.drive
      facts == h.closure.facts
  IN  /\ drive.applied <= drive.generation /\ drive.generation <= facts.generation
      /\ drive.applied = facts.generation => h.closure.requested
      /\ facts.drive = "closed" => drive.applied = facts.generation
      /\ facts.drive # "rejected"

\* What the closure was told of its own task is so.
FactsSound(h, w) ==
  LET facts == h.closure.facts
  IN  /\ \A c \in Child :
           /\ facts.link[c] \subseteq {"own"}
           /\ "own" \in facts.ack[c] => /\ w.work.workers[c] = "over"
                                        /\ w.drive.generation = facts.generation
      /\ facts.bt_closed => w.work.joined /\ w.drive.generation = facts.generation

\* From the first quiet window on the drive is sealed, and a robot that was
\* seen at rest stays at rest.
RestSound(h, w) ==
  /\ h.pc \in {"quiet", "clear", "preparing", "quiet_again", "settling"} =>
       h.closure.facts.drive = "closed"
  /\ \/ h.pc \in {"clear", "preparing", "settling"}
     \/ h.pc \in {"quiet", "quiet_again"} /\ (h.window.count # 0 \/ h.window.status = "observed")
     => w.robot = "still"

\* A gap that was is known to the watch until the goal has ended.
GapSound(h, t) ==
  h.pc # "ended" /\ t.gap =>
    stale(h.runtime) # {} \/ h.owner.goal.done \/ h.owner.goal.loss

Good(sample) == sample.after /\ sample.age < ScanLimit

\* The history has counted every good scan at the end of the window.
CorridorSound(h, t) ==
  LET clear == h.corridor.clear
  IN  mode = "resume" /\ h.pc # "ended" =>
        /\ \A s \in h.corridor.scan : t.unseen = s.age
        /\ Len(clear) <= Frames /\ t.clears <= Frames
        /\ \A i \in 1..Len(clear) :
             (\A j \in i..Len(clear) : Good(clear[j])) => Len(clear) - i < t.clears

\* What holds also between two calls, wherever the owner goes next.
Solid(h, w) ==
  /\ h \in HostRecord /\ GateSound(h) /\ RefusedUnsent(h)
  /\ Duty(h) /\ DriveSound(h, w) /\ FactsSound(h, w)

Sound(h, w, t) ==
  /\ Solid(h, w) /\ w \in WorldRecord /\ t \in TruthRecord
  /\ Placed(h, w) /\ Numbered(h) /\ RestSound(h, w)
  /\ GapSound(h, t) /\ CorridorSound(h, t)

IInv == mode \in Mode /\ Sound(Here, world, truth)
-----------------------------------------------------------------------------
(* The gate, as its owner uses it *)

\* h is the gate g, about the same operation, after a call.
Goes(h, g) ==
  /\ h \in Gate /\ h.receipt.authority = g.receipt.authority
  /\ h.next_operation_id = g.next_operation_id
  /\ Grounded(g.receipt) => Grounded(h.receipt)

\* A call that revokes nothing.
Tells(h, g) ==
  /\ Goes(h, g) /\ h.receipt.dispatch = g.receipt.dispatch
  /\ revocations(h.receipt) = revocations(g.receipt)
  /\ h.receipt.stop_requested_at = g.receipt.stop_requested_at
  /\ g.receipt.outcome # "pending" => h.receipt.outcome # "pending"

\* A call that delivers nothing.
Withholds(h, g) ==
  h.receipt.output = "accepted" => g.receipt.output = "accepted"

\* A refreshed receipt differs in its disposition only, which is grounded.
LEMMA RefreshFields ==
  ASSUME NEW q \in Receipt, NEW r, r = refresh_authority_disposition(q)
  PROVE  /\ r \in Receipt /\ r.authority = q.authority /\ r.dispatch = q.dispatch
         /\ r.outcome = q.outcome /\ r.output = q.output
         /\ revocations(r) = revocations(q)
         /\ r.stop_requested_at = q.stop_requested_at
         /\ r.disposition = "revoked" => is_revoked(r)
<1> DEFINE d == authority_disposition(q)
<1>1. r = [q EXCEPT !.disposition = d]
  BY DEF refresh_authority_disposition
<1>2. d = "revoked" => is_revoked(q)
  BY DEF authority_disposition
<1>3. r \in Receipt
  BY RefreshType
<1> HIDE DEF d
<1>4. /\ r.authority = q.authority /\ r.dispatch = q.dispatch
      /\ r.outcome = q.outcome /\ r.output = q.output
      /\ r.stop_requested_at = q.stop_requested_at /\ r.disposition = d
      /\ r.cancelled_at = q.cancelled_at /\ r.expired_at = q.expired_at
      /\ r.withdrawn_at = q.withdrawn_at
  BY <1>1 DEF Receipt
<1>5. revocations(r) = revocations(q)
  BY <1>4 DEF revocations
<1>6. r.disposition = "revoked" => is_revoked(r)
  BY <1>2, <1>4, <1>5 DEF is_revoked
<1> QED BY <1>3, <1>4, <1>5, <1>6

\* A gate whose receipt is refreshed after a report.
LEMMA ReportTells ==
  ASSUME NEW g \in Gate, NEW q \in Receipt, q.authority = g.receipt.authority,
         q.dispatch = g.receipt.dispatch, revocations(q) = revocations(g.receipt),
         q.stop_requested_at = g.receipt.stop_requested_at,
         g.receipt.outcome # "pending" => q.outcome # "pending",
         NEW r, r = refresh_authority_disposition(q),
         NEW h \in Gate, h.receipt = r, h.next_operation_id = g.next_operation_id
  PROVE  Tells(h, g) /\ h.receipt.output = q.output
<1>1. /\ r.authority = q.authority /\ r.dispatch = q.dispatch
      /\ r.outcome = q.outcome /\ r.output = q.output
      /\ revocations(r) = revocations(q)
      /\ r.stop_requested_at = q.stop_requested_at
      /\ r.disposition = "revoked" => is_revoked(r)
  BY RefreshFields
<1>2. Grounded(g.receipt) => Grounded(h.receipt)
  BY <1>1 DEF Grounded, is_revoked
<1> QED BY <1>1, <1>2 DEF Tells, Goes

LEMMA NothingTells == ASSUME NEW g \in Gate PROVE Tells(g, g) /\ Withholds(g, g)
BY DEF Tells, Goes, Withholds

\* An outcome that is known does not become unknown again.
LEMMA NativeTells ==
  ASSUME NEW g \in Gate, NEW a, NEW id \in NativeIdentity, NEW kind \in NativeKind,
         NEW p \in EvidenceRecord,
         NEW h, h = observe_native(g, [authority |-> a, kind |-> kind,
                                       native_identity |-> id, record |-> p])
  PROVE  Tells(h, g) /\ Withholds(h, g)
<1> DEFINE e == [authority |-> a, kind |-> kind, native_identity |-> id, record |-> p]
           r == g.receipt
           evidence == IF r.evidence[e.kind] = {}
                         THEN [r.evidence EXCEPT ![e.kind] = {e.record}]
                         ELSE r.evidence
           outcome == native_outcome(r, e.kind, evidence)
           acceptance == IF e.kind \in {"accepted", "rejected"} THEN e.kind
                         ELSE r.acceptance
           s == [r EXCEPT !.evidence = evidence,
                          !.native_identity = {e.native_identity},
                          !.acceptance = acceptance, !.outcome = outcome]
           last == {[kind |-> e.kind, record |-> e.record]}
           t == refresh_authority_disposition(s)
<1>1. r \in Receipt /\ e.kind = kind /\ e.record = p /\ e.native_identity = id
  BY DEF Gate
<1>2. CASE ~accepts_native(g, e)
  <2>1. h = g
    BY <1>2 DEF observe_native
  <2> QED BY <2>1, NothingTells
<1>3. CASE accepts_native(g, e)
  <2>1. h = [g EXCEPT !.receipt = t, !.last_native = last]
    BY <1>3 DEF observe_native, apply_native
  <2>2. h \in Gate
    BY NativeType
  <2>3. evidence \in [EvidenceKind -> Optional(EvidenceRecord)]
    BY <1>1, OptionalSome DEF Receipt, EvidenceKind
  <2>4. /\ outcome \in {"pending", "not_executed", "unknown"} \cup Terminal
        /\ r.outcome # "pending" => outcome # "pending"
    <3>1. seen_terminals(evidence) # {} =>
            (CHOOSE k \in Terminal : evidence[k] # {}) \in Terminal
      BY DEF seen_terminals
    <3> HIDE DEF evidence
    <3> QED BY <1>1, <3>1 DEF native_outcome, Receipt, Terminal
  <2>5. acceptance \in {"pending", "accepted", "rejected"}
    BY <1>1 DEF Receipt
  <2>6. {e.native_identity} \in Optional(NativeIdentity)
    BY <1>1, OptionalSome
  <2>7. s \in Receipt
    <3> HIDE DEF evidence, outcome, acceptance, r, e
    <3> QED BY <1>1, <2>3, <2>4, <2>5, <2>6 DEF Receipt
  <2>8. /\ s.authority = r.authority /\ s.dispatch = r.dispatch
        /\ s.outcome = outcome /\ s.output = r.output
        /\ s.cancelled_at = r.cancelled_at /\ s.expired_at = r.expired_at
        /\ s.withdrawn_at = r.withdrawn_at
        /\ s.stop_requested_at = r.stop_requested_at
    <3> HIDE DEF evidence, outcome, acceptance, r, e
    <3> QED BY <1>1 DEF Receipt
  <2>9. revocations(s) = revocations(r)
    BY <2>8 DEF revocations
  <2> HIDE DEF s, outcome
  <2>10. h.receipt = t /\ h.next_operation_id = g.next_operation_id
    <3> HIDE DEF t, last
    <3> QED BY <2>1 DEF Gate
  <2>11. Tells(h, g) /\ h.receipt.output = s.output
    BY <2>2, <2>4, <2>7, <2>8, <2>9, <2>10, ReportTells
  <2> QED BY <2>8, <2>11 DEF Withholds
<1> QED BY <1>2, <1>3

\* The reports about the end of the operation are of one form.
LEMMA EndTells ==
  ASSUME NEW g \in Gate, NEW q \in Receipt, q.authority = g.receipt.authority,
         q.dispatch = g.receipt.dispatch, q.cancelled_at = g.receipt.cancelled_at,
         q.expired_at = g.receipt.expired_at, q.withdrawn_at = g.receipt.withdrawn_at,
         q.stop_requested_at = g.receipt.stop_requested_at,
         q.outcome = g.receipt.outcome,
         NEW h \in Gate, h = [g EXCEPT !.receipt = refresh_authority_disposition(q)]
  PROVE  Tells(h, g) /\ h.receipt.output = q.output
<1> DEFINE r == refresh_authority_disposition(q)
<1>1. revocations(q) = revocations(g.receipt)
  BY DEF revocations
<1>2. h = [g EXCEPT !.receipt = r]
  OBVIOUS
<1>3. h.receipt = r /\ h.next_operation_id = g.next_operation_id
  <2> HIDE DEF r
  <2> QED BY <1>2 DEF Gate
<1> QED BY <1>1, <1>3, ReportTells

LEMMA NonDeliveryTells ==
  ASSUME NEW g \in Gate, NEW a, NEW why \in NonDeliveryReason, NEW p \in EvidenceRecord,
         NEW h, h = observe_output_not_delivered(g,
                      [authority |-> a, reason |-> why, record |-> p])
  PROVE  Tells(h, g) /\ Withholds(h, g)
<1> DEFINE e == [authority |-> a, reason |-> why, record |-> p]
           q == [g.receipt EXCEPT !.output = "not_delivered", !.reason = {e.reason},
                                  !.evidence["non_delivery"] = {e.record}]
<1>1. h \in Gate
  BY NonDeliveryType
<1>2. CASE ~accepts_non_delivery(g, e)
  <2>1. h = g
    BY <1>2 DEF observe_output_not_delivered
  <2> QED BY <2>1, NothingTells
<1>3. CASE accepts_non_delivery(g, e)
  <2>1. h = [g EXCEPT !.receipt = refresh_authority_disposition(q)]
    BY <1>3 DEF observe_output_not_delivered
  <2>2. g.receipt \in Receipt /\ e.record = p /\ e.reason = why
    BY DEF Gate
  <2>3. q \in Receipt
    <3>1. [g.receipt EXCEPT !.output = "not_delivered", !.reason = {why}] \in Receipt
      BY <2>2, OptionalSome DEF Receipt
    <3> QED BY <2>2, <3>1, EvidenceType DEF EvidenceKind
  <2>4. /\ q.authority = g.receipt.authority /\ q.output = "not_delivered"
        /\ q.dispatch = g.receipt.dispatch /\ q.cancelled_at = g.receipt.cancelled_at
        /\ q.expired_at = g.receipt.expired_at
        /\ q.withdrawn_at = g.receipt.withdrawn_at
        /\ q.stop_requested_at = g.receipt.stop_requested_at
        /\ q.outcome = g.receipt.outcome
    BY <2>2 DEF Receipt
  <2> HIDE DEF q
  <2>5. Tells(h, g) /\ h.receipt.output = q.output
    BY <1>1, <2>1, <2>3, <2>4, EndTells
  <2> QED BY <2>4, <2>5 DEF Withholds
<1> QED BY <1>2, <1>3

LEMMA OutputTells ==
  ASSUME NEW g \in Gate, NEW a, NEW p \in EvidenceRecord,
         NEW h, h = observe_output_accepted(g, [authority |-> a, record |-> p])
  PROVE  Tells(h, g)
<1> DEFINE e == [authority |-> a, record |-> p]
           q == [g.receipt EXCEPT !.output = "accepted",
                                  !.evidence["output"] = {e.record}]
<1>1. h \in Gate
  BY OutputType
<1>2. CASE ~accepts_output(g, e)
  <2>1. h = g
    BY <1>2 DEF observe_output_accepted
  <2> QED BY <2>1, NothingTells
<1>3. CASE accepts_output(g, e)
  <2>1. h = [g EXCEPT !.receipt = refresh_authority_disposition(q)]
    BY <1>3 DEF observe_output_accepted
  <2>2. g.receipt \in Receipt /\ e.record = p
    BY DEF Gate
  <2>3. q \in Receipt
    <3>1. [g.receipt EXCEPT !.output = "accepted"] \in Receipt
      BY <2>2 DEF Receipt
    <3> QED BY <2>2, <3>1, EvidenceType DEF EvidenceKind
  <2>4. /\ q.authority = g.receipt.authority
        /\ q.dispatch = g.receipt.dispatch /\ q.cancelled_at = g.receipt.cancelled_at
        /\ q.expired_at = g.receipt.expired_at
        /\ q.withdrawn_at = g.receipt.withdrawn_at
        /\ q.stop_requested_at = g.receipt.stop_requested_at
        /\ q.outcome = g.receipt.outcome
    BY <2>2 DEF Receipt
  <2> HIDE DEF q
  <2> QED BY <1>1, <2>1, <2>3, <2>4, EndTells
<1> QED BY <1>2, <1>3

LEMMA SettlementTells ==
  ASSUME NEW g \in Gate, NEW a, NEW p \in EvidenceRecord,
         NEW h, h = observe_settlement(g,
                      [authority |-> a, permits_same_domain_admission |-> TRUE,
                       record |-> p])
  PROVE  Tells(h, g) /\ Withholds(h, g)
<1> DEFINE e == [authority |-> a, permits_same_domain_admission |-> TRUE, record |-> p]
           q == [g.receipt EXCEPT !.settlement = "settled",
                                  !.evidence["settlement"] = {e.record}]
<1>1. h \in Gate
  BY SettlementType
<1>2. CASE ~accepts_settlement(g, e)
  <2>1. h = g
    BY <1>2 DEF observe_settlement
  <2> QED BY <2>1, NothingTells
<1>3. CASE accepts_settlement(g, e)
  <2>1. h = [g EXCEPT !.receipt = refresh_authority_disposition(q)]
    BY <1>3 DEF observe_settlement
  <2>2. g.receipt \in Receipt /\ e.record = p
    BY DEF Gate
  <2>3. q \in Receipt
    <3>1. [g.receipt EXCEPT !.settlement = "settled"] \in Receipt
      BY <2>2 DEF Receipt
    <3> QED BY <2>2, <3>1, EvidenceType DEF EvidenceKind
  <2>4. /\ q.authority = g.receipt.authority /\ q.output = g.receipt.output
        /\ q.dispatch = g.receipt.dispatch /\ q.cancelled_at = g.receipt.cancelled_at
        /\ q.expired_at = g.receipt.expired_at
        /\ q.withdrawn_at = g.receipt.withdrawn_at
        /\ q.stop_requested_at = g.receipt.stop_requested_at
        /\ q.outcome = g.receipt.outcome
    BY <2>2 DEF Receipt
  <2> HIDE DEF q
  <2>5. Tells(h, g) /\ h.receipt.output = q.output
    BY <1>1, <2>1, <2>3, <2>4, EndTells
  <2> QED BY <2>4, <2>5 DEF Withholds
<1> QED BY <1>2, <1>3

\* Non-submission is a report of its own: it changes the dispatch.
LEMMA NonSubmissionGoes ==
  ASSUME NEW g \in Gate, NEW a, NEW p \in EvidenceRecord,
         NEW h, h = observe_non_submission(g, [authority |-> a, record |-> p])
  PROVE  Goes(h, g) /\ Withholds(h, g)
<1> DEFINE e == [authority |-> a, record |-> p]
           q == [g.receipt EXCEPT !.dispatch = "not_submitted",
                                  !.outcome = "not_executed",
                                  !.evidence["non_submission"] = {e.record}]
           r == refresh_authority_disposition(q)
<1>1. h \in Gate
  BY NonSubmissionType
<1>2. CASE ~accepts_non_submission(g, e)
  <2>1. h = g
    BY <1>2 DEF observe_non_submission
  <2> QED BY <2>1, NothingTells DEF Tells
<1>3. CASE accepts_non_submission(g, e)
  <2>1. h = [g EXCEPT !.receipt = r]
    BY <1>3 DEF observe_non_submission
  <2>2. g.receipt \in Receipt /\ e.record = p
    BY DEF Gate
  <2>3. q \in Receipt
    <3>1. [g.receipt EXCEPT !.dispatch = "not_submitted",
                            !.outcome = "not_executed"] \in Receipt
      BY <2>2 DEF Receipt
    <3> QED BY <2>2, <3>1, EvidenceType DEF EvidenceKind
  <2>4. /\ q.authority = g.receipt.authority /\ q.output = g.receipt.output
        /\ q.cancelled_at = g.receipt.cancelled_at
        /\ q.expired_at = g.receipt.expired_at
        /\ q.withdrawn_at = g.receipt.withdrawn_at
        /\ q.stop_requested_at = g.receipt.stop_requested_at
    BY <2>2 DEF Receipt
  <2>5. revocations(q) = revocations(g.receipt)
    BY <2>4 DEF revocations
  <2> HIDE DEF q
  <2>6. /\ r.authority = q.authority /\ r.output = q.output
        /\ revocations(r) = revocations(q)
        /\ r.stop_requested_at = q.stop_requested_at
        /\ r.disposition = "revoked" => is_revoked(r)
    BY <2>3, RefreshFields
  <2>7. h.receipt = r /\ h.next_operation_id = g.next_operation_id
    <3> HIDE DEF r
    <3> QED BY <2>1 DEF Gate
  <2>8. Grounded(g.receipt) => Grounded(h.receipt)
    BY <2>4, <2>5, <2>6, <2>7 DEF Grounded, is_revoked
  <2> QED BY <1>1, <2>4, <2>6, <2>7, <2>8 DEF Goes, Withholds
<1> QED BY <1>2, <1>3

LEMMA StopTells ==
  ASSUME NEW g \in Gate, NEW a, NEW k \in StopResponse, NEW p \in EvidenceRecord,
         NEW h, h = observe_stop_acknowledgement(g,
                      [authority |-> a, acknowledgement |-> k, record |-> p])
  PROVE  Tells(h, g) /\ Withholds(h, g)
<1> DEFINE e == [authority |-> a, acknowledgement |-> k, record |-> p]
           q == [g.receipt EXCEPT !.stop_acknowledgement = e.acknowledgement,
                                  !.evidence["stop"] = {e.record}]
<1>1. h \in Gate
  BY StopType
<1>2. CASE ~accepts_stop_acknowledgement(g, e)
  <2>1. h = g
    BY <1>2 DEF observe_stop_acknowledgement
  <2> QED BY <2>1, NothingTells
<1>3. CASE accepts_stop_acknowledgement(g, e)
  <2>1. h = [g EXCEPT !.receipt = q]
    BY <1>3, ZenonT(60) DEF observe_stop_acknowledgement, Gate
  <2>2. g.receipt \in Receipt
    BY DEF Gate
  <2>3. /\ q.authority = g.receipt.authority /\ q.output = g.receipt.output
        /\ q.dispatch = g.receipt.dispatch /\ q.cancelled_at = g.receipt.cancelled_at
        /\ q.expired_at = g.receipt.expired_at
        /\ q.withdrawn_at = g.receipt.withdrawn_at
        /\ q.stop_requested_at = g.receipt.stop_requested_at
        /\ q.outcome = g.receipt.outcome /\ q.disposition = g.receipt.disposition
    BY <2>2 DEF Receipt
  <2>4. h.receipt = q /\ h.next_operation_id = g.next_operation_id
    <3> HIDE DEF q
    <3> QED BY <2>1 DEF Gate
  <2> HIDE DEF q
  <2>5. revocations(q) = revocations(g.receipt)
    BY <2>3 DEF revocations
  <2>6. Grounded(g.receipt) => Grounded(h.receipt)
    BY <2>3, <2>4, <2>5 DEF Grounded, is_revoked
  <2> QED BY <1>1, <2>3, <2>4, <2>5, <2>6 DEF Tells, Goes, Withholds
<1> QED BY <1>2, <1>3

\* The calls that leave the receipt alone.
LEMMA OtherTells ==
  ASSUME NEW g \in Gate, NEW h \in Gate, h.receipt = g.receipt,
         h.next_operation_id = g.next_operation_id
  PROVE  Tells(h, g) /\ Withholds(h, g)
BY DEF Tells, Goes, Withholds

LEMMA CloseTells ==
  ASSUME NEW g \in Gate
  PROVE  Tells(close_admission(g), g) /\ Withholds(close_admission(g), g)
<1>1. close_admission(g) \in Gate
  BY CloseType
<1>2. /\ close_admission(g).receipt = g.receipt
      /\ close_admission(g).next_operation_id = g.next_operation_id
  BY DEF close_admission, Gate
<1> QED BY <1>1, <1>2, OtherTells

\* A revocation at a time asks for a stop if the work may need one.
LEMMA RevokeFields ==
  ASSUME NEW q \in Receipt, NEW now \in Time, NEW r, r = revoke(q, now)
  PROVE  /\ r \in Receipt /\ r.authority = q.authority /\ r.dispatch = q.dispatch
         /\ r.outcome = q.outcome /\ r.output = q.output
         /\ revocations(r) = revocations(q)
         /\ r.disposition = "revoked" => is_revoked(r)
         /\ r.stop_requested_at =
              IF should_request_native_stop(q) THEN {now} ELSE q.stop_requested_at
<1> DEFINE s == IF should_request_native_stop(q)
                  THEN [q EXCEPT !.stop_requested_at = {now},
                                 !.stop_acknowledgement = "pending"]
                  ELSE q
<1>1. r = refresh_authority_disposition(s)
  BY DEF revoke
<1>2. /\ s \in Receipt /\ s.authority = q.authority /\ s.dispatch = q.dispatch
      /\ s.outcome = q.outcome /\ s.output = q.output
      /\ s.cancelled_at = q.cancelled_at /\ s.expired_at = q.expired_at
      /\ s.withdrawn_at = q.withdrawn_at
      /\ s.stop_requested_at =
           IF should_request_native_stop(q) THEN {now} ELSE q.stop_requested_at
  <2>1. CASE should_request_native_stop(q)
    <3>1. s = [q EXCEPT !.stop_requested_at = {now}, !.stop_acknowledgement = "pending"]
      BY <2>1
    <3> HIDE DEF s
    <3> QED BY <2>1, <3>1, OptionalSome DEF Receipt
  <2>2. CASE ~should_request_native_stop(q)
    BY <2>2
  <2> QED BY <2>1, <2>2
<1> HIDE DEF s
<1>3. revocations(s) = revocations(q)
  BY <1>2 DEF revocations
<1> QED BY <1>1, <1>2, <1>3, RefreshFields

\* A gate whose receipt was revoked.
Revokes(h, g) ==
  /\ Goes(h, g) /\ Withholds(h, g) /\ h.receipt.dispatch = g.receipt.dispatch
  /\ h.receipt.outcome = g.receipt.outcome /\ Grounded(h.receipt)
  /\ h.receipt.stop_requested_at # {} <=>
       \/ should_request_native_stop(g.receipt)
       \/ g.receipt.stop_requested_at # {}

LEMMA ReceiptRevokes ==
  ASSUME NEW g \in Gate, NEW now \in Time, NEW q \in Receipt,
         q.authority = g.receipt.authority, q.dispatch = g.receipt.dispatch,
         q.outcome = g.receipt.outcome, q.output = g.receipt.output,
         q.stop_requested_at = g.receipt.stop_requested_at, is_revoked(q),
         NEW r, r = revoke(q, now),
         NEW h \in Gate, h.receipt = r, h.next_operation_id = g.next_operation_id
  PROVE  Revokes(h, g)
<1>1. /\ r.authority = q.authority /\ r.dispatch = q.dispatch
      /\ r.outcome = q.outcome /\ r.output = q.output
      /\ revocations(r) = revocations(q)
      /\ r.disposition = "revoked" => is_revoked(r)
      /\ r.stop_requested_at =
           IF should_request_native_stop(q) THEN {now} ELSE q.stop_requested_at
  BY RevokeFields
<1>2. should_request_native_stop(q) <=> should_request_native_stop(g.receipt)
  BY DEF should_request_native_stop
<1>3. Grounded(r)
  BY <1>1 DEF Grounded, is_revoked
<1> QED BY <1>1, <1>2, <1>3 DEF Revokes, Goes, Withholds

LEMMA CancelDoes ==
  ASSUME NEW g \in Gate, NEW a, NEW now \in Time, NEW h, h = request_cancel(g, a, now)
  PROVE  IF applies_cancel(g, a, now) THEN Revokes(h, g) ELSE h = g
<1> DEFINE q == [g.receipt EXCEPT !.cancelled_at = {now}]
<1>1. CASE ~applies_cancel(g, a, now)
  BY <1>1 DEF request_cancel
<1>2. CASE applies_cancel(g, a, now)
  <2>1. h = [g EXCEPT !.receipt = revoke(q, now)]
    BY <1>2 DEF request_cancel
  <2>2. g.receipt \in Receipt
    BY DEF Gate
  <2>3. /\ q \in Receipt /\ q.authority = g.receipt.authority
        /\ q.dispatch = g.receipt.dispatch /\ q.outcome = g.receipt.outcome
        /\ q.output = g.receipt.output /\ q.cancelled_at = {now}
        /\ q.stop_requested_at = g.receipt.stop_requested_at
    BY <2>2, OptionalSome DEF Receipt
  <2>4. is_revoked(q)
    BY <2>3 DEF is_revoked, revocations
  <2> DEFINE r == revoke(q, now)
  <2>5. h.receipt = r /\ h.next_operation_id = g.next_operation_id
    <3>1. h = [g EXCEPT !.receipt = r]
      BY <2>1
    <3> HIDE DEF r
    <3> QED BY <3>1 DEF Gate
  <2>6. h \in Gate
    BY CancelType
  <2> HIDE DEF q
  <2>7. Revokes(h, g)
    BY <2>3, <2>4, <2>5, <2>6, ReceiptRevokes
  <2> QED BY <1>2, <2>7
<1> QED BY <1>1, <1>2

LEMMA WithdrawDoes ==
  ASSUME NEW g \in Gate, NEW b, NEW now \in Time, NEW h, h = withdraw_binding(g, b, now)
  PROVE  IF withdraws_binding(g, b, now) /\ withdraws_current(g) THEN Revokes(h, g)
         ELSE Tells(h, g) /\ Withholds(h, g)
<1> DEFINE q == [g.receipt EXCEPT !.withdrawn_at = {now}]
           r == IF withdraws_current(g) THEN revoke(q, now) ELSE g.receipt
           w == IF has_candidate(g) THEN g.withdrawn_at ELSE {now}
<1>1. CASE ~withdraws_binding(g, b, now)
  <2>1. h = g
    BY <1>1 DEF withdraw_binding
  <2> QED BY <1>1, <2>1, NothingTells
<1>2. CASE withdraws_binding(g, b, now)
  <2>1. h = [g EXCEPT !.last_binding_control_at = now, !.init = "recovery_required",
                      !.phase = "withdrawn", !.candidate = NoCandidate,
                      !.withdrawn_at = w, !.receipt = r]
    BY <1>2 DEF withdraw_binding
  <2>2. h.receipt = r /\ h.next_operation_id = g.next_operation_id
    <3> HIDE DEF r, w
    <3> QED BY <2>1 DEF Gate
  <2>3. h \in Gate
    BY WithdrawType
  <2>4. CASE ~withdraws_current(g)
    BY <2>2, <2>3, <2>4, OtherTells
  <2>5. CASE withdraws_current(g)
    <3>1. g.receipt \in Receipt
      BY DEF Gate
    <3>2. /\ q \in Receipt /\ q.authority = g.receipt.authority
          /\ q.dispatch = g.receipt.dispatch /\ q.outcome = g.receipt.outcome
          /\ q.output = g.receipt.output /\ q.withdrawn_at = {now}
          /\ q.stop_requested_at = g.receipt.stop_requested_at
      BY <3>1, OptionalSome DEF Receipt
    <3>3. is_revoked(q)
      BY <3>2 DEF is_revoked, revocations
    <3> DEFINE s == revoke(q, now)
    <3>4. h.receipt = s
      BY <2>2, <2>5
    <3> HIDE DEF q, s
    <3>5. s = revoke(q, now)
      BY DEF s
    <3>6. Revokes(h, g)
      BY <2>2, <2>3, <3>2, <3>3, <3>4, <3>5, ReceiptRevokes
    <3> QED BY <1>2, <2>5, <3>6
  <2> QED BY <2>4, <2>5
<1> QED BY <1>1, <1>2

\* A dispatch is claimed for an operation that nobody revoked.
LEMMA DispatchDoes ==
  ASSUME NEW g \in Gate, NEW a, NEW now \in Time, claims_dispatch(g, a, now),
         NEW h, h = claim_dispatch(g, a, now)
  PROVE  /\ Goes(h, g) /\ Withholds(h, g) /\ h.receipt.dispatch = "submitted"
         /\ ~is_revoked(h.receipt)
         /\ h.receipt.stop_requested_at = g.receipt.stop_requested_at
<1>1. h \in Gate
  BY DispatchType
<1>2. h = [g EXCEPT !.receipt.dispatch = "submitted",
                    !.receipt.dispatched_at = {now}]
  BY DEF claim_dispatch
<1>3. g.receipt \in Receipt
  BY DEF Gate
<1> DEFINE q == [g.receipt EXCEPT !.dispatch = "submitted", !.dispatched_at = {now}]
<1>4. h.receipt = q /\ h.next_operation_id = g.next_operation_id
  <2>1. h = [g EXCEPT !.receipt = q]
    BY <1>2, <1>3 DEF Gate
  <2> HIDE DEF q
  <2> QED BY <2>1 DEF Gate
<1>5. /\ h.receipt.authority = g.receipt.authority
      /\ h.receipt.output = g.receipt.output /\ h.receipt.dispatch = "submitted"
      /\ h.receipt.cancelled_at = g.receipt.cancelled_at
      /\ h.receipt.expired_at = g.receipt.expired_at
      /\ h.receipt.withdrawn_at = g.receipt.withdrawn_at
      /\ h.receipt.stop_requested_at = g.receipt.stop_requested_at
      /\ h.receipt.disposition = g.receipt.disposition
  BY <1>3, <1>4 DEF Receipt
<1>6. revocations(h.receipt) = revocations(g.receipt)
  BY <1>5 DEF revocations
<1>7. ~is_revoked(g.receipt)
  BY DEF claims_dispatch
<1>8. Grounded(g.receipt) => Grounded(h.receipt)
  BY <1>5, <1>6 DEF Grounded, is_revoked
<1> QED BY <1>1, <1>4, <1>5, <1>6, <1>7, <1>8 DEF Goes, Withholds, is_revoked

\* The operation that follows, with a receipt of its own.
LEMMA AdmitDoes ==
  ASSUME NEW g \in Gate, NEW now \in Time, NEW d \in Optional(Time),
         NEW x \in Optional(Requirements),
         admits(g, [requested_at |-> now, deadline |-> d, requirements |-> x]),
         NEW h, h = admit(g, [requested_at |-> now, deadline |-> d, requirements |-> x])
  PROVE  /\ h \in Gate /\ Grounded(h.receipt)
         /\ h.receipt.authority.operation_id = g.next_operation_id
         /\ h.next_operation_id = following_operation_id(g.next_operation_id)
         /\ h.receipt.output = "pending"
<1> DEFINE q == [requested_at |-> now, deadline |-> d, requirements |-> x]
           a == [operation_id |-> g.next_operation_id, binding |-> g.binding,
                 admitted_at |-> now]
           r == new_receipt(a, d, x)
<1>1. h \in Gate
  BY AdmitType
<1>2. q.requested_at = now /\ q.deadline = d /\ q.requirements = x
  OBVIOUS
<1>3. h = [g EXCEPT !.next_operation_id = following_operation_id(g.next_operation_id),
                    !.receipt = r, !.last_native = {}]
  BY <1>2 DEF admit
<1>4. /\ r.authority = a /\ r.disposition = "current" /\ r.stop_requested_at = {}
      /\ r.output = "pending"
  BY DEF new_receipt
<1>5. /\ h.receipt = r
      /\ h.next_operation_id = following_operation_id(g.next_operation_id)
  <2> HIDE DEF r
  <2> QED BY <1>3 DEF Gate
<1>6. Grounded(r)
  BY <1>4 DEF Grounded
<1> QED BY <1>1, <1>4, <1>5, <1>6
-----------------------------------------------------------------------------
(* Parts *)

LEMMA NumbersAre ==
  /\ 0 \in Time /\ 1 \in Time /\ Sequence \subseteq Nat /\ 1..6 \subseteq Sequence
  /\ {1, 2} \subseteq NativeIdentity /\ LastOperationId = 2 /\ Time \subseteq Nat
BY OwnerAssumption, NumberAssumption

\* What only the gate differs in.
LEMMA GateFields ==
  ASSUME NEW h \in HostRecord, NEW g \in Gate, NEW r, r = [h EXCEPT !.gate = g]
  PROVE  /\ r \in HostRecord /\ r.gate = g /\ r.pc = h.pc /\ r.owner = h.owner
         /\ r.closure = h.closure /\ r.runtime = h.runtime
         /\ r.corridor = h.corridor /\ r.window = h.window
BY DEF HostRecord

\* What only the owner's members differ in.
LEMMA OwnerFields ==
  ASSUME NEW h \in HostRecord, NEW o \in OwnerRecord, NEW r, r = [h EXCEPT !.owner = o]
  PROVE  /\ r \in HostRecord /\ r.gate = h.gate /\ r.pc = h.pc /\ r.owner = o
         /\ r.closure = h.closure /\ r.runtime = h.runtime
         /\ r.corridor = h.corridor /\ r.window = h.window
BY DEF HostRecord

\* A record of the owner, with a number of its own.
LEMMA RecordType ==
  ASSUME NEW source \in Source, NEW n \in 1..6
  PROVE  record(source, n) \in EvidenceRecord
BY NumbersAre DEF record, EvidenceRecord

\* What failed is marked so, and nothing else.
Failed(goal) == [goal EXCEPT !.error = TRUE]

LEMMA FailedIs ==
  ASSUME NEW h \in HostRecord, NEW r, r = failed(h)
  PROVE  /\ r \in HostRecord
         /\ r = [h EXCEPT !.owner = [h.owner EXCEPT !.goal = Failed(h.owner.goal)]]
         /\ r.owner = [h.owner EXCEPT !.goal = Failed(h.owner.goal)]
         /\ r.gate = h.gate /\ r.pc = h.pc
         /\ r.closure = h.closure /\ r.runtime = h.runtime
         /\ r.corridor = h.corridor /\ r.window = h.window
<1>1. h.owner \in OwnerRecord /\ h.owner.goal \in Goal
  BY DEF HostRecord, OwnerRecord
<1>2. Failed(h.owner.goal) \in Goal
  BY <1>1 DEF Goal, Failed
<1> DEFINE o == [h.owner EXCEPT !.goal = Failed(h.owner.goal)]
<1>3. o \in OwnerRecord
  BY <1>1, <1>2 DEF OwnerRecord
<1>4. r = [h EXCEPT !.owner = o]
  BY <1>1 DEF failed, Failed, HostRecord, OwnerRecord
<1> HIDE DEF o
<1>5. /\ r \in HostRecord /\ r.owner = o /\ r.gate = h.gate /\ r.pc = h.pc
      /\ r.closure = h.closure /\ r.runtime = h.runtime
      /\ r.corridor = h.corridor /\ r.window = h.window
  BY <1>3, <1>4, OwnerFields
<1> QED BY <1>4, <1>5 DEF o

LEMMA FailedGoal ==
  ASSUME NEW goal \in Goal
  PROVE  /\ Failed(goal) \in Goal /\ Failed(goal).error
         /\ Failed(goal).handle = goal.handle /\ Failed(goal).feedback = goal.feedback
         /\ Failed(goal).done = goal.done /\ Failed(goal).loss = goal.loss
         /\ Failed(goal).stop_requested = goal.stop_requested
         /\ Failed(goal).stop_sent = goal.stop_sent
BY DEF Failed, Goal

LEMMA FailedCounts ==
  ASSUME NEW goal \in Goal
  PROVE  /\ Over(goal) \in Nat /\ Count(goal.handle) \in 0..1
         /\ Count(goal.feedback) \in 0..1
         /\ ~goal.error => Over(Failed(goal)) = Over(goal) + 1
<1>1. Failed(goal).error /\ Failed(goal).done = goal.done
  BY FailedGoal
<1>2. CASE goal.done
  BY <1>1, <1>2 DEF Over, Count
<1>3. CASE ~goal.done
  BY <1>1, <1>3 DEF Over, Count
<1> QED BY <1>2, <1>3

-----------------------------------------------------------------------------
(* What a callback of the goal does *)

\* A callback of the goal, or a look at the watches, in the wait of h.
Told(r, h) ==
  /\ r \in HostRecord /\ Goes(r.gate, h.gate)
  /\ r.pc = h.pc /\ r.runtime = h.runtime
  /\ r.corridor = h.corridor /\ r.window = h.window
  /\ r.owner.sends = h.owner.sends /\ r.owner.refused = h.owner.refused
  /\ r.closure.facts = [h.closure.facts EXCEPT !.parent = r.closure.facts.parent]
  /\ h.closure.requested => r.closure.requested
  /\ r.closure.response = h.closure.response
  /\ h.owner.goal.done => r.owner.goal.done
  /\ h.owner.goal.loss => r.owner.goal.loss

\* A report: apart from the gate and the numbers, only the error may differ.
Reports(r, h) ==
  /\ Told(r, h) /\ r.closure = h.closure
  /\ r.owner.goal \in {h.owner.goal, Failed(h.owner.goal)}

\* The owner may report about its goal.
Speaks(h, n, k) ==
  /\ h \in HostRecord /\ n \in Int /\ k \in Int
  /\ Current(h) /\ GateSound(h) /\ Within(h, n, k)
  /\ ~h.owner.goal.error => Asked(h)

LEMMA ToldSelf ==
  ASSUME NEW h \in HostRecord PROVE Told(h, h)
<1>1. h.closure.facts \in Facts /\ h.gate \in Gate
  BY DEF HostRecord, ClosureRecord
<1>2. h.closure.facts = [h.closure.facts EXCEPT !.parent = h.closure.facts.parent]
  BY <1>1 DEF Facts
<1> QED BY <1>1, <1>2 DEF Told, Goes

LEMMA ToldOn ==
  ASSUME NEW h \in HostRecord, NEW r, NEW q, Told(r, h), Told(q, r) PROVE Told(q, h)
<1>1. h.closure.facts \in Facts
  BY DEF HostRecord, ClosureRecord
<1>2. q.closure.facts = [h.closure.facts EXCEPT !.parent = q.closure.facts.parent]
  BY <1>1 DEF Told, Facts
<1> QED BY <1>2 DEF Told, Goes

\* The record of a failure covers what was numbered: a more than n is i more.
Spent(i, n, a) == i \in Int /\ n + a <= i + 1

\* The owner counts what it reports: the report is accepted, or the goal fails.
LEMMA CountedSpeaks ==
  ASSUME NEW h \in HostRecord, NEW n, NEW k, Speaks(h, n, k), ~h.owner.goal.error,
         NEW a \in 0..1, NEW b \in 0..1, NEW o \in OwnerRecord,
         o.goal = h.owner.goal /\ o.sends = h.owner.sends,
         o.refused = h.owner.refused,
         o.native_sequence <= h.owner.native_sequence + a,
         o.output_sequence <= h.owner.output_sequence + b,
         o.settlement_sequence <= h.owner.settlement_sequence + b,
         NEW i, NEW j, Spent(i, n, a), Spent(j, k, b), NEW accepted \in BOOLEAN, NEW g, Tells(g, h.gate),
         NEW r, r = report([h EXCEPT !.owner = o], accepted, g)
  PROVE  /\ Reports(r, h) /\ Speaks(r, n + a, k + b) /\ r.gate \in {g, h.gate}
         /\ r.owner.goal.error => Speaks(r, i, j)
<1> DEFINE x == [h EXCEPT !.owner = o]
<1>1. h.owner \in OwnerRecord /\ h.gate \in Gate /\ n \in Int /\ k \in Int
  BY DEF HostRecord, Speaks
<1>2. /\ x \in HostRecord /\ x.gate = h.gate /\ x.pc = h.pc /\ x.closure = h.closure
      /\ x.runtime = h.runtime /\ x.corridor = h.corridor /\ x.window = h.window
      /\ x.owner = o
  BY OwnerFields
<1>3. r = [x EXCEPT !.gate = g] \/ r = failed(x)
  <2>1. r = report(x, accepted, g)
    OBVIOUS
  <2> HIDE DEF x
  <2> QED BY <2>1 DEF report
<1> HIDE DEF x
<1>4. Generation(x) = Generation(h) /\ Generation(h) \in 1..2
  BY <1>2 DEF Generation, HostRecord, ClosureRecord, Facts
<1>5. /\ Over(h.owner.goal) \in Nat /\ Count(h.owner.goal.handle) \in Nat
      /\ Count(h.owner.goal.feedback) \in Nat /\ h.owner.sends \in 0..2
      /\ h.owner.native_sequence \in Nat /\ h.owner.output_sequence \in Nat
      /\ h.owner.settlement_sequence \in Nat /\ o.native_sequence \in Nat
      /\ o.output_sequence \in Nat /\ o.settlement_sequence \in Nat
  BY <1>1, FailedCounts DEF OwnerRecord
<1>6. Within(x, n + a, k + b)
  <2>1. Within(h, n, k)
    BY DEF Speaks
  <2> QED BY <1>1, <1>2, <1>4, <1>5, <2>1 DEF Within
<1> DEFINE c == n + a
           d == k + b
<1>7. /\ c \in Int /\ d \in Int /\ i \in Int /\ j \in Int
      /\ i >= c - 1 /\ j >= d - 1
  BY <1>1 DEF Spent
<1>8. Within(x, c, d)
  BY <1>6
<1>9. /\ x.owner.goal = h.owner.goal /\ x.owner.sends = h.owner.sends
      /\ x.owner.refused = h.owner.refused
  BY <1>2
<1> HIDE DEF c, d
<1>10. SUFFICES /\ Reports(r, h) /\ Speaks(r, c, d) /\ r.gate \in {g, h.gate}
                /\ r.owner.goal.error => Speaks(r, i, j)
  BY DEF c, d
<1>11. /\ h.gate \in Gate /\ h.owner.goal \in Goal /\ x.owner \in OwnerRecord
      /\ h.closure \in ClosureRecord /\ g \in Gate
  BY <1>1, <1>2 DEF HostRecord, OwnerRecord, Tells, Goes
<1>12. h.closure.facts \in Facts
  BY <1>11 DEF ClosureRecord
<1>13. h.closure.facts = [h.closure.facts EXCEPT !.parent = h.closure.facts.parent]
  BY <1>12 DEF Facts
<1>14. CASE r = [x EXCEPT !.gate = g]
  <2>2. /\ r \in HostRecord /\ r.gate = g /\ r.pc = x.pc /\ r.owner = x.owner
        /\ r.closure = x.closure /\ r.runtime = x.runtime
        /\ r.corridor = x.corridor /\ r.window = x.window
    BY <1>2, <1>11, <1>14, GateFields
  <2>3. Goes(g, h.gate)
    BY DEF Tells
  <2>4. Reports(r, h)
    BY <1>2, <1>9, <1>13, <2>2, <2>3 DEF Reports, Told
  <2>5. Current(r) /\ GateSound(r)
    BY <1>2, <1>9, <2>2, <2>3 DEF Speaks, Current, GateSound, Goes, Generation
  <2>6. Within(r, c, d)
    BY <1>8, <2>2 DEF Within, Generation
  <2>7. Asked(r)
    BY <1>9, <2>2 DEF Speaks, Asked, Tells, is_revoked
  <2>8. ~r.owner.goal.error
    BY <1>9, <2>2
  <2> QED BY <1>7, <2>2, <2>4, <2>5, <2>6, <2>7, <2>8 DEF Speaks
<1>15. CASE r = failed(x)
  <2>2. /\ r \in HostRecord /\ r.gate = x.gate /\ r.pc = x.pc
        /\ r.owner = [x.owner EXCEPT !.goal = Failed(x.owner.goal)]
        /\ r.closure = x.closure /\ r.runtime = x.runtime
        /\ r.corridor = x.corridor /\ r.window = x.window
    BY <1>2, <1>15, FailedIs
  <2>3. /\ r.owner.goal = Failed(h.owner.goal) /\ r.owner.sends = h.owner.sends
        /\ r.owner.refused = h.owner.refused
        /\ r.owner.native_sequence = x.owner.native_sequence
        /\ r.owner.output_sequence = x.owner.output_sequence
        /\ r.owner.settlement_sequence = x.owner.settlement_sequence
    BY <1>9, <1>11, <2>2 DEF OwnerRecord
  <2>4. /\ r.owner.goal.error /\ r.owner.goal.handle = h.owner.goal.handle
        /\ r.owner.goal.feedback = h.owner.goal.feedback
        /\ r.owner.goal.done = h.owner.goal.done
        /\ r.owner.goal.loss = h.owner.goal.loss
    BY <1>11, <2>3, FailedGoal
  <2>5. Goes(r.gate, h.gate)
    BY <1>2, <1>11, <2>2 DEF Goes
  <2>6. Reports(r, h)
    BY <1>2, <1>13, <2>2, <2>3, <2>4, <2>5 DEF Reports, Told
  <2>7. Current(r) /\ GateSound(r)
    BY <1>2, <2>2, <2>3 DEF Speaks, Current, GateSound, Generation
  <2>8. /\ Over(r.owner.goal) = Over(h.owner.goal) + 1
        /\ Over(h.owner.goal) \in Nat
    BY <1>11, <2>3, FailedCounts
  <2>9. /\ r.owner.native_sequence \in Nat /\ r.owner.output_sequence \in Nat
        /\ r.owner.settlement_sequence \in Nat /\ r.owner.sends \in 0..2
        /\ Generation(r) \in 1..2 /\ Generation(x) = Generation(r)
    BY <1>2, <1>9, <1>11, <1>12, <2>2, <2>3 DEF OwnerRecord, Facts, Generation
  <2>10. /\ Count(h.owner.goal.handle) \in Nat /\ Count(h.owner.goal.feedback) \in Nat
    BY <1>11, FailedCounts
  <2>11. Within(r, i, j) /\ Within(r, c, d)
    <3> DEFINE over == Over(h.owner.goal)
    <3>1. /\ r.owner.native_sequence <= 3 * (h.owner.sends - 1)
               + (Count(h.owner.goal.handle) + Count(h.owner.goal.feedback)) + over + c
          /\ r.owner.output_sequence <= h.owner.sends - 1 + over + d
          /\ r.owner.settlement_sequence <= h.owner.sends + Generation(r) - 2 + over + d
      BY <1>8, <1>9, <2>3, <2>9 DEF Within
    <3>2. over \in Nat /\ Over(r.owner.goal) = over + 1
      BY <2>8
    <3> HIDE DEF over
    <3> QED BY <1>1, <1>7, <2>3, <2>4, <2>9, <2>10, <3>1, <3>2 DEF Within
  <2> QED BY <1>1, <1>2, <1>7, <2>2, <2>4, <2>6, <2>7, <2>11 DEF Speaks
<1> QED BY <1>3, <1>14, <1>15

LEMMA NativeSpeaks ==
  ASSUME NEW h \in HostRecord, NEW n, NEW k, Speaks(h, n, k), ~h.owner.goal.error,
         NEW kind \in NativeKind, h.owner.native_sequence <= 5,
         NEW r, r = native(h, kind)
  PROVE  /\ Reports(r, h) /\ Speaks(r, n + 1, k) /\ Withholds(r.gate, h.gate)
         /\ r.owner.goal.error => Speaks(r, n, k)
<1> DEFINE m == h.owner.native_sequence + 1
           o == [h.owner EXCEPT !.native_sequence = m]
           p == record(NativeSource, m)
           id == authority(h).operation_id
           e == [authority |-> authority(h), kind |-> kind, native_identity |-> id,
                 record |-> p]
           g == observe_native(h.gate, e)
           b == accepts_native(h.gate, e)
<1>1. h.owner \in OwnerRecord /\ h.gate \in Gate /\ n \in Int /\ k \in Int
  BY DEF HostRecord, Speaks
<1>2. r = report([h EXCEPT !.owner = o], b, g)
  <2>1. [h EXCEPT !.owner.native_sequence = m] = [h EXCEPT !.owner = o]
    BY <1>1 DEF HostRecord
  <2> QED BY <2>1 DEF native
<1>3. m \in 1..6 /\ o \in OwnerRecord
  BY <1>1 DEF OwnerRecord
<1>4. p \in EvidenceRecord
  BY <1>3, RecordType DEF Source
<1>5. id \in NativeIdentity
  BY NumbersAre DEF Speaks, GateSound, HostRecord, ClosureRecord, Facts, authority,
                    Generation
<1>6. Tells(g, h.gate) /\ Withholds(g, h.gate)
  <2> HIDE DEF p, id
  <2> QED BY <1>1, <1>4, <1>5, NativeTells
<1>7. b \in BOOLEAN
  BY DEF accepts_native
<1>8. /\ o.goal = h.owner.goal /\ o.sends = h.owner.sends
      /\ o.refused = h.owner.refused
      /\ o.native_sequence <= h.owner.native_sequence + 1
      /\ o.output_sequence <= h.owner.output_sequence + 0
      /\ o.settlement_sequence <= h.owner.settlement_sequence + 0
  BY <1>1 DEF OwnerRecord
<1>81. Spent(n, n, 1) /\ Spent(k, k, 0)
  BY <1>1 DEF Spent
<1> HIDE DEF o, g, b
<1>9. /\ Reports(r, h) /\ Speaks(r, n + 1, k + 0) /\ r.gate \in {g, h.gate}
      /\ r.owner.goal.error => Speaks(r, n, k)
  BY <1>2, <1>3, <1>6, <1>7, <1>8, <1>81, CountedSpeaks
<1>10. Withholds(r.gate, h.gate)
  BY <1>1, <1>6, <1>9, NothingTells
<1>11. k + 0 = k
  BY <1>1
<1> QED BY <1>9, <1>10, <1>11

LEMMA NotDeliveredSpeaks ==
  ASSUME NEW h \in HostRecord, NEW n, NEW k, Speaks(h, n, k), ~h.owner.goal.error,
         NEW i, Spent(i, n, 0),
         NEW why \in NonDeliveryReason, h.owner.output_sequence <= 5,
         h.owner.settlement_sequence <= 5, NEW r, r = not_delivered(h, why)
  PROVE  /\ Reports(r, h) /\ Speaks(r, n, k + 1) /\ Withholds(r.gate, h.gate)
         /\ r.owner.goal.error => Speaks(r, i, k)
<1> DEFINE produced == why = "authority_revoked"
           m == 1 + (IF produced THEN h.owner.output_sequence
                     ELSE h.owner.settlement_sequence)
           o == IF produced THEN [h.owner EXCEPT !.output_sequence = m]
                ELSE [h.owner EXCEPT !.settlement_sequence = m]
           p == record(IF produced THEN ResultSinkObserver ELSE SettlementSource, m)
           e == [authority |-> authority(h), reason |-> why, record |-> p]
           g == observe_output_not_delivered(h.gate, e)
           b == accepts_non_delivery(h.gate, e)
<1>1. h.owner \in OwnerRecord /\ h.gate \in Gate /\ n \in Int /\ k \in Int
  BY DEF HostRecord, Speaks
<1>2. r = report([h EXCEPT !.owner = o], b, g)
  <2>1. (IF produced THEN [h EXCEPT !.owner.output_sequence = m]
         ELSE [h EXCEPT !.owner.settlement_sequence = m]) = [h EXCEPT !.owner = o]
    BY <1>1 DEF HostRecord
  <2> QED BY <2>1 DEF not_delivered
<1>3. m \in 1..6
  BY <1>1 DEF OwnerRecord
<1>4. p \in EvidenceRecord
  BY <1>3, RecordType DEF Source
<1>5. Tells(g, h.gate) /\ Withholds(g, h.gate)
  <2> HIDE DEF p
  <2> QED BY <1>1, <1>4, NonDeliveryTells
<1>6. b \in BOOLEAN
  BY DEF accepts_non_delivery
<1>7. /\ o \in OwnerRecord /\ o.goal = h.owner.goal /\ o.sends = h.owner.sends
      /\ o.refused = h.owner.refused
      /\ o.native_sequence <= h.owner.native_sequence + 0
      /\ o.output_sequence <= h.owner.output_sequence + 1
      /\ o.settlement_sequence <= h.owner.settlement_sequence + 1
  <2>1. CASE produced
    BY <1>1, <1>3, <2>1 DEF OwnerRecord
  <2>2. CASE ~produced
    BY <1>1, <1>3, <2>2 DEF OwnerRecord
  <2> QED BY <2>1, <2>2
<1>71. Spent(k, k, 1)
  BY <1>1 DEF Spent
<1> HIDE DEF o, g, b
<1>8. /\ Reports(r, h) /\ Speaks(r, n + 0, k + 1) /\ r.gate \in {g, h.gate}
      /\ r.owner.goal.error => Speaks(r, i, k)
  BY <1>2, <1>5, <1>6, <1>7, <1>71, CountedSpeaks
<1>9. Withholds(r.gate, h.gate)
  BY <1>1, <1>5, <1>8, NothingTells
<1>10. n + 0 = n
  BY <1>1
<1> QED BY <1>8, <1>9, <1>10

LEMMA OutputSpeaks ==
  ASSUME NEW h \in HostRecord, NEW n, NEW k, Speaks(h, n, k), ~h.owner.goal.error,
         NEW i, Spent(i, n, 0),
         h.owner.output_sequence <= 5, NEW r, r = output(h)
  PROVE  /\ Reports(r, h) /\ Speaks(r, n, k + 1)
         /\ r.owner.goal.error => Speaks(r, i, k)
<1> DEFINE m == h.owner.output_sequence + 1
           o == [h.owner EXCEPT !.output_sequence = m]
           p == record(ResultSinkObserver, m)
           e == [authority |-> authority(h), record |-> p]
           g == observe_output_accepted(h.gate, e)
           b == accepts_output(h.gate, e)
<1>1. h.owner \in OwnerRecord /\ h.gate \in Gate /\ n \in Int /\ k \in Int
  BY DEF HostRecord, Speaks
<1>2. r = report([h EXCEPT !.owner = o], b, g)
  <2>1. [h EXCEPT !.owner.output_sequence = m] = [h EXCEPT !.owner = o]
    BY <1>1 DEF HostRecord
  <2> QED BY <2>1 DEF output
<1>3. m \in 1..6 /\ o \in OwnerRecord
  BY <1>1 DEF OwnerRecord
<1>4. p \in EvidenceRecord
  BY <1>3, RecordType DEF Source
<1>5. Tells(g, h.gate)
  <2> HIDE DEF p
  <2> QED BY <1>1, <1>4, OutputTells
<1>6. b \in BOOLEAN
  BY DEF accepts_output
<1>7. /\ o.goal = h.owner.goal /\ o.sends = h.owner.sends
      /\ o.refused = h.owner.refused
      /\ o.native_sequence <= h.owner.native_sequence + 0
      /\ o.output_sequence <= h.owner.output_sequence + 1
      /\ o.settlement_sequence <= h.owner.settlement_sequence + 1
  BY <1>1, <1>3 DEF OwnerRecord
<1>71. Spent(k, k, 1)
  BY <1>1 DEF Spent
<1> HIDE DEF o, g, b
<1>8. /\ Reports(r, h) /\ Speaks(r, n + 0, k + 1)
      /\ r.owner.goal.error => Speaks(r, i, k)
  BY <1>2, <1>3, <1>5, <1>6, <1>7, <1>71, CountedSpeaks
<1>9. n + 0 = n
  BY <1>1
<1> QED BY <1>8, <1>9

\* What the adapter said of the stop.
LEMMA AnswerSpeaks ==
  ASSUME NEW h \in HostRecord, NEW n, NEW k, Speaks(h, n, k), ~h.owner.goal.error,
         NEW answer \in StopResponse, NEW e,
         e = [authority |-> authority(h), acknowledgement |-> answer,
              record |-> record(StopSource, 1)],
         NEW r, r = report(h, accepts_stop_acknowledgement(h.gate, e),
                           observe_stop_acknowledgement(h.gate, e))
  PROVE  Reports(r, h) /\ Speaks(r, n, k) /\ Withholds(r.gate, h.gate)
<1> DEFINE p == record(StopSource, 1)
           g == observe_stop_acknowledgement(h.gate, e)
           b == accepts_stop_acknowledgement(h.gate, e)
           o == h.owner
<1>1. o \in OwnerRecord /\ h.gate \in Gate /\ n \in Int /\ k \in Int
  BY DEF HostRecord, Speaks
<1>2. r = report([h EXCEPT !.owner = o], b, g)
  <2>1. [h EXCEPT !.owner = o] = h
    BY DEF HostRecord
  <2> QED BY <2>1
<1>3. p \in EvidenceRecord
  BY RecordType DEF Source
<1>4. Tells(g, h.gate) /\ Withholds(g, h.gate)
  <2> DEFINE a == authority(h)
  <2>1. g = observe_stop_acknowledgement(h.gate,
              [authority |-> a, acknowledgement |-> answer, record |-> p])
    OBVIOUS
  <2> HIDE DEF p, g, a
  <2> QED BY <1>1, <1>3, <2>1, StopTells
<1>5. b \in BOOLEAN
  BY DEF accepts_stop_acknowledgement
<1>6. /\ o.goal = h.owner.goal /\ o.sends = h.owner.sends
      /\ o.refused = h.owner.refused
      /\ o.native_sequence <= h.owner.native_sequence + 0
      /\ o.output_sequence <= h.owner.output_sequence + 0
      /\ o.settlement_sequence <= h.owner.settlement_sequence + 0
  BY <1>1 DEF OwnerRecord
<1>61. Spent(n, n, 0) /\ Spent(k, k, 0)
  BY <1>1 DEF Spent
<1> HIDE DEF o, g, b
<1>7. /\ Reports(r, h) /\ Speaks(r, n + 0, k + 0) /\ r.gate \in {g, h.gate}
  BY <1>1, <1>2, <1>4, <1>5, <1>6, <1>61, CountedSpeaks
<1>8. Withholds(r.gate, h.gate)
  BY <1>1, <1>4, <1>7, NothingTells
<1>9. n + 0 = n /\ k + 0 = k
  BY <1>1
<1> QED BY <1>7, <1>8, <1>9
-----------------------------------------------------------------------------
(* The callbacks of the goal *)

\* Whatever a callback did before, the record of its failure is the last one.
LEMMA FailedSpeaks ==
  ASSUME NEW h, NEW n, NEW k, Speaks(h, n, k), n <= 1, k <= 1,
         h.owner.goal.error => Speaks(h, 0, 0), NEW r, r = failed(h)
  PROVE  /\ Reports(r, h) /\ Speaks(r, 0, 0) /\ r.owner.goal.error
         /\ r.gate = h.gate
<1>1. h \in HostRecord /\ n \in Int /\ k \in Int
  BY DEF Speaks
<1>2. /\ h.owner \in OwnerRecord /\ h.owner.goal \in Goal
  BY <1>1 DEF HostRecord, OwnerRecord
<1>3. /\ r \in HostRecord /\ r.owner = [h.owner EXCEPT !.goal = Failed(h.owner.goal)]
      /\ r.gate = h.gate /\ r.pc = h.pc /\ r.closure = h.closure
      /\ r.runtime = h.runtime /\ r.corridor = h.corridor /\ r.window = h.window
  BY <1>1, FailedIs
<1>4. /\ r.owner.goal = Failed(h.owner.goal) /\ r.owner.sends = h.owner.sends
      /\ r.owner.refused = h.owner.refused
      /\ r.owner.native_sequence = h.owner.native_sequence
      /\ r.owner.output_sequence = h.owner.output_sequence
      /\ r.owner.settlement_sequence = h.owner.settlement_sequence
  BY <1>2, <1>3 DEF OwnerRecord
<1>5. /\ r.owner.goal.error /\ r.owner.goal.handle = h.owner.goal.handle
      /\ r.owner.goal.feedback = h.owner.goal.feedback
      /\ r.owner.goal.done = h.owner.goal.done
      /\ r.owner.goal.loss = h.owner.goal.loss
  BY <1>2, <1>4, FailedGoal
<1>6. Told(h, h)
  BY <1>1, ToldSelf
<1>7. Reports(r, h)
  BY <1>3, <1>4, <1>5, <1>6 DEF Reports, Told
<1>8. Current(r) /\ GateSound(r)
  BY <1>3, <1>4 DEF Speaks, Current, GateSound, Generation
<1>9. Within(r, 0, 0)
  <2>1. /\ Generation(h) \in 1..2 /\ Generation(r) = Generation(h)
        /\ h.owner.native_sequence \in Nat
        /\ h.owner.output_sequence \in Nat /\ h.owner.settlement_sequence \in Nat
        /\ h.owner.sends \in 0..2
    BY <1>1, <1>2, <1>3 DEF HostRecord, ClosureRecord, Facts, Generation, OwnerRecord
  <2>2. /\ Over(h.owner.goal) \in Nat /\ Count(h.owner.goal.handle) \in Nat
        /\ Count(h.owner.goal.feedback) \in Nat
        /\ ~h.owner.goal.error => Over(r.owner.goal) = Over(h.owner.goal) + 1
    BY <1>2, <1>4, FailedCounts
  <2>3. CASE h.owner.goal.error
    <3>1. Over(r.owner.goal) = Over(h.owner.goal)
      BY <1>5, <2>3 DEF Over, Count
    <3>2. Within(h, 0, 0)
      BY <2>3 DEF Speaks
    <3> QED BY <1>4, <1>5, <2>1, <3>1, <3>2 DEF Within
  <2>4. CASE ~h.owner.goal.error
    <3>1. Within(h, n, k)
      BY DEF Speaks
    <3> DEFINE over == Over(h.owner.goal)
               more == Over(r.owner.goal)
    <3>2. over \in Nat /\ more = over + 1
      BY <2>2, <2>4
    <3>3. /\ h.owner.native_sequence <= 3 * (h.owner.sends - 1)
               + (Count(h.owner.goal.handle) + Count(h.owner.goal.feedback)) + over + n
          /\ h.owner.output_sequence <= h.owner.sends - 1 + over + k
          /\ h.owner.settlement_sequence <= h.owner.sends + Generation(h) - 2 + over + k
      BY <3>1 DEF Within
    <3>4. /\ r.owner.native_sequence <= 3 * (r.owner.sends - 1)
               + (Count(r.owner.goal.handle) + Count(r.owner.goal.feedback)) + more + 0
          /\ r.owner.output_sequence <= r.owner.sends - 1 + more + 0
          /\ r.owner.settlement_sequence <= r.owner.sends + Generation(r) - 2 + more + 0
      <4> HIDE DEF over, more
      <4> QED BY <1>1, <1>4, <1>5, <2>1, <2>2, <3>2, <3>3
    <3> QED BY <3>4 DEF Within
  <2> QED BY <2>3, <2>4
<1> QED BY <1>3, <1>5, <1>7, <1>8, <1>9 DEF Speaks

\* What is so after a callback of the goal, or a look at the watches.
Heard(r, h) ==
  /\ Told(r, h) /\ Speaks(r, 0, 0)
  /\ ~r.owner.goal.error => Relayed(r.owner.goal)

LEMMA HeardOn ==
  ASSUME NEW h \in HostRecord, NEW r, NEW q, Heard(r, h), Heard(q, r) PROVE Heard(q, h)
BY ToldOn DEF Heard, Told

LEMMA FailedHeard ==
  ASSUME NEW h \in HostRecord, NEW y, Told(y, h), NEW n, NEW k, Speaks(y, n, k),
         n <= 1, k <= 1, y.owner.goal.error => Speaks(y, 0, 0), NEW r, r = failed(y)
  PROVE  Heard(r, h) /\ r.owner.goal.error /\ r.gate = y.gate
<1>1. Reports(r, y) /\ Speaks(r, 0, 0) /\ r.owner.goal.error /\ r.gate = y.gate
  BY FailedSpeaks
<1>2. Told(r, h)
  BY <1>1, ToldOn DEF Reports
<1> QED BY <1>1, <1>2 DEF Heard

\* The goal may have numbered as much as the old one, and more.
Covers(goal, i, j, old, n, k) ==
  /\ i \in Int /\ j \in Int
  /\ Count(old.handle) + Count(old.feedback) + Over(old) + n
       <= Count(goal.handle) + Count(goal.feedback) + Over(goal) + i
  /\ Over(old) + k <= Over(goal) + j

Noting(h, goal) == [h EXCEPT !.owner.goal = goal]

\* What a goal was told, it does not forget.
Onward(goal, old) ==
  /\ goal.error <=> old.error
  /\ old.done => goal.done
  /\ old.loss => goal.loss
  /\ old.stop_requested => goal.stop_requested

\* A goal that notes something of itself, apart from what the gate knows of it.
LEMMA NotedSpeaks ==
  ASSUME NEW h \in HostRecord, NEW n, NEW k, Speaks(h, n, k), NEW goal \in Goal,
         NEW i, NEW j, Onward(goal, h.owner.goal),
         Covers(goal, i, j, h.owner.goal, n, k),
         NEW r, r = Noting(h, goal)
  PROVE  /\ Told(r, h) /\ Speaks(r, i, j) /\ r.gate = h.gate /\ r.closure = h.closure
         /\ r.owner.goal = goal /\ r.owner.native_sequence = h.owner.native_sequence
         /\ r.owner.output_sequence = h.owner.output_sequence
         /\ r.owner.settlement_sequence = h.owner.settlement_sequence
<1> DEFINE o == [h.owner EXCEPT !.goal = goal]
<1>1. h.owner \in OwnerRecord /\ h.owner.goal \in Goal /\ n \in Int /\ k \in Int
  BY DEF HostRecord, OwnerRecord, Speaks
<1>2. /\ o \in OwnerRecord /\ o.goal = goal /\ o.sends = h.owner.sends
      /\ o.refused = h.owner.refused /\ o.native_sequence = h.owner.native_sequence
      /\ o.output_sequence = h.owner.output_sequence
      /\ o.settlement_sequence = h.owner.settlement_sequence
  BY <1>1 DEF OwnerRecord
<1>3. r = [h EXCEPT !.owner = o]
  BY <1>1 DEF HostRecord, Noting
<1> HIDE DEF o
<1>4. /\ r \in HostRecord /\ r.gate = h.gate /\ r.pc = h.pc /\ r.owner = o
      /\ r.closure = h.closure /\ r.runtime = h.runtime
      /\ r.corridor = h.corridor /\ r.window = h.window
  BY <1>2, <1>3 DEF HostRecord
<1>5. Told(h, h)
  BY ToldSelf
<1>6. Told(r, h)
  BY <1>2, <1>4, <1>5 DEF Told, Onward
<1>7. Current(r) /\ GateSound(r)
  BY <1>2, <1>4 DEF Speaks, Current, GateSound, Generation
<1>8. ~r.owner.goal.error => Asked(r)
  BY <1>2, <1>4 DEF Speaks, Asked, Onward
<1>9. Within(r, i, j)
  <2>1. /\ Over(h.owner.goal) \in Nat /\ Count(h.owner.goal.handle) \in Nat
        /\ Count(h.owner.goal.feedback) \in Nat /\ Over(goal) \in Nat
        /\ Count(goal.handle) \in Nat /\ Count(goal.feedback) \in Nat
    BY <1>1, FailedCounts
  <2>2. /\ Generation(h) \in 1..2 /\ Generation(r) = Generation(h)
        /\ h.owner.native_sequence \in Nat /\ h.owner.sends \in 0..2
        /\ h.owner.output_sequence \in Nat /\ h.owner.settlement_sequence \in Nat
    BY <1>1, <1>4 DEF HostRecord, ClosureRecord, Facts, Generation, OwnerRecord
  <2>3. /\ h.owner.native_sequence <= 3 * (h.owner.sends - 1)
             + (Count(h.owner.goal.handle) + Count(h.owner.goal.feedback))
             + Over(h.owner.goal) + n
        /\ h.owner.output_sequence <= h.owner.sends - 1 + Over(h.owner.goal) + k
        /\ h.owner.settlement_sequence
             <= h.owner.sends + Generation(h) - 2 + Over(h.owner.goal) + k
    BY DEF Speaks, Within
  <2>4. /\ r.owner.native_sequence <= 3 * (r.owner.sends - 1)
             + (Count(goal.handle) + Count(goal.feedback)) + Over(goal) + i
        /\ r.owner.output_sequence <= r.owner.sends - 1 + Over(goal) + j
        /\ r.owner.settlement_sequence
             <= r.owner.sends + Generation(r) - 2 + Over(goal) + j
    BY <1>1, <1>2, <1>4, <2>1, <2>2, <2>3 DEF Covers
  <2>5. r.owner.goal = goal
    BY <1>2, <1>4
  <2> QED BY <2>4, <2>5 DEF Within
<1> QED BY <1>2, <1>4, <1>6, <1>7, <1>8, <1>9 DEF Speaks, Covers

\* The order to stop reaches a goal whose handle is known.
LEMMA StopHeard ==
  ASSUME NEW h, NEW n, NEW k, Speaks(h, n, k), NEW r, r = send_native_stop(h)
  PROVE  /\ Told(r, h) /\ Speaks(r, n, k) /\ Relayed(r.owner.goal) /\ r.gate = h.gate
         /\ Speaks(h, 0, 0) => Heard(r, h) /\ Speaks(r, 0, 0)
         /\ r.owner.goal.error <=> h.owner.goal.error
         /\ r.owner.goal.loss <=> h.owner.goal.loss
         /\ r.owner.goal.done <=> h.owner.goal.done
<1>1. h \in HostRecord /\ n \in Int /\ k \in Int
  BY DEF Speaks
<1>2. h.owner.goal \in Goal
  BY <1>1 DEF HostRecord, OwnerRecord
<1>3. CASE ~h.owner.goal.handle
  <2>1. r = h
    BY <1>3 DEF send_native_stop
  <2> QED BY <1>1, <1>3, <2>1, ToldSelf DEF Heard, Relayed
<1>4. CASE h.owner.goal.handle
  <2> DEFINE s == [h.owner.goal EXCEPT !.stop_sent = TRUE]
  <2>1. r = Noting(h, s)
    <3>1. r = [h EXCEPT !.owner.goal.stop_sent = TRUE]
      BY <1>4 DEF send_native_stop
    <3> QED BY <1>1, <1>2, <3>1 DEF HostRecord, OwnerRecord, Noting
  <2>2. /\ s \in Goal /\ s.error = h.owner.goal.error /\ s.stop_sent
        /\ s.done = h.owner.goal.done /\ s.loss = h.owner.goal.loss
        /\ s.stop_requested = h.owner.goal.stop_requested
        /\ s.feedback = h.owner.goal.feedback /\ s.handle = h.owner.goal.handle
    BY <1>2 DEF Goal
  <2>3. /\ Over(s) = Over(h.owner.goal) /\ Over(h.owner.goal) \in Nat
        /\ Count(s.feedback) = Count(h.owner.goal.feedback)
        /\ Count(s.handle) = Count(h.owner.goal.handle)
        /\ Count(h.owner.goal.feedback) \in Nat /\ Count(h.owner.goal.handle) \in Nat
    <3>1. /\ Over(h.owner.goal) \in Nat /\ Count(h.owner.goal.feedback) \in Nat
          /\ Count(h.owner.goal.handle) \in Nat
      BY <1>2, FailedCounts
    <3> QED BY <2>2, <3>1 DEF Over
  <2>4. Onward(s, h.owner.goal)
    BY <2>2 DEF Onward
  <2> HIDE DEF s
  <2>5. Covers(s, n, k, h.owner.goal, n, k) /\ Covers(s, 0, 0, h.owner.goal, 0, 0)
    BY <1>1, <2>3 DEF Covers
  <2>6. Told(r, h) /\ Speaks(r, n, k) /\ r.gate = h.gate /\ r.owner.goal = s
    BY <1>1, <2>1, <2>2, <2>4, <2>5, NotedSpeaks
  <2>7. Speaks(h, 0, 0) => Speaks(r, 0, 0)
    BY <1>1, <2>1, <2>2, <2>4, <2>5, NotedSpeaks
  <2> QED BY <2>2, <2>6, <2>7 DEF Heard, Relayed
<1> QED BY <1>3, <1>4

LEMMA ResponseHeard ==
  ASSUME NEW h \in HostRecord, Speaks(h, 0, 0), ~h.owner.goal.error,
         ~h.owner.goal.handle, NEW accepted \in BOOLEAN,
         NEW r, r = goal_response(h, accepted)
  PROVE  Heard(r, h) /\ Withholds(r.gate, h.gate)
<1>1. h.owner.goal \in Goal /\ h.owner.native_sequence \in Nat /\ h.gate \in Gate
  BY DEF HostRecord, OwnerRecord
<1>2. h.owner.native_sequence <= 5
  <2>1. /\ Over(h.owner.goal) \in 0..1 /\ Count(h.owner.goal.handle) = 0
        /\ Count(h.owner.goal.feedback) \in 0..1
    BY <1>1 DEF Over, Count
  <2>2. h.owner.sends \in 0..2
    BY DEF HostRecord, OwnerRecord
  <2> QED BY <1>1, <2>1, <2>2 DEF Speaks, Within
<1>3. "accepted" \in NativeKind /\ "rejected" \in NativeKind
  BY DEF NativeKind
<1>4. CASE ~accepted
  <2> DEFINE y == native(h, "rejected")
             one == 0 + 1
  <2>1. r = failed(y)
    BY <1>4 DEF goal_response
  <2>2. /\ Reports(y, h) /\ Speaks(y, one, 0) /\ Withholds(y.gate, h.gate)
        /\ y.owner.goal.error => Speaks(y, 0, 0)
    BY <1>2, <1>3, NativeSpeaks
  <2>3. one \in Int /\ one <= 1
    OBVIOUS
  <2> HIDE DEF y, one
  <2>4. Heard(r, h) /\ r.gate = y.gate
    BY <2>1, <2>2, <2>3, FailedHeard DEF Reports
  <2> QED BY <2>2, <2>4
<1>5. CASE accepted
  <2> DEFINE g == [h.owner.goal EXCEPT !.handle = TRUE]
             x == [h EXCEPT !.owner.goal = g]
             y == native(x, "accepted")
             b == [y EXCEPT !.closure.facts.parent = TRUE]
             less == 0 - 1
             none == less + 1
  <2>1. /\ g \in Goal /\ g.handle /\ g.error = h.owner.goal.error
        /\ g.done = h.owner.goal.done /\ g.loss = h.owner.goal.loss
        /\ g.stop_requested = h.owner.goal.stop_requested
        /\ g.feedback = h.owner.goal.feedback
    BY <1>1 DEF Goal
  <2>2. less \in Int /\ less <= 0 /\ none = 0 /\ 0 <= less + 1
    OBVIOUS
  <2>3. [h EXCEPT !.owner.goal.handle = TRUE] = x
    BY <1>1 DEF HostRecord, OwnerRecord
  <2>4. r = IF y.owner.goal.error THEN y
            ELSE IF y.owner.goal.stop_requested THEN send_native_stop(b) ELSE b
    <3>1. r = unless_failed(native([h EXCEPT !.owner.goal.handle = TRUE], "accepted"),
                LAMBDA q : LET bound == [q EXCEPT !.closure.facts.parent = TRUE]
                           IN  IF q.owner.goal.stop_requested
                                 THEN send_native_stop(bound) ELSE bound)
      BY <1>5 DEF goal_response
    <3> QED BY <2>3, <3>1 DEF unless_failed, then
  <2>5. Covers(g, less, 0, h.owner.goal, 0, 0)
    <3>1. Over(g) = Over(h.owner.goal) /\ Count(g.feedback) = Count(h.owner.goal.feedback)
      BY <2>1 DEF Over
    <3>2. Count(g.handle) = 1 /\ Count(h.owner.goal.handle) = 0
      BY <2>1 DEF Count
    <3>3. Over(h.owner.goal) \in Nat /\ Count(h.owner.goal.feedback) \in Nat
      BY <1>1, FailedCounts
    <3> HIDE DEF g
    <3> QED BY <2>2, <3>1, <3>2, <3>3 DEF Covers
  <2>55. x = Noting(h, g) /\ Onward(g, h.owner.goal)
    BY <2>1 DEF Onward, Noting
  <2> HIDE DEF g, less, x
  <2>6. /\ Told(x, h) /\ Speaks(x, less, 0) /\ x.gate = h.gate /\ x.owner.goal = g
        /\ x.owner.native_sequence = h.owner.native_sequence
    BY <2>1, <2>2, <2>5, <2>55, NotedSpeaks
  <2>7. x \in HostRecord /\ ~x.owner.goal.error /\ x.owner.native_sequence <= 5
    BY <1>2, <2>1, <2>6 DEF Told
  <2>8. /\ Reports(y, x) /\ Speaks(y, none, 0) /\ Withholds(y.gate, x.gate)
        /\ y.owner.goal.error => Speaks(y, less, 0)
    BY <1>3, <2>6, <2>7, NativeSpeaks
  <2>9. Speaks(y, 0, 0)
    <3> HIDE DEF y, none
    <3> QED BY <2>2, <2>8
  <2> HIDE DEF y
  <2>10. /\ y \in HostRecord /\ Told(y, h) /\ Withholds(y.gate, h.gate)
         /\ ~y.owner.goal.error => y.owner.goal.handle
    <3>1. ~y.owner.goal.error => y.owner.goal = g
      BY <2>1, <2>6, <2>8, FailedGoal DEF Reports
    <3> QED BY <2>1, <2>6, <2>8, <3>1, ToldOn DEF Reports, Told
  <2>11. CASE y.owner.goal.error
    BY <2>4, <2>9, <2>10, <2>11 DEF Heard
  <2>12. CASE ~y.owner.goal.error
    <3> DEFINE f == [y.closure.facts EXCEPT !.parent = TRUE]
               c == [y.closure EXCEPT !.facts = f]
    <3>1. /\ y.closure \in ClosureRecord /\ y.closure.facts \in Facts
          /\ y.owner \in OwnerRecord /\ y.owner.goal \in Goal
      BY <2>10 DEF HostRecord, ClosureRecord, OwnerRecord
    <3>2. /\ f \in Facts /\ f = [y.closure.facts EXCEPT !.parent = f.parent]
          /\ f.generation = y.closure.facts.generation
      BY <3>1 DEF Facts
    <3>3. /\ c \in ClosureRecord /\ c.facts = f /\ c.requested = y.closure.requested
          /\ c.response = y.closure.response
      <4> HIDE DEF f
      <4> QED BY <3>1, <3>2 DEF ClosureRecord
    <3>4. b = [y EXCEPT !.closure = c]
      BY <2>10, <3>1 DEF HostRecord, ClosureRecord
    <3> HIDE DEF c, f
    <3>5. /\ b \in HostRecord /\ b.gate = y.gate /\ b.pc = y.pc /\ b.owner = y.owner
          /\ b.closure = c /\ b.runtime = y.runtime
          /\ b.corridor = y.corridor /\ b.window = y.window
      BY <2>10, <3>3, <3>4 DEF HostRecord
    <3> HIDE DEF b
    <3>6. Told(b, y)
      BY <2>10, <3>2, <3>3, <3>5, ToldSelf DEF Told, Goes
    <3>7. Speaks(b, 0, 0)
      BY <2>9, <3>2, <3>3, <3>5 DEF Speaks, Current, GateSound, Within, Asked, Generation
    <3>8. Told(b, h) /\ Withholds(b.gate, h.gate)
      BY <2>10, <3>5, <3>6, ToldOn
    <3>9. CASE ~y.owner.goal.stop_requested
      <4>1. r = b
        BY <2>4, <2>12, <3>9
      <4> QED BY <3>5, <3>7, <3>8, <3>9, <4>1 DEF Heard, Relayed
    <3>10. CASE y.owner.goal.stop_requested
      <4>1. r = send_native_stop(b)
        BY <2>4, <2>12, <3>10
      <4>2. Heard(r, b) /\ r.gate = b.gate
        BY <3>7, <4>1, StopHeard
      <4> QED BY <3>8, <4>2, ToldOn DEF Heard
    <3> QED BY <3>9, <3>10
  <2> QED BY <2>11, <2>12
<1> QED BY <1>4, <1>5

LEMMA FeedbackHeard ==
  ASSUME NEW h \in HostRecord, Speaks(h, 0, 0), ~h.owner.goal.error,
         ~h.owner.goal.feedback, Relayed(h.owner.goal), NEW r, r = feedback(h)
  PROVE  Heard(r, h) /\ Withholds(r.gate, h.gate)
<1> DEFINE g == [h.owner.goal EXCEPT !.feedback = TRUE]
           x == [h EXCEPT !.owner.goal = g]
           less == 0 - 1
           none == less + 1
<1>1. h.owner.goal \in Goal /\ h.owner.native_sequence \in Nat
  BY DEF HostRecord, OwnerRecord
<1>2. h.owner.native_sequence <= 5
  <2>1. /\ Over(h.owner.goal) \in 0..1 /\ Count(h.owner.goal.feedback) = 0
        /\ Count(h.owner.goal.handle) \in 0..1
    BY <1>1 DEF Over, Count
  <2>2. h.owner.sends \in 0..2
    BY DEF HostRecord, OwnerRecord
  <2> QED BY <1>1, <2>1, <2>2 DEF Speaks, Within
<1>3. /\ g \in Goal /\ g.feedback /\ g.error = h.owner.goal.error
      /\ g.done = h.owner.goal.done /\ g.loss = h.owner.goal.loss
      /\ g.stop_requested = h.owner.goal.stop_requested
      /\ g.handle = h.owner.goal.handle /\ g.stop_sent = h.owner.goal.stop_sent
  BY <1>1 DEF Goal
<1>4. less \in Int /\ less <= 0 /\ none = 0
  OBVIOUS
<1>5. x = Noting(h, g) /\ Onward(g, h.owner.goal)
  BY <1>3 DEF Onward, Noting
<1>6. Covers(g, less, 0, h.owner.goal, 0, 0)
  <2>1. Over(g) = Over(h.owner.goal) /\ Count(g.handle) = Count(h.owner.goal.handle)
    BY <1>3 DEF Over
  <2>2. Count(g.feedback) = 1 /\ Count(h.owner.goal.feedback) = 0
    BY <1>3 DEF Count
  <2>3. Over(h.owner.goal) \in Nat /\ Count(h.owner.goal.handle) \in Nat
    BY <1>1, FailedCounts
  <2> HIDE DEF g
  <2> QED BY <1>4, <2>1, <2>2, <2>3 DEF Covers
<1>7. r = native(x, "started")
  <2>1. [h EXCEPT !.owner.goal.feedback = TRUE] = x
    BY <1>1 DEF HostRecord, OwnerRecord
  <2> QED BY <2>1 DEF feedback
<1> HIDE DEF g, x, less
<1>8. /\ Told(x, h) /\ Speaks(x, less, 0) /\ x.gate = h.gate /\ x.owner.goal = g
      /\ x.owner.native_sequence = h.owner.native_sequence
  BY <1>3, <1>4, <1>5, <1>6, NotedSpeaks
<1>9. x \in HostRecord /\ ~x.owner.goal.error /\ x.owner.native_sequence <= 5
  BY <1>2, <1>3, <1>8 DEF Told
<1>10. "started" \in NativeKind
  BY DEF NativeKind
<1>11. /\ Reports(r, x) /\ Speaks(r, none, 0) /\ Withholds(r.gate, x.gate)
  BY <1>7, <1>8, <1>9, <1>10, NativeSpeaks
<1>12. Speaks(r, 0, 0)
  <2> HIDE DEF none
  <2> QED BY <1>4, <1>11
<1>13. Told(r, h)
  BY <1>8, <1>11, ToldOn DEF Reports
<1>14. ~r.owner.goal.error => Relayed(r.owner.goal)
  <2>1. ~r.owner.goal.error => r.owner.goal = g
    BY <1>3, <1>8, <1>11, FailedGoal DEF Reports
  <2> QED BY <1>3, <2>1 DEF Relayed
<1> QED BY <1>8, <1>11, <1>12, <1>13, <1>14 DEF Heard

LEMMA CancelResponseHeard ==
  ASSUME NEW h \in HostRecord, Speaks(h, 0, 0), ~h.owner.goal.error,
         Relayed(h.owner.goal), NEW answer \in StopResponse,
         NEW r, r = cancel_response(h, answer)
  PROVE  Heard(r, h) /\ Withholds(r.gate, h.gate)
<1> DEFINE e == [authority |-> authority(h), acknowledgement |-> answer,
                 record |-> record(StopSource, 1)]
           y == report(h, accepts_stop_acknowledgement(h.gate, e),
                       observe_stop_acknowledgement(h.gate, e))
<1>1. r = IF y.owner.goal.error THEN y
          ELSE [y EXCEPT !.owner.goal.cancel_seen = TRUE]
  <2>1. r = unless_failed(y, LAMBDA q : [q EXCEPT !.owner.goal.cancel_seen = TRUE])
    BY DEF cancel_response
  <2> HIDE DEF y
  <2> QED BY <2>1 DEF unless_failed, then
<1>2. Reports(y, h) /\ Speaks(y, 0, 0) /\ Withholds(y.gate, h.gate)
  BY AnswerSpeaks
<1> HIDE DEF y
<1>3. y \in HostRecord /\ y.owner.goal \in Goal /\ Told(y, h)
  BY <1>2 DEF Reports, Told, HostRecord, OwnerRecord
<1>4. CASE y.owner.goal.error
  BY <1>1, <1>2, <1>3, <1>4 DEF Heard
<1>5. CASE ~y.owner.goal.error
  <2> DEFINE g == [y.owner.goal EXCEPT !.cancel_seen = TRUE]
  <2>1. r = Noting(y, g)
    <3>1. r = [y EXCEPT !.owner.goal.cancel_seen = TRUE]
      BY <1>1, <1>5
    <3> QED BY <1>3, <3>1 DEF HostRecord, OwnerRecord, Noting
  <2>2. y.owner.goal = h.owner.goal
    BY <1>2, <1>3, <1>5, FailedGoal DEF Reports, HostRecord, OwnerRecord
  <2>3. /\ g \in Goal /\ g.feedback = y.owner.goal.feedback
        /\ g.error = y.owner.goal.error
        /\ g.done = y.owner.goal.done /\ g.loss = y.owner.goal.loss
        /\ g.stop_requested = y.owner.goal.stop_requested
        /\ g.handle = y.owner.goal.handle /\ g.stop_sent = y.owner.goal.stop_sent
    BY <1>3 DEF Goal
  <2>4. Onward(g, y.owner.goal) /\ Relayed(g)
    BY <2>2, <2>3 DEF Onward, Relayed
  <2>5. Covers(g, 0, 0, y.owner.goal, 0, 0)
    <3>1. /\ Over(g) = Over(y.owner.goal) /\ Over(y.owner.goal) \in Nat
          /\ Count(g.feedback) = Count(y.owner.goal.feedback)
          /\ Count(g.handle) = Count(y.owner.goal.handle)
          /\ Count(y.owner.goal.feedback) \in Nat /\ Count(y.owner.goal.handle) \in Nat
      <4>1. /\ Over(y.owner.goal) \in Nat /\ Count(y.owner.goal.feedback) \in Nat
            /\ Count(y.owner.goal.handle) \in Nat
        BY <1>3, FailedCounts
      <4> QED BY <2>3, <4>1 DEF Over
    <3> HIDE DEF g
    <3> QED BY <3>1 DEF Covers
  <2> HIDE DEF g
  <2>6. Told(r, y) /\ Speaks(r, 0, 0) /\ r.gate = y.gate /\ r.owner.goal = g
    BY <1>2, <1>3, <2>1, <2>3, <2>4, <2>5, NotedSpeaks
  <2>7. Told(r, h)
    BY <1>3, <2>6, ToldOn
  <2> QED BY <1>2, <2>4, <2>6, <2>7 DEF Heard
<1> QED BY <1>4, <1>5

\* The drive may be asked to close at any time.
LEMMA CloseAsked ==
  ASSUME NEW h, NEW n, NEW k, Speaks(h, n, k), NEW r, r = request_drive_close(h)
  PROVE  /\ Told(r, h) /\ Speaks(r, n, k) /\ r.gate = h.gate /\ r.owner = h.owner
         /\ r.closure.requested /\ r.closure.facts = h.closure.facts
<1> DEFINE c == [h.closure EXCEPT !.requested = TRUE]
<1>1. h \in HostRecord /\ h.closure \in ClosureRecord
  BY DEF Speaks, HostRecord
<1>2. r = [h EXCEPT !.closure = c]
  BY <1>1 DEF request_drive_close, HostRecord
<1>3. /\ c \in ClosureRecord /\ c.requested /\ c.facts = h.closure.facts
      /\ c.response = h.closure.response
  BY <1>1 DEF ClosureRecord
<1> HIDE DEF c
<1>4. /\ r \in HostRecord /\ r.gate = h.gate /\ r.pc = h.pc /\ r.owner = h.owner
      /\ r.closure = c /\ r.runtime = h.runtime
      /\ r.corridor = h.corridor /\ r.window = h.window
  BY <1>1, <1>2, <1>3 DEF HostRecord
<1>5. Told(h, h)
  BY <1>1, ToldSelf
<1>6. Told(r, h)
  BY <1>3, <1>4, <1>5 DEF Told
<1> QED BY <1>3, <1>4, <1>6
        DEF Speaks, Current, GateSound, Within, Asked, Generation

Turning(h, g, goal) == [h EXCEPT !.gate = g, !.owner.goal = goal]

\* What a revocation does to the gate and to the goal.
LEMMA TurnedSpeaks ==
  ASSUME NEW h \in HostRecord, NEW n, NEW k, Speaks(h, n, k), NEW goal \in Goal,
         Onward(goal, h.owner.goal), Covers(goal, n, k, h.owner.goal, n, k),
         NEW g, \/ Tells(g, h.gate)
                \/ /\ Revokes(g, h.gate)
                   /\ should_request_native_stop(h.gate.receipt) => goal.stop_requested,
         NEW r, r = Turning(h, g, goal)
  PROVE  /\ Told(r, h) /\ Speaks(r, n, k) /\ r.gate = g /\ r.closure = h.closure
         /\ r.owner.goal = goal
<1> DEFINE x == Noting(h, goal)
<1>1. h.owner \in OwnerRecord /\ g \in Gate
  BY DEF HostRecord, Tells, Revokes, Goes
<1>2. r = [x EXCEPT !.gate = g]
  BY <1>1 DEF Turning, Noting, HostRecord
<1>3. /\ Told(x, h) /\ Speaks(x, n, k) /\ x.gate = h.gate /\ x.closure = h.closure
      /\ x.owner.goal = goal
  BY NotedSpeaks
<1> HIDE DEF x
<1>4. /\ r \in HostRecord /\ r.gate = g /\ r.pc = x.pc /\ r.owner = x.owner
      /\ r.closure = x.closure /\ r.runtime = x.runtime
      /\ r.corridor = x.corridor /\ r.window = x.window
  BY <1>1, <1>2, <1>3 DEF Told, HostRecord
<1>5. Goes(g, h.gate)
  BY DEF Tells, Revokes
<1>6. Told(r, h)
  BY <1>3, <1>4, <1>5 DEF Told
<1>7. Current(r) /\ GateSound(r)
  BY <1>3, <1>4, <1>5 DEF Speaks, Current, GateSound, Goes, Generation
<1>8. Within(r, n, k)
  BY <1>3, <1>4 DEF Speaks, Within, Generation
<1>9. ~r.owner.goal.error => Asked(r)
  <2> SUFFICES ASSUME ~goal.error PROVE Asked(r)
    BY <1>3, <1>4
  <2>1. Asked(x)
    BY <1>3 DEF Speaks
  <2>2. Asked(h)
    BY DEF Speaks, Onward
  <2>3. CASE Tells(g, h.gate)
    BY <1>3, <1>4, <2>1, <2>3 DEF Asked, Tells, is_revoked
  <2>4. CASE /\ Revokes(g, h.gate)
             /\ should_request_native_stop(h.gate.receipt) => goal.stop_requested
    BY <1>3, <1>4, <2>1, <2>4 DEF Asked, Revokes, should_request_native_stop
  <2> QED BY <2>3, <2>4
<1> QED BY <1>3, <1>4, <1>6, <1>7, <1>8, <1>9 DEF Speaks

\* A callback that has numbered n and k more than it has noted.
Following(r, h, n, k) ==
  /\ Told(r, h)
  /\ r.owner.goal.error => Speaks(r, 0, 0)
  /\ ~r.owner.goal.error => Speaks(r, n, k) /\ Relayed(r.owner.goal)

LEMMA CheckFollows ==
  ASSUME NEW h \in HostRecord, NEW n, NEW k, Speaks(h, n, k), n <= 1, k <= 1,
         h.owner.goal.error => Speaks(h, 0, 0),
         ~h.owner.goal.error => Relayed(h.owner.goal),
         NEW r, r = check_runtime_observations(h)
  PROVE  /\ Following(r, h, n, k) /\ Withholds(r.gate, h.gate)
         /\ ~h.owner.goal.done /\ ~r.owner.goal.error => ~r.owner.goal.done
         /\ stale(h.runtime) # {} => r.owner.goal.loss \/ r.owner.goal.error
<1> DEFINE g == withdraw_binding(h.gate, InitialBinding, 0)
           stop == /\ withdraws_current(h.gate)
                   /\ should_request_native_stop(h.gate.receipt)
           lost == [h EXCEPT !.gate = withdraw_binding(@, InitialBinding, 0),
                             !.owner.goal.loss = TRUE]
           x == request_drive_close(lost)
<1>1. /\ h.owner \in OwnerRecord /\ h.owner.goal \in Goal /\ h.gate \in Gate
      /\ h.closure \in ClosureRecord /\ n \in Int /\ k \in Int
  BY DEF HostRecord, OwnerRecord, Speaks
<1>2. Withholds(h.gate, h.gate) /\ Told(h, h)
  BY <1>1, NothingTells, ToldSelf
<1>3. CASE h.owner.goal.loss \/ h.owner.goal.error \/ stale(h.runtime) = {}
  <2>1. r = h
    BY <1>3 DEF check_runtime_observations
  <2> QED BY <1>2, <1>3, <2>1 DEF Following
<1>4. CASE /\ ~(h.owner.goal.loss \/ h.owner.goal.error \/ stale(h.runtime) = {})
           /\ ~withdraws_binding(h.gate, InitialBinding, 0)
  <2>1. r = failed(h)
    BY <1>4 DEF check_runtime_observations
  <2>2. Heard(r, h) /\ r.owner.goal.error /\ r.gate = h.gate
    BY <1>2, <2>1, FailedHeard
  <2> QED BY <1>2, <2>2 DEF Following, Heard
<1>5. CASE /\ ~(h.owner.goal.loss \/ h.owner.goal.error \/ stale(h.runtime) = {})
           /\ withdraws_binding(h.gate, InitialBinding, 0)
  <2>1. r = IF ~stop THEN x
            ELSE send_native_stop([x EXCEPT !.owner.goal.stop_requested = TRUE])
    <3>1. r = then(x, LAMBDA q :
                IF ~stop THEN q
                ELSE send_native_stop([q EXCEPT !.owner.goal.stop_requested = TRUE]))
      BY <1>5 DEF check_runtime_observations
    <3> HIDE DEF x, stop
    <3> QED BY <3>1 DEF then
  <2>2. 0 \in Time
    BY NumbersAre
  <2>3. IF withdraws_current(h.gate) THEN Revokes(g, h.gate)
        ELSE Tells(g, h.gate) /\ Withholds(g, h.gate)
    BY <1>1, <1>5, <2>2, WithdrawDoes
  <2>4. Withholds(g, h.gate)
    BY <2>3 DEF Revokes
  <2> DEFINE goal == [h.owner.goal EXCEPT !.loss = TRUE,
                        !.stop_requested = IF stop THEN TRUE ELSE @]
             y == Turning(h, g, goal)
             z == request_drive_close(y)
  <2>5. /\ goal \in Goal /\ goal.loss /\ goal.error = h.owner.goal.error
        /\ goal.done = h.owner.goal.done /\ goal.handle = h.owner.goal.handle
        /\ goal.feedback = h.owner.goal.feedback
        /\ goal.stop_sent = h.owner.goal.stop_sent
        /\ stop => goal.stop_requested
        /\ ~stop => goal.stop_requested = h.owner.goal.stop_requested
    <3>1. CASE stop
      <4>1. goal = [h.owner.goal EXCEPT !.loss = TRUE, !.stop_requested = TRUE]
        BY <3>1
      <4> HIDE DEF goal, stop
      <4> QED BY <1>1, <3>1, <4>1 DEF Goal
    <3>2. CASE ~stop
      <4>1. goal = [h.owner.goal EXCEPT !.loss = TRUE]
        BY <1>1, <3>2 DEF Goal
      <4> HIDE DEF goal, stop
      <4> QED BY <1>1, <3>2, <4>1 DEF Goal
    <3> QED BY <3>1, <3>2
  <2>6. r = IF stop THEN send_native_stop(z) ELSE z
    <3>1. CASE stop
      <4>1. goal = [h.owner.goal EXCEPT !.loss = TRUE, !.stop_requested = TRUE]
        BY <3>1
      <4>2. [x EXCEPT !.owner.goal.stop_requested = TRUE] = z
        <5> HIDE DEF goal, g, stop
        <5> QED BY <1>1, <4>1, ZenonT(60)
                DEF request_drive_close, Turning, HostRecord, OwnerRecord, g
      <4> QED BY <2>1, <3>1, <4>2
    <3>2. CASE ~stop
      <4>1. goal = [h.owner.goal EXCEPT !.loss = TRUE]
        BY <1>1, <3>2 DEF Goal
      <4>2. x = z
        <5> HIDE DEF goal, g, stop
        <5> QED BY <1>1, <4>1, ZenonT(60)
                DEF request_drive_close, Turning, HostRecord, OwnerRecord, g
      <4> QED BY <2>1, <3>2, <4>2
    <3> QED BY <3>1, <3>2
  <2>7. Onward(goal, h.owner.goal)
    BY <2>5 DEF Onward
  <2>8. Covers(goal, n, k, h.owner.goal, n, k)
    <3>1. /\ Over(h.owner.goal) \in Nat /\ Count(h.owner.goal.feedback) \in Nat
          /\ Count(h.owner.goal.handle) \in Nat
      BY <1>1, FailedCounts
    <3>2. /\ Over(goal) = Over(h.owner.goal)
          /\ Count(goal.feedback) = Count(h.owner.goal.feedback)
          /\ Count(goal.handle) = Count(h.owner.goal.handle)
      BY <2>5 DEF Over
    <3> HIDE DEF goal
    <3> QED BY <1>1, <3>1, <3>2 DEF Covers
  <2>9. \/ Tells(g, h.gate)
        \/ /\ Revokes(g, h.gate)
           /\ should_request_native_stop(h.gate.receipt) => goal.stop_requested
    BY <2>3, <2>5
  <2> HIDE DEF goal, g, y, stop
  <2>10. /\ Told(y, h) /\ Speaks(y, n, k) /\ y.gate = g /\ y.closure = h.closure
         /\ y.owner.goal = goal
    BY <2>5, <2>7, <2>8, <2>9, TurnedSpeaks DEF y
  <2>11. /\ Told(z, y) /\ Speaks(z, n, k) /\ z.gate = y.gate /\ z.owner = y.owner
    BY <2>10, CloseAsked
  <2> HIDE DEF z
  <2>12. /\ Told(z, h)
         /\ ~z.owner.goal.error /\ z.owner.goal.loss
         /\ ~h.owner.goal.done => ~z.owner.goal.done
    BY <1>5, <2>5, <2>10, <2>11, ToldOn
  <2>13. CASE ~stop
    <3>1. r = z
      BY <2>6, <2>13
    <3>2. Relayed(z.owner.goal)
      BY <1>5, <2>5, <2>10, <2>11, <2>13 DEF Relayed
    <3> QED BY <2>4, <2>10, <2>11, <2>12, <3>1, <3>2 DEF Following
  <2>14. CASE stop
    <3>1. r = send_native_stop(z)
      BY <2>6, <2>14
    <3>2. /\ Told(r, z) /\ Speaks(r, n, k) /\ Relayed(r.owner.goal) /\ r.gate = z.gate
          /\ ~r.owner.goal.error /\ r.owner.goal.loss
          /\ ~z.owner.goal.done => ~r.owner.goal.done
      BY <2>11, <2>12, <3>1, StopHeard
    <3>3. Told(r, h)
      BY <2>12, <3>2, ToldOn
    <3> QED BY <2>4, <2>10, <2>11, <2>12, <3>2, <3>3 DEF Following
  <2> QED BY <2>13, <2>14
<1> QED BY <1>3, <1>4, <1>5

LEMMA CancelHeard ==
  ASSUME NEW h \in HostRecord, Speaks(h, 0, 0),
         ~h.owner.goal.error => Relayed(h.owner.goal), NEW far,
         NEW r, r = maybe_cancel_moving(h, far)
  PROVE  Heard(r, h) /\ Withholds(r.gate, h.gate)
<1> DEFINE g == request_cancel(h.gate, authority(h), 0)
           reason == IF mode = "resume" THEN decision(h.corridor)
                     ELSE h.owner.goal.reason
           goal == [h.owner.goal EXCEPT !.stop_requested = TRUE, !.reason = reason]
           y == Turning(h, g, goal)
<1>1. /\ h.owner \in OwnerRecord /\ h.owner.goal \in Goal /\ h.gate \in Gate
  BY DEF HostRecord, OwnerRecord
<1>2. Withholds(h.gate, h.gate) /\ Told(h, h)
  BY <1>1, NothingTells, ToldSelf
<1>3. CASE ~wants_cancel(h, far)
  <2>1. r = h
    BY <1>3 DEF maybe_cancel_moving
  <2> QED BY <1>2, <2>1 DEF Heard
<1>4. CASE /\ wants_cancel(h, far)
           /\ ~(/\ applies_cancel(h.gate, authority(h), 0)
                /\ should_request_native_stop(h.gate.receipt))
  <2>1. r = failed(h)
    BY <1>4 DEF maybe_cancel_moving
  <2>2. Heard(r, h) /\ r.gate = h.gate
    BY <1>2, <2>1, FailedHeard
  <2> QED BY <1>2, <2>2
<1>5. CASE /\ wants_cancel(h, far)
           /\ applies_cancel(h.gate, authority(h), 0)
           /\ should_request_native_stop(h.gate.receipt)
  <2>1. reason \in {"", "unknown", "blocked", "continue"}
    BY <1>1 DEF decision, Goal
  <2>2. /\ goal \in Goal /\ goal.stop_requested /\ goal.loss = h.owner.goal.loss
        /\ goal.error = h.owner.goal.error
        /\ goal.done = h.owner.goal.done /\ goal.handle = h.owner.goal.handle
        /\ goal.feedback = h.owner.goal.feedback
    <3> HIDE DEF reason
    <3> QED BY <1>1, <2>1 DEF Goal
  <2>3. r = send_native_stop(y)
    <3>1. [h EXCEPT !.gate = request_cancel(@, authority(h), 0),
                    !.owner.goal.stop_requested = TRUE,
                    !.owner.goal.reason =
                      IF mode = "resume" THEN decision(h.corridor) ELSE @] = y
      <4>1. CASE mode = "resume"
        <5>1. reason = decision(h.corridor)
          BY <4>1
        <5> HIDE DEF reason
        <5> QED BY <1>1, <4>1, <5>1, ZenonT(60) DEF Turning, HostRecord, OwnerRecord, Goal
      <4>2. CASE mode # "resume"
        <5>1. reason = h.owner.goal.reason
          BY <4>2
        <5> HIDE DEF reason
        <5> QED BY <1>1, <4>2, <5>1, ZenonT(60) DEF Turning, HostRecord, OwnerRecord, Goal
      <4> QED BY <4>1, <4>2
    <3> HIDE DEF y
    <3> QED BY <1>5, <3>1 DEF maybe_cancel_moving
  <2>4. 0 \in Time
    BY NumbersAre
  <2>5. Revokes(g, h.gate)
    BY <1>1, <1>5, <2>4, CancelDoes
  <2>6. Onward(goal, h.owner.goal)
    BY <2>2 DEF Onward
  <2>7. Covers(goal, 0, 0, h.owner.goal, 0, 0)
    <3>1. /\ Over(h.owner.goal) \in Nat /\ Count(h.owner.goal.feedback) \in Nat
          /\ Count(h.owner.goal.handle) \in Nat
      BY <1>1, FailedCounts
    <3>2. /\ Over(goal) = Over(h.owner.goal)
          /\ Count(goal.feedback) = Count(h.owner.goal.feedback)
          /\ Count(goal.handle) = Count(h.owner.goal.handle)
      BY <2>2 DEF Over
    <3> HIDE DEF goal
    <3> QED BY <3>1, <3>2 DEF Covers
  <2> HIDE DEF goal, g, y
  <2>8. Told(y, h) /\ Speaks(y, 0, 0) /\ y.gate = g
    BY <2>2, <2>5, <2>6, <2>7, TurnedSpeaks DEF y
  <2>9. Heard(r, y) /\ r.gate = y.gate
    BY <2>3, <2>8, StopHeard
  <2>10. Told(r, h)
    BY <2>8, <2>9, ToldOn DEF Heard
  <2> QED BY <2>5, <2>8, <2>9, <2>10 DEF Heard, Revokes
<1> QED BY <1>3, <1>4, <1>5

Finishing(h) == [h EXCEPT !.owner.goal.done = TRUE]

\* A goal whose end was reported is over.
LEMMA DoneHeard ==
  ASSUME NEW h \in HostRecord, NEW y, Told(y, h), Speaks(y, 1, 1),
         ~y.owner.goal.error, ~y.owner.goal.done, Relayed(y.owner.goal),
         NEW r, r = Finishing(y)
  PROVE  Heard(r, h) /\ r.gate = y.gate
<1> DEFINE g == [y.owner.goal EXCEPT !.done = TRUE]
<1>1. y \in HostRecord /\ y.owner.goal \in Goal
  BY DEF Speaks, HostRecord, OwnerRecord
<1>2. r = Noting(y, g)
  BY <1>1 DEF HostRecord, OwnerRecord, Noting, Finishing
<1>3. /\ g \in Goal /\ g.done /\ g.feedback = y.owner.goal.feedback
      /\ g.error = y.owner.goal.error /\ g.loss = y.owner.goal.loss
      /\ g.stop_requested = y.owner.goal.stop_requested
      /\ g.handle = y.owner.goal.handle /\ g.stop_sent = y.owner.goal.stop_sent
  BY <1>1 DEF Goal
<1>4. Onward(g, y.owner.goal) /\ Relayed(g)
  BY <1>3 DEF Onward, Relayed
<1>5. Covers(g, 0, 0, y.owner.goal, 1, 1)
  <2>1. /\ Count(y.owner.goal.feedback) \in Nat /\ Count(y.owner.goal.handle) \in Nat
    BY <1>1, FailedCounts
  <2>2. /\ Over(g) = 1 /\ Over(y.owner.goal) = 0
        /\ Count(g.feedback) = Count(y.owner.goal.feedback)
        /\ Count(g.handle) = Count(y.owner.goal.handle)
    BY <1>3 DEF Over, Count
  <2> HIDE DEF g
  <2> QED BY <2>1, <2>2 DEF Covers
<1> HIDE DEF g
<1>6. Told(r, y) /\ Speaks(r, 0, 0) /\ r.gate = y.gate /\ r.owner.goal = g
  BY <1>1, <1>2, <1>3, <1>4, <1>5, NotedSpeaks
<1>7. Told(r, h)
  BY <1>6, ToldOn
<1> QED BY <1>4, <1>6, <1>7 DEF Heard

\* One record of the end, then the goal is over, or it failed.
LEMMA EndHeard ==
  ASSUME NEW h \in HostRecord, Speaks(h, 1, 0), ~h.owner.goal.error,
         ~h.owner.goal.done, Relayed(h.owner.goal), NEW y, Reports(y, h),
         Speaks(y, 1, 1), y.owner.goal.error => Speaks(y, 0, 0),
         NEW r, r = IF y.owner.goal.error THEN y ELSE Finishing(y)
  PROVE  Heard(r, h) /\ r.gate = y.gate
<1>1. Told(y, h) /\ h.owner.goal \in Goal
  BY DEF Reports, HostRecord, OwnerRecord
<1>2. CASE y.owner.goal.error
  BY <1>1, <1>2 DEF Heard
<1>3. CASE ~y.owner.goal.error
  <2>1. y.owner.goal = h.owner.goal
    BY <1>1, <1>3, FailedGoal DEF Reports
  <2>2. ~y.owner.goal.done /\ Relayed(y.owner.goal)
    BY <2>1
  <2>3. r = Finishing(y)
    BY <1>3
  <2> QED BY <1>1, <1>3, <2>2, <2>3, DoneHeard
<1> QED BY <1>2, <1>3

LEMMA DeliverHeard ==
  ASSUME NEW h \in HostRecord, Speaks(h, 1, 0), ~h.owner.goal.error,
         ~h.owner.goal.done, Relayed(h.owner.goal), NEW kind, NEW pose,
         NEW r, r = deliver(h, kind, pose)
  PROVE  /\ Heard(r, h)
         /\ h.owner.goal.loss => Withholds(r.gate, h.gate)
<1>1. /\ h.owner \in OwnerRecord /\ h.owner.goal \in Goal /\ h.gate \in Gate
  BY DEF HostRecord, OwnerRecord
<1>2. h.owner.output_sequence <= 5 /\ h.owner.settlement_sequence <= 5
  <2>1. Over(h.owner.goal) = 0
    BY DEF Over, Count
  <2>2. /\ h.owner.sends \in 0..2 /\ Generation(h) \in 1..2
        /\ h.owner.output_sequence \in Nat /\ h.owner.settlement_sequence \in Nat
    BY <1>1 DEF OwnerRecord, HostRecord, ClosureRecord, Facts, Generation
  <2> QED BY <2>1, <2>2 DEF Speaks, Within
<1>3. Spent(0, 1, 0)
  BY DEF Spent
<1> DEFINE one == 0 + 1
<1>4. one = 1
  OBVIOUS
<1>5. CASE h.owner.goal.stop_requested \/ h.owner.goal.loss
  <2> DEFINE why == IF kind = "succeeded" THEN "authority_revoked" ELSE "no_output"
             y == not_delivered(h, why)
  <2>1. why \in NonDeliveryReason
    BY DEF NonDeliveryReason
  <2>2. r = IF y.owner.goal.error THEN y ELSE Finishing(y)
    <3>1. r = unless_failed(y, LAMBDA q : [q EXCEPT !.owner.goal.done = TRUE])
      BY <1>5 DEF deliver
    <3> HIDE DEF y
    <3> QED BY <3>1 DEF unless_failed, then, Finishing
  <2> HIDE DEF why
  <2>3. /\ Reports(y, h) /\ Speaks(y, 1, one) /\ Withholds(y.gate, h.gate)
        /\ y.owner.goal.error => Speaks(y, 0, 0)
    BY <1>2, <1>3, <2>1, NotDeliveredSpeaks
  <2> HIDE DEF y, one
  <2>4. Heard(r, h) /\ r.gate = y.gate
    BY <1>4, <2>2, <2>3, EndHeard
  <2> QED BY <2>3, <2>4
<1>6. CASE /\ ~(h.owner.goal.stop_requested \/ h.owner.goal.loss)
           /\ kind = "succeeded" /\ h.owner.goal.feedback /\ pose
           /\ can_deliver_result(h.gate, authority(h))
  <2> DEFINE y == output(h)
  <2>2. r = IF y.owner.goal.error THEN y ELSE Finishing(y)
    <3>1. r = unless_failed(y, LAMBDA q : [q EXCEPT !.owner.goal.done = TRUE])
      BY <1>6 DEF deliver
    <3> HIDE DEF y
    <3> QED BY <3>1 DEF unless_failed, then, Finishing
  <2>3. /\ Reports(y, h) /\ Speaks(y, 1, one)
        /\ y.owner.goal.error => Speaks(y, 0, 0)
    BY <1>2, <1>3, OutputSpeaks
  <2> HIDE DEF y, one
  <2>4. Heard(r, h)
    BY <1>4, <2>2, <2>3, EndHeard
  <2> QED BY <1>6, <2>4
<1>7. CASE /\ ~(h.owner.goal.stop_requested \/ h.owner.goal.loss)
           /\ ~(/\ kind = "succeeded" /\ h.owner.goal.feedback /\ pose
                /\ can_deliver_result(h.gate, authority(h)))
  <2>1. r = failed(h)
    BY <1>7 DEF deliver
  <2>2. Told(h, h)
    BY ToldSelf
  <2>3. Heard(r, h)
    BY <2>1, <2>2, FailedHeard
  <2> QED BY <1>7, <2>3
<1> QED BY <1>5, <1>6, <1>7

\* A result that comes with a gap, or after one, delivers nothing.
LEMMA ResultHeard ==
  ASSUME NEW h \in HostRecord, Speaks(h, 0, 0), ~h.owner.goal.error,
         ~h.owner.goal.done, Relayed(h.owner.goal), NEW kind \in Terminal, NEW pose,
         NEW r, r = native_result(h, kind, pose)
  PROVE  /\ Heard(r, h)
         /\ stale(h.runtime) # {} \/ h.owner.goal.loss => Withholds(r.gate, h.gate)
<1> DEFINE x == native(h, kind)
           y == check_runtime_observations(x)
           one == 0 + 1
<1>1. r = IF x.owner.goal.error THEN x
          ELSE IF y.owner.goal.error THEN y ELSE deliver(y, kind, pose)
  <2>1. r = unless_failed(x, LAMBDA p :
              unless_failed(check_runtime_observations(p),
                            LAMBDA q : deliver(q, kind, pose)))
    BY DEF native_result
  <2> HIDE DEF x
  <2> QED BY <2>1 DEF unless_failed, then
<1>2. h.owner.goal \in Goal /\ h.owner.native_sequence \in Nat
  BY DEF HostRecord, OwnerRecord
<1>3. h.owner.native_sequence <= 5
  <2>1. /\ Over(h.owner.goal) = 0 /\ Count(h.owner.goal.feedback) \in 0..1
        /\ Count(h.owner.goal.handle) \in 0..1
    BY <1>2 DEF Over, Count
  <2>2. h.owner.sends \in 0..2
    BY DEF HostRecord, OwnerRecord
  <2> QED BY <1>2, <2>1, <2>2 DEF Speaks, Within
<1>4. kind \in NativeKind
  BY DEF Terminal, NativeKind
<1>5. /\ Reports(x, h) /\ Speaks(x, one, 0) /\ Withholds(x.gate, h.gate)
      /\ x.owner.goal.error => Speaks(x, 0, 0)
  BY <1>3, <1>4, NativeSpeaks
<1>6. one = 1
  OBVIOUS
<1> HIDE DEF one, x
<1>7. /\ Speaks(x, 1, 0) /\ x \in HostRecord /\ Told(x, h)
      /\ x.runtime = h.runtime
  BY <1>5, <1>6 DEF Reports, Told
<1>8. CASE x.owner.goal.error
  BY <1>1, <1>5, <1>7, <1>8 DEF Heard
<1>9. CASE ~x.owner.goal.error
  <2>1. x.owner.goal = h.owner.goal
    BY <1>2, <1>5, <1>9, FailedGoal DEF Reports
  <2>2. Relayed(x.owner.goal)
    BY <2>1
  <2>3. /\ Following(y, x, 1, 0) /\ Withholds(y.gate, x.gate)
        /\ stale(x.runtime) # {} => y.owner.goal.loss \/ y.owner.goal.error
        /\ ~x.owner.goal.done /\ ~y.owner.goal.error => ~y.owner.goal.done
    BY <1>7, <1>9, <2>2, CheckFollows
  <2> HIDE DEF y
  <2>4. Told(y, h) /\ y \in HostRecord /\ Withholds(y.gate, h.gate)
    BY <1>5, <1>7, <2>3, ToldOn DEF Following, Told, Withholds
  <2>5. CASE y.owner.goal.error
    BY <1>1, <1>9, <2>3, <2>4, <2>5 DEF Heard, Following
  <2>6. CASE ~y.owner.goal.error
    <3>1. ~y.owner.goal.done /\ Speaks(y, 1, 0) /\ Relayed(y.owner.goal)
      BY <2>1, <2>3, <2>6 DEF Following
    <3>2. r = deliver(y, kind, pose)
      BY <1>1, <1>9, <2>6
    <3>3. Heard(r, y) /\ (y.owner.goal.loss => Withholds(r.gate, y.gate))
      BY <2>4, <2>6, <3>1, <3>2, DeliverHeard
    <3>4. Heard(r, h)
      BY <2>4, <3>3, ToldOn DEF Heard
    <3>5. h.owner.goal.loss \/ stale(h.runtime) # {} => y.owner.goal.loss
      BY <1>7, <2>3, <2>4, <2>6 DEF Told
    <3> QED BY <2>4, <3>3, <3>4, <3>5 DEF Withholds
  <2> QED BY <2>5, <2>6
<1> QED BY <1>8, <1>9

-----------------------------------------------------------------------------
(* What keeps the invariant, whatever the step *)

\* A step that neither admits, nor delivers, nor sends.
Keeps(r, h) ==
  /\ r.gate.receipt.authority = h.gate.receipt.authority
  /\ Withholds(r.gate, h.gate) /\ r.owner.sends = h.owner.sends

LEMMA KeepsSelf == ASSUME NEW h PROVE Keeps(h, h)
BY DEF Keeps, Withholds

LEMMA KeepsOn ==
  ASSUME NEW h, NEW r, NEW q, Keeps(r, h), Keeps(q, r) PROVE Keeps(q, h)
BY DEF Keeps, Withholds

\* The owner of a current goal may report about it.
LEMMA SpeaksNow ==
  ASSUME NEW h, NEW w, NEW t, Sound(h, w, t), Current(h), h.pc # "ended"
  PROVE  /\ Speaks(h, 0, 0) /\ h \in HostRecord
         /\ ~h.owner.goal.error => Relayed(h.owner.goal)
         /\ h.pc \notin {"baseline", "opening", "sealing"} /\ ~h.owner.refused
<1>1. /\ h \in HostRecord /\ GateSound(h) /\ RefusedUnsent(h) /\ Duty(h)
      /\ Placed(h, w) /\ Numbered(h)
  BY DEF Sound, Solid
<1>2. h.owner.sends \in 0..2 /\ Generation(h) \in 1..2
  BY <1>1 DEF HostRecord, OwnerRecord, ClosureRecord, Facts, Generation
<1>3. h.owner.sends = Generation(h)
  BY <1>1 DEF Current, GateSound
<1>4. ~h.owner.refused
  BY <1>1, <1>2, <1>3 DEF RefusedUnsent
<1>5. h.pc \notin {"baseline", "opening", "sealing"}
  BY <1>1, <1>2, <1>3, <1>4 DEF Placed
<1>6. Within(h, 0, 0)
  BY <1>1, <1>2, <1>3, <1>4, <1>5 DEF Numbered
<1> QED BY <1>1, <1>4, <1>5, <1>6 DEF Speaks, Duty

LEMMA HeardSound ==
  ASSUME NEW h, NEW w, NEW t, Sound(h, w, t), Current(h), h.pc # "ended",
         NEW r, Heard(r, h)
  PROVE  /\ Sound(r, w, t) /\ r.owner.sends = h.owner.sends
         /\ r.gate.receipt.authority = h.gate.receipt.authority
         /\ r.pc = h.pc /\ Current(r)
<1>1. /\ h \in HostRecord /\ GateSound(h) /\ RefusedUnsent(h) /\ Duty(h)
      /\ Placed(h, w) /\ Numbered(h) /\ DriveSound(h, w) /\ FactsSound(h, w)
      /\ RestSound(h, w) /\ GapSound(h, t) /\ CorridorSound(h, t)
      /\ w \in WorldRecord /\ t \in TruthRecord
  BY DEF Sound, Solid
<1>2. h.pc \notin {"baseline", "opening", "sealing"} /\ ~h.owner.refused
  BY SpeaksNow
<1>3. Told(r, h) /\ Speaks(r, 0, 0)
  BY DEF Heard
<1>4. h.closure.facts \in Facts /\ r \in HostRecord
  BY <1>1, <1>3 DEF Told, HostRecord, ClosureRecord
<1>5. /\ r.closure.facts.generation = h.closure.facts.generation
      /\ r.closure.facts.link = h.closure.facts.link
      /\ r.closure.facts.ack = h.closure.facts.ack
      /\ r.closure.facts.bt_closed = h.closure.facts.bt_closed
      /\ r.closure.facts.drive = h.closure.facts.drive
  BY <1>3, <1>4 DEF Told, Facts
<1>6. Generation(r) = Generation(h)
  BY <1>5 DEF Generation
<1>7. GateSound(r) /\ Current(r)
  BY <1>3 DEF Speaks
<1>8. Duty(r)
  BY <1>3 DEF Heard, Duty, Speaks
<1>9. RefusedUnsent(r) /\ Placed(r, w)
  BY <1>1, <1>2, <1>3, <1>6 DEF Told, Placed, RefusedUnsent
<1>10. Numbered(r)
  <2>1. r.owner.sends # 0
    BY <1>4, <1>5, <1>7 DEF Current, GateSound, Facts, Generation
  <2> QED BY <1>3, <2>1 DEF Numbered, Speaks
<1>11. DriveSound(r, w) /\ FactsSound(r, w)
  BY <1>1, <1>3, <1>5 DEF DriveSound, FactsSound, Told
<1>12. RestSound(r, w) /\ GapSound(r, t) /\ CorridorSound(r, t)
  BY <1>1, <1>3, <1>5 DEF RestSound, GapSound, CorridorSound, Told
<1>13. r.gate.receipt.authority = h.gate.receipt.authority
  BY <1>3 DEF Told, Goes
<1> QED BY <1>1, <1>3, <1>4, <1>7, <1>8, <1>9, <1>10, <1>11, <1>12, <1>13
        DEF Sound, Solid, Told

LEMMA NewIsTyped ==
  /\ new_runtime_watch \in RuntimeRecord /\ new_obstacle_watch \in CorridorRecord
  /\ new_window \in WindowRecord
<1>1. [s \in Stream |-> 0] \in [Stream -> Nat]
  OBVIOUS
<1>2. new_runtime_watch \in RuntimeRecord
  BY <1>1 DEF new_runtime_watch, RuntimeRecord
<1>3. <<>> \in Seq(Sample)
  OBVIOUS
<1>4. new_obstacle_watch \in CorridorRecord
  <2> HIDE DEF Sample
  <2> QED BY <1>3 DEF new_obstacle_watch, CorridorRecord
<1> QED BY <1>2, <1>4 DEF new_window, WindowRecord

LEMMA EndedSound ==
  ASSUME NEW h, NEW w \in WorldRecord, NEW t \in TruthRecord, Solid(h, w),
         NEW outcome \in Outcome, NEW r, r = ended(h, outcome)
  PROVE  Sound(r, w, t) /\ Keeps(r, h)
<1> DEFINE o == [h.owner EXCEPT !.outcome = outcome]
           g == close_admission(h.gate)
<1>1. /\ h \in HostRecord /\ h.owner \in OwnerRecord /\ h.gate \in Gate
      /\ GateSound(h) /\ RefusedUnsent(h) /\ Duty(h) /\ DriveSound(h, w)
      /\ FactsSound(h, w)
  BY DEF Solid, HostRecord
<1>2. /\ o \in OwnerRecord /\ o.goal = h.owner.goal /\ o.sends = h.owner.sends
      /\ o.refused = h.owner.refused
  BY <1>1 DEF OwnerRecord
<1>3. Tells(g, h.gate) /\ Withholds(g, h.gate)
  BY <1>1, CloseTells
<1>4. g \in Gate
  BY <1>3 DEF Tells, Goes
<1>5. r = [h EXCEPT !.pc = "ended", !.owner = o, !.gate = g,
                    !.runtime = new_runtime_watch, !.corridor = new_obstacle_watch,
                    !.window = new_window]
  BY <1>1 DEF ended, HostRecord
<1> HIDE DEF o, g
<1>6. /\ r.pc = "ended" /\ r.owner = o /\ r.gate = g /\ r.closure = h.closure
      /\ r.runtime = new_runtime_watch /\ r.corridor = new_obstacle_watch
      /\ r.window = new_window /\ r \in HostRecord
  BY <1>1, <1>2, <1>4, <1>5, NewIsTyped DEF HostRecord, Place
<1>7. GateSound(r) /\ RefusedUnsent(r)
  BY <1>1, <1>2, <1>3, <1>6 DEF GateSound, RefusedUnsent, Tells, Goes, Generation
<1>8. Duty(r)
  BY <1>1, <1>2, <1>3, <1>6 DEF Duty, Current, Asked, Tells, Goes, is_revoked
<1>9. DriveSound(r, w) /\ FactsSound(r, w)
  BY <1>1, <1>6 DEF DriveSound, FactsSound
<1>10. Placed(r, w) /\ Numbered(r)
  BY <1>6 DEF Placed, Numbered
<1>11. RestSound(r, w) /\ GapSound(r, t) /\ CorridorSound(r, t)
  BY <1>6 DEF RestSound, GapSound, CorridorSound
<1>12. Keeps(r, h)
  BY <1>2, <1>3, <1>6 DEF Keeps, Tells, Goes
<1> QED BY <1>6, <1>7, <1>8, <1>9, <1>10, <1>11, <1>12 DEF Sound, Solid

LEMMA RaisedSound ==
  ASSUME NEW h, NEW w \in WorldRecord, NEW t \in TruthRecord, Solid(h, w)
  PROVE  /\ Sound(raised(h), w, t) /\ Keeps(raised(h), h)
         /\ Sound(blocked(h), w, t) /\ Keeps(blocked(h), h)
<1>1. "blocked" \in Outcome /\ "raised" \in Outcome
  BY DEF Outcome
<1>2. raised(h) = ended(h, "raised")
  BY DEF raised
<1>3. blocked(h) = ended(h, "blocked") \/ blocked(h) = ended(h, "raised")
  BY DEF blocked
<1>4. Sound(raised(h), w, t) /\ Keeps(raised(h), h)
  BY <1>1, <1>2, EndedSound
<1>5. Sound(blocked(h), w, t) /\ Keeps(blocked(h), h)
  BY <1>1, <1>3, EndedSound
<1> QED BY <1>4, <1>5

\* A step that changes neither the gate nor the owner.
LEMMA SideSound ==
  ASSUME NEW h, NEW w, NEW t, Sound(h, w, t), NEW r \in HostRecord, r.pc = h.pc,
         r.gate = h.gate, r.owner = h.owner, Generation(r) = Generation(h),
         DriveSound(r, w), FactsSound(r, w), RestSound(r, w), GapSound(r, t),
         CorridorSound(r, t)
  PROVE  Sound(r, w, t) /\ Keeps(r, h)
<1>1. /\ GateSound(h) /\ RefusedUnsent(h) /\ Duty(h) /\ Placed(h, w) /\ Numbered(h)
      /\ w \in WorldRecord /\ t \in TruthRecord
  BY DEF Sound, Solid
<1>2. GateSound(r) /\ RefusedUnsent(r) /\ Placed(r, w)
  BY <1>1 DEF GateSound, RefusedUnsent, Placed
<1>3. Duty(r)
  BY <1>1 DEF Duty, Current, Asked
<1>4. Numbered(r)
  BY <1>1 DEF Numbered, Within
<1> QED BY <1>1, <1>2, <1>3, <1>4 DEF Sound, Solid, Keeps, Withholds

-----------------------------------------------------------------------------
(* From one wait to the next *)

\* The owner moves on: the gate, its members and the closure stay.
LEMMA MovedSound ==
  ASSUME NEW h, NEW w, NEW t, Sound(h, w, t), NEW r \in HostRecord,
         r.gate = h.gate, r.owner = h.owner, r.closure = h.closure,
         NEW u \in TruthRecord, Placed(r, w), Numbered(r), RestSound(r, w),
         GapSound(r, u), CorridorSound(r, u)
  PROVE  Sound(r, w, u) /\ Keeps(r, h)
<1>1. /\ GateSound(h) /\ RefusedUnsent(h) /\ Duty(h) /\ w \in WorldRecord
      /\ DriveSound(h, w) /\ FactsSound(h, w)
  BY DEF Sound, Solid
<1>2. GateSound(r) /\ RefusedUnsent(r)
  BY <1>1 DEF GateSound, RefusedUnsent, Generation
<1>3. Duty(r)
  BY <1>1 DEF Duty, Current, Asked
<1>4. DriveSound(r, w) /\ FactsSound(r, w)
  BY <1>1 DEF DriveSound, FactsSound
<1> QED BY <1>1, <1>2, <1>3, <1>4 DEF Sound, Solid, Keeps, Withholds

\* The motion of the robot is watched anew, behind a drive that is sealed.
LEMMA QuietSound ==
  ASSUME NEW h, NEW w, NEW t, Sound(h, w, t), NEW next,
         \/ /\ next = "quiet" /\ h.closure.facts.drive = "closed"
            /\ h.pc \in {"workers", "bt", "drive", "sealing"}
         \/ next = "quiet_again" /\ h.pc = "preparing"
         \/ next = h.pc /\ h.pc \in {"quiet", "quiet_again"},
         NEW r, r = to_quiet(h, next)
  PROVE  /\ Sound(r, w, t) /\ Keeps(r, h) /\ r.pc = next /\ r.owner = h.owner
         /\ r.gate = h.gate /\ r.closure = h.closure /\ r.corridor = h.corridor
<1>1. /\ h \in HostRecord /\ Placed(h, w) /\ Numbered(h) /\ RestSound(h, w)
      /\ GapSound(h, t) /\ CorridorSound(h, t) /\ t \in TruthRecord
  BY DEF Sound, Solid
<1>2. next \in Place
  BY DEF Place
<1>3. r = [h EXCEPT !.pc = next, !.window = new_window]
  BY DEF to_quiet
<1>4. /\ r \in HostRecord /\ r.pc = next /\ r.gate = h.gate /\ r.owner = h.owner
      /\ r.closure = h.closure /\ r.runtime = h.runtime /\ r.corridor = h.corridor
      /\ r.window = new_window
  BY <1>1, <1>2, <1>3, NewIsTyped DEF HostRecord
<1>5. Placed(r, w)
  BY <1>1, <1>4 DEF Placed, Generation
<1>6. Numbered(r)
  BY <1>1, <1>4 DEF Numbered, Within, Generation, Placed
<1>7. RestSound(r, w)
  BY <1>1, <1>4 DEF RestSound, new_window
<1>8. GapSound(r, t) /\ CorridorSound(r, t)
  BY <1>1, <1>4 DEF GapSound, CorridorSound
<1>9. Sound(r, w, t) /\ Keeps(r, h)
  BY <1>1, <1>4, <1>5, <1>6, <1>7, <1>8, MovedSound
<1> QED BY <1>4, <1>9

\* Facts that are rejected stay as they are.
Rejected(h) == [h EXCEPT !.closure.facts = rejected_facts(@)]

LEMMA RejectedSound ==
  ASSUME NEW h, NEW w, NEW t, Sound(h, w, t), NEW r, r = Rejected(h)
  PROVE  /\ Sound(r, w, t) /\ Keeps(r, h) /\ r.pc = h.pc /\ r.owner = h.owner
         /\ r.closure.facts.drive = h.closure.facts.drive
<1> DEFINE f == [h.closure.facts EXCEPT !.rejected = TRUE]
           c == [h.closure EXCEPT !.facts = f]
<1>1. /\ h \in HostRecord /\ DriveSound(h, w) /\ FactsSound(h, w) /\ RestSound(h, w)
      /\ GapSound(h, t) /\ CorridorSound(h, t)
  BY DEF Sound, Solid
<1>2. h.closure \in ClosureRecord /\ h.closure.facts \in Facts
  BY <1>1 DEF HostRecord, ClosureRecord
<1>3. /\ f \in Facts /\ f.generation = h.closure.facts.generation
      /\ f.link = h.closure.facts.link /\ f.ack = h.closure.facts.ack
      /\ f.bt_closed = h.closure.facts.bt_closed
      /\ f.drive = h.closure.facts.drive
  BY <1>2 DEF Facts
<1>4. r = [h EXCEPT !.closure = c]
  BY <1>1, <1>2 DEF Rejected, rejected_facts, HostRecord
<1> HIDE DEF f
<1>5. /\ c \in ClosureRecord /\ c.facts = f /\ c.requested = h.closure.requested
      /\ c.response = h.closure.response
  BY <1>2, <1>3 DEF ClosureRecord
<1> HIDE DEF c
<1>6. /\ r \in HostRecord /\ r.gate = h.gate /\ r.pc = h.pc /\ r.owner = h.owner
      /\ r.closure = c /\ r.runtime = h.runtime
      /\ r.corridor = h.corridor /\ r.window = h.window
  BY <1>1, <1>4, <1>5 DEF HostRecord
<1>7. DriveSound(r, w) /\ FactsSound(r, w) /\ Generation(r) = Generation(h)
  BY <1>1, <1>3, <1>5, <1>6 DEF DriveSound, FactsSound, Generation
<1>8. RestSound(r, w) /\ GapSound(r, t) /\ CorridorSound(r, t)
  BY <1>1, <1>3, <1>5, <1>6 DEF RestSound, GapSound, CorridorSound
<1>9. Sound(r, w, t) /\ Keeps(r, h)
  BY <1>6, <1>7, <1>8, SideSound
<1> QED BY <1>3, <1>5, <1>6, <1>9

LEMMA ClosedSound ==
  ASSUME NEW h, NEW w, NEW t, Sound(h, w, t), h.pc \in {"workers", "bt", "drive"},
         NEW closed \in BOOLEAN, closed => h.closure.facts.drive = "closed",
         NEW r, r = closed_or_not(h, closed)
  PROVE  Sound(r, w, t) /\ Keeps(r, h)
<1> DEFINE goal == h.owner.goal
           left == IF closed THEN h ELSE Rejected(h)
           isolated == h.closure.response = "accepted" /\ h.closure.facts.drive = "closed"
<1>1. w \in WorldRecord /\ t \in TruthRecord
  BY DEF Sound
<1>2. /\ Sound(left, w, t) /\ Keeps(left, h) /\ left.pc = h.pc
      /\ left.closure.facts.drive = h.closure.facts.drive
  <2>1. CASE closed
    BY <2>1, KeepsSelf
  <2>2. CASE ~closed
    BY <2>2, RejectedSound
  <2> QED BY <2>1, <2>2
<1>3. Solid(left, w)
  BY <1>2 DEF Sound
<1>4. \/ (closed \/ isolated) /\ r = to_quiet(left, "quiet")
      \/ r \in {raised(left), blocked(left), ended(left, "lost"),
                ended(left, "interrupted"), ended(left, "cancelled")}
  <2>1. left = IF closed THEN h ELSE [h EXCEPT !.closure.facts = rejected_facts(@)]
    BY DEF Rejected
  <2> HIDE DEF left
  <2> QED BY <2>1 DEF closed_or_not
<1> HIDE DEF left
<1>5. CASE (closed \/ isolated) /\ r = to_quiet(left, "quiet")
  <2>1. Sound(r, w, t) /\ Keeps(r, left)
    BY <1>2, <1>5, QuietSound
  <2> QED BY <1>2, <2>1, KeepsOn
<1>6. CASE r \in {raised(left), blocked(left), ended(left, "lost"),
                  ended(left, "interrupted"), ended(left, "cancelled")}
  <2>1. "lost" \in Outcome /\ "interrupted" \in Outcome /\ "cancelled" \in Outcome
    BY DEF Outcome
  <2>2. Sound(r, w, t) /\ Keeps(r, left)
    BY <1>1, <1>3, <1>6, <2>1, RaisedSound, EndedSound
  <2> QED BY <1>2, <2>2, KeepsOn
<1> QED BY <1>4, <1>5, <1>6

LEMMA ThrownSound ==
  ASSUME NEW h, NEW w, NEW t, Sound(h, w, t), NEW r, r = thrown(h)
  PROVE  Sound(r, w, t) /\ Keeps(r, h)
<1>1. w \in WorldRecord /\ t \in TruthRecord /\ Solid(h, w)
  BY DEF Sound
<1>2. CASE h.pc \in {"workers", "bt", "drive"}
  <2>1. r = closed_or_not(h, FALSE)
    BY <1>2 DEF thrown
  <2> QED BY <1>2, <2>1, ClosedSound
<1>3. CASE h.pc \notin {"workers", "bt", "drive"}
  <2>1. r \in {raised(h), blocked(h)}
    BY <1>3 DEF thrown
  <2> QED BY <1>1, <2>1, RaisedSound
<1> QED BY <1>2, <1>3

\* What run_goal leads to once the goal is over or lost.
LEMMA GoalEndedSound ==
  ASSUME NEW h, NEW w, NEW t, Sound(h, w, t), h.pc = "running",
         h.owner.goal.done \/ h.owner.goal.error \/ h.owner.goal.loss,
         NEW r, r = goal_ended(h)
  PROVE  Sound(r, w, t) /\ Keeps(r, h)
<1>1. /\ h \in HostRecord /\ Placed(h, w) /\ Numbered(h)
      /\ GapSound(h, t) /\ CorridorSound(h, t) /\ t \in TruthRecord
      /\ w \in WorldRecord /\ Solid(h, w)
  BY DEF Sound, Solid
<1>2. CASE r = raised(h)
  BY <1>1, <1>2, RaisedSound
<1>3. CASE \E next \in {"lost", "terminal", "workers"} :
             /\ r = after_goal(h, next) /\ ~h.owner.goal.error
  <2>1. PICK next \in {"lost", "terminal", "workers"} :
          /\ r = after_goal(h, next) /\ ~h.owner.goal.error
    BY <1>3
  <2>2. next \in Place
    BY DEF Place
  <2>3. r = [h EXCEPT !.pc = next, !.runtime = new_runtime_watch,
                      !.corridor = new_obstacle_watch]
    BY <2>1 DEF after_goal
  <2>4. /\ r \in HostRecord /\ r.pc = next /\ r.gate = h.gate /\ r.owner = h.owner
        /\ r.closure = h.closure /\ r.window = h.window
        /\ r.corridor = new_obstacle_watch
    BY <1>1, <2>2, <2>3, NewIsTyped DEF HostRecord
  <2>5. Placed(r, w)
    BY <1>1, <2>4 DEF Placed, Generation
  <2>6. Numbered(r)
    BY <1>1, <2>4 DEF Numbered, Within, Generation
  <2>7. RestSound(r, w)
    BY <2>4 DEF RestSound
  <2>8. GapSound(r, t)
    BY <2>1, <2>4 DEF GapSound
  <2>9. CorridorSound(r, t)
    <3>1. new_obstacle_watch.scan = {} /\ new_obstacle_watch.clear = <<>>
      BY DEF new_obstacle_watch
    <3>2. Len(<<>>) = 0
      OBVIOUS
    <3>3. Frames \in Nat
      BY WatchAssumption
    <3> QED BY <1>1, <2>4, <3>1, <3>2, <3>3 DEF CorridorSound
  <2> QED BY <1>1, <2>4, <2>5, <2>6, <2>7, <2>8, <2>9, MovedSound
<1>4. \/ r = raised(h)
      \/ \E next \in {"lost", "terminal", "workers"} :
           r = after_goal(h, next) /\ ~h.owner.goal.error
  BY DEF goal_ended
<1> QED BY <1>2, <1>3, <1>4

\* What the end of the first quiet window leads to; the corridor is watched
\* anew from there on.
AfterQuiet(z) == IF z.pc = "clear" THEN [z EXCEPT !.corridor = new_obstacle_watch] ELSE z

LEMMA AfterQuietSound ==
  ASSUME NEW h, NEW w, NEW t, Sound(h, w, t), h.pc = "quiet",
         NEW observed \in BOOLEAN, observed => w.robot = "still",
         NEW u \in TruthRecord, u.gap = t.gap, u.clears = 0,
         NEW r, r = AfterQuiet(after_quiet(h, observed))
  PROVE  Sound(r, w, u) /\ Keeps(r, h)
<1>1. /\ h \in HostRecord /\ Placed(h, w) /\ Numbered(h) /\ RestSound(h, w)
      /\ GapSound(h, t) /\ CorridorSound(h, t)
      /\ w \in WorldRecord /\ Solid(h, w)
  BY DEF Sound, Solid
<1> DEFINE z == after_quiet(h, observed)
<1>2. \/ z \in {raised(h), blocked(h), ended(h, "refused"), ended(h, "lost"),
                ended(h, "cancelled"), ended(h, "interrupted"), ended(h, "passed")}
      \/ /\ ~h.owner.refused /\ h.owner.sends # 2 /\ observed
         /\ \/ mode # "resume" /\ z = [h EXCEPT !.pc = "preparing"]
            \/ z = [h EXCEPT !.pc = "clear"]
  BY DEF after_quiet
<1> HIDE DEF z
<1>3. CASE z \in {raised(h), blocked(h), ended(h, "refused"), ended(h, "lost"),
                  ended(h, "cancelled"), ended(h, "interrupted"), ended(h, "passed")}
  <2>1. /\ "lost" \in Outcome /\ "interrupted" \in Outcome /\ "cancelled" \in Outcome
        /\ "refused" \in Outcome /\ "passed" \in Outcome
    BY DEF Outcome
  <2>2. Sound(z, w, u) /\ Keeps(z, h)
    BY <1>1, <1>3, <2>1, RaisedSound, EndedSound
  <2>3. z.pc = "ended"
    BY <1>1, <1>3 DEF raised, blocked, ended, HostRecord
  <2>4. r = z
    BY <2>3 DEF z, AfterQuiet
  <2> QED BY <2>2, <2>4
<1>4. ASSUME ~h.owner.refused, h.owner.sends # 2, observed,
             NEW next, \/ /\ next = "preparing" /\ mode # "resume"
                          /\ z = [h EXCEPT !.pc = next]
                       \/ next = "clear" /\ z = [h EXCEPT !.pc = next]
      PROVE  Sound(r, w, u) /\ Keeps(r, h)
  <2>1. next \in Place
    BY <1>4 DEF Place
  <2>2. z.pc = next
    BY <1>1, <1>4 DEF HostRecord
  <2>3. /\ r \in HostRecord /\ r.pc = next /\ r.gate = h.gate /\ r.owner = h.owner
        /\ r.closure = h.closure /\ r.runtime = h.runtime /\ r.window = h.window
        /\ next = "clear" => r.corridor = new_obstacle_watch
    <3>1. CASE next = "clear"
      <4>1. r = [h EXCEPT !.pc = next, !.corridor = new_obstacle_watch]
        BY <1>1, <1>4, <2>2, <3>1 DEF z, AfterQuiet, HostRecord
      <4> QED BY <1>1, <2>1, <4>1, NewIsTyped DEF HostRecord
    <3>2. CASE next # "clear"
      <4>1. r = [h EXCEPT !.pc = next]
        BY <1>4, <2>2, <3>2 DEF z, AfterQuiet
      <4> QED BY <1>1, <2>1, <3>2, <4>1 DEF HostRecord
    <3> QED BY <3>1, <3>2
  <2>4. h.owner.sends \in 0..2 /\ Generation(h) \in 1..2
    BY <1>1 DEF HostRecord, OwnerRecord, ClosureRecord, Facts, Generation
  <2>5. Placed(r, w)
    <3>1. /\ h.owner.sends = Generation(h) /\ w.drive.generation = Generation(h)
      BY <1>1, <1>4 DEF Placed
    <3>2. h.owner.sends = 1
      BY <1>4, <2>4, <3>1
    <3>3. Generation(r) = Generation(h)
      BY <2>3 DEF Generation
    <3>4. /\ r.owner.sends = 1 /\ Generation(r) = 1 /\ ~r.owner.refused
          /\ w.drive.generation = Generation(r)
      BY <1>4, <2>3, <3>1, <3>2, <3>3
    <3> QED BY <1>4, <2>3, <3>4 DEF Placed
  <2>6. Numbered(r)
    BY <1>1, <1>4, <2>3 DEF Numbered, Within, Generation
  <2>7. RestSound(r, w)
    BY <1>1, <1>4, <2>3 DEF RestSound
  <2>8. GapSound(r, u)
    BY <1>1, <2>3 DEF GapSound
  <2>9. CorridorSound(r, u)
    <3>1. CASE mode # "resume"
      BY <3>1 DEF CorridorSound
    <3>2. CASE next = "clear"
      <4>1. new_obstacle_watch.scan = {} /\ new_obstacle_watch.clear = <<>>
        BY DEF new_obstacle_watch
      <4>2. Len(<<>>) = 0
        OBVIOUS
      <4>3. Frames \in Nat
        BY WatchAssumption
      <4> QED BY <2>3, <3>2, <4>1, <4>2, <4>3 DEF CorridorSound
    <3> QED BY <1>4, <3>1, <3>2
  <2> QED BY <2>3, <2>5, <2>6, <2>7, <2>8, <2>9, MovedSound
<1> QED BY <1>2, <1>3, <1>4

-----------------------------------------------------------------------------
(* The dispatch *)

Resetting(h) == [h EXCEPT !.owner.goal = new_goal]

\* The drive opens the generation of the closure, for work that is new.
Opens(v, w, h) ==
  /\ w.drive.generation = Generation(h) - 1
  /\ v \in WorldRecord /\ v.drive.generation = Generation(h)
  /\ v.drive.applied = w.drive.applied

LEMMA ResetSound ==
  ASSUME NEW h, NEW w, NEW t, Sound(h, w, t), h.pc = "opening",
         NEW v, Opens(v, w, h), NEW x, x = Resetting(h)
  PROVE  /\ Solid(x, v) /\ x \in HostRecord /\ x.pc = h.pc /\ x.gate = h.gate
         /\ x.closure = h.closure /\ x.runtime = h.runtime
         /\ x.corridor = h.corridor /\ x.window = h.window
         /\ x.owner = [h.owner EXCEPT !.goal = new_goal] /\ x.owner \in OwnerRecord
         /\ h.owner.sends + 1 = Generation(h) /\ ~h.owner.refused
         /\ ~Current(x) /\ Keeps(x, h)
<1> DEFINE o == [h.owner EXCEPT !.goal = new_goal]
<1>1. /\ h \in HostRecord /\ GateSound(h) /\ RefusedUnsent(h) /\ DriveSound(h, w)
      /\ FactsSound(h, w) /\ Placed(h, w) /\ w \in WorldRecord
  BY DEF Sound, Solid
<1>2. /\ h.owner \in OwnerRecord /\ h.gate \in Gate /\ h.owner.sends \in 0..2
      /\ Generation(h) \in 1..2
  BY <1>1 DEF HostRecord, OwnerRecord, ClosureRecord, Facts, Generation
<1>3. new_goal \in Goal
  BY DEF new_goal, Goal
<1>4. /\ o \in OwnerRecord /\ o.sends = h.owner.sends /\ o.refused = h.owner.refused
  BY <1>2, <1>3 DEF OwnerRecord
<1>5. x = [h EXCEPT !.owner = o]
  BY <1>1 DEF Resetting, HostRecord
<1> HIDE DEF o
<1>6. /\ x \in HostRecord /\ x.pc = h.pc /\ x.gate = h.gate /\ x.owner = o
      /\ x.closure = h.closure /\ x.runtime = h.runtime
      /\ x.corridor = h.corridor /\ x.window = h.window
  BY <1>1, <1>4, <1>5 DEF HostRecord
<1>7. h.owner.sends + 1 = Generation(h) /\ ~h.owner.refused
  BY <1>1, <1>2 DEF Placed
<1>8. GateSound(x) /\ RefusedUnsent(x) /\ Generation(x) = Generation(h)
  BY <1>1, <1>4, <1>6 DEF GateSound, RefusedUnsent, Generation
<1>9. ~Current(x)
  BY <1>2, <1>4, <1>6, <1>7, <1>8 DEF Current, GateSound
<1>10. w.drive.applied \in 0..2 /\ v.drive.applied \in 0..2
  BY <1>1 DEF WorldRecord, Opens
<1>11. DriveSound(x, v)
  <2>1. h.closure.facts.generation = Generation(h)
    BY DEF Generation
  <2> QED BY <1>1, <1>2, <1>6, <1>10, <2>1 DEF DriveSound, Opens
<1>12. FactsSound(x, v)
  <2>1. w.drive.generation # h.closure.facts.generation
    BY <1>2 DEF Opens, Generation
  <2> QED BY <1>1, <1>6, <2>1 DEF FactsSound
<1>13. Keeps(x, h)
  BY <1>4, <1>6 DEF Keeps, Withholds
<1> QED BY <1>4, <1>6, <1>7, <1>8, <1>9, <1>11, <1>12, <1>13 DEF Solid, Duty, o

LEMMA DispatchSound ==
  ASSUME NEW h, NEW w, NEW t, Sound(h, w, t), h.pc = "opening",
         NEW v, Opens(v, w, h), NEW u \in TruthRecord, ~u.gap,
         u.clears = t.clears, u.unseen = t.unseen, NEW now \in Time,
         NEW x, x = Resetting(h), NEW r, r = dispatch(x, now)
  PROVE  /\ Sound(r, v, u) /\ r.gate.receipt.authority = h.gate.receipt.authority
         /\ Withholds(r.gate, h.gate)
<1>1. /\ h \in HostRecord /\ Placed(h, w) /\ Numbered(h) /\ CorridorSound(h, t)
      /\ GateSound(h)
  BY DEF Sound, Solid
<1>2. /\ Solid(x, v) /\ x \in HostRecord /\ x.gate = h.gate
      /\ x.closure = h.closure /\ x.corridor = h.corridor
      /\ x.owner = [h.owner EXCEPT !.goal = new_goal] /\ x.owner \in OwnerRecord
      /\ h.owner.sends + 1 = Generation(h) /\ ~h.owner.refused /\ Keeps(x, h)
  BY ResetSound
<1>3. v \in WorldRecord
  BY DEF Opens
<1>4. CASE ~claims_dispatch(x.gate, authority(x), now)
  <2>1. r = raised(x)
    BY <1>4 DEF dispatch
  <2>2. Sound(r, v, u) /\ Keeps(r, x)
    BY <1>2, <1>3, <2>1, RaisedSound
  <2>3. Keeps(r, h)
    BY <1>2, <2>2, KeepsOn
  <2> QED BY <2>2, <2>3 DEF Keeps
<1>5. CASE claims_dispatch(x.gate, authority(x), now)
  <2> DEFINE a == authority(x)
             g == claim_dispatch(x.gate, a, now)
             more == x.owner.sends + 1
             o == [x.owner EXCEPT !.sends = more]
             y == start_watch(x.runtime)
  <2>1. x.gate \in Gate /\ h.owner \in OwnerRecord /\ Generation(h) \in 1..2
    BY <1>1, <1>2 DEF HostRecord, ClosureRecord, Facts, Generation
  <2>2. r = [x EXCEPT !.gate = g, !.owner = o, !.runtime = y, !.pc = "running"]
    BY <1>2, <1>5 DEF dispatch, HostRecord
  <2>3. /\ Goes(g, x.gate) /\ Withholds(g, x.gate) /\ g.receipt.dispatch = "submitted"
        /\ ~is_revoked(g.receipt)
    <3>1. claims_dispatch(x.gate, a, now)
      BY <1>5
    <3> HIDE DEF a
    <3> QED BY <2>1, <3>1, DispatchDoes
  <2>4. y \in RuntimeRecord
    <3>1. y = [new_runtime_watch EXCEPT !.active = TRUE]
      BY DEF start_watch
    <3> HIDE DEF y
    <3> QED BY <3>1, NewIsTyped DEF RuntimeRecord
  <2>5. /\ more = Generation(h) /\ more \in 1..2
    BY <1>2, <2>1 DEF OwnerRecord
  <2> HIDE DEF g, y, more
  <2>6. /\ o \in OwnerRecord /\ o.goal = new_goal /\ o.sends = more
        /\ ~o.refused
        /\ o.native_sequence = h.owner.native_sequence
        /\ o.output_sequence = h.owner.output_sequence
        /\ o.settlement_sequence = h.owner.settlement_sequence
    <3>1. more \in 0..2
      BY <2>5
    <3>2. /\ x.owner.goal = new_goal /\ x.owner.refused = h.owner.refused
          /\ x.owner.native_sequence = h.owner.native_sequence
          /\ x.owner.output_sequence = h.owner.output_sequence
          /\ x.owner.settlement_sequence = h.owner.settlement_sequence
      BY <1>2, <2>1 DEF OwnerRecord
    <3> QED BY <1>2, <3>1, <3>2 DEF OwnerRecord
  <2> HIDE DEF o
  <2>7. g \in Gate
    BY <2>3 DEF Goes
  <2>8. /\ r \in HostRecord /\ r.pc = "running" /\ r.gate = g /\ r.owner = o
        /\ r.closure = h.closure /\ r.corridor = h.corridor
    BY <1>2, <2>2, <2>4, <2>6, <2>7 DEF HostRecord, Place
  <2>9. Generation(r) = Generation(h)
    BY <2>8 DEF Generation
  <2>10. GateSound(r) /\ RefusedUnsent(r)
    BY <1>1, <1>2, <2>3, <2>6, <2>8, <2>9 DEF GateSound, RefusedUnsent, Goes
  <2>11. Duty(r)
    <3>1. r.gate.receipt.stop_requested_at = {}
      BY <2>3, <2>8, <2>10 DEF GateSound, Grounded
    <3>2. new_goal.stop_requested = FALSE
      BY DEF new_goal
    <3>3. ~o.goal.stop_requested
      BY <2>6, <3>2
    <3> QED BY <2>3, <2>8, <3>1, <3>3 DEF Duty, Asked, Relayed
  <2>12. DriveSound(r, v) /\ FactsSound(r, v)
    BY <1>2, <2>8 DEF Solid, DriveSound, FactsSound
  <2>13. Placed(r, v)
    BY <2>5, <2>6, <2>8, <2>9 DEF Placed, Opens
  <2>14. Numbered(r)
    <3>1. /\ Over(new_goal) = 0 /\ Count(new_goal.handle) = 0
          /\ Count(new_goal.feedback) = 0
      BY DEF new_goal, Over, Count
    <3>2. /\ h.owner.native_sequence \in Nat /\ h.owner.output_sequence \in Nat
          /\ h.owner.settlement_sequence \in Nat /\ h.owner.sends \in 0..2
          /\ h.owner.goal \in Goal
      BY <2>1 DEF OwnerRecord
    <3>3. ~h.owner.goal.error
      BY <1>1 DEF Placed
    <3>4. /\ Over(h.owner.goal) \in 0..1 /\ Count(h.owner.goal.handle) \in 0..1
          /\ Count(h.owner.goal.feedback) \in 0..1
      BY <3>3 DEF Over, Count
    <3>5. /\ h.owner.native_sequence <= 3 * (more - 1)
          /\ h.owner.output_sequence <= more - 1
          /\ h.owner.settlement_sequence <= more + Generation(h) - 2
      <4>1. CASE h.owner.sends = 0
        BY <1>1, <1>2, <2>1, <2>5, <4>1 DEF Numbered
      <4>2. CASE h.owner.sends = 1
        <5>1. Within(h, 0, 0)
          BY <1>1, <1>2, <4>2 DEF Numbered
        <5> QED BY <1>2, <2>1, <2>5, <3>2, <3>4, <4>2, <5>1 DEF Within
      <4> QED BY <1>2, <2>1, <3>2, <4>1, <4>2
    <3>6. /\ h.owner.native_sequence <= 3 * (more - 1) + (0 + 0) + 0 + 0
          /\ h.owner.output_sequence <= more - 1 + 0 + 0
          /\ h.owner.settlement_sequence <= more + Generation(h) - 2 + 0 + 0
      <4>1. more \in Int /\ Generation(h) \in Int
        BY <2>1, <2>5
      <4>2. h.owner.native_sequence <= 3 * (more - 1) + (0 + 0) + 0 + 0
        BY <3>2, <3>5, <4>1
      <4>3. h.owner.output_sequence <= more - 1 + 0 + 0
        BY <3>2, <3>5, <4>1
      <4>4. h.owner.settlement_sequence <= more + Generation(h) - 2 + 0 + 0
        BY <3>2, <3>5, <4>1
      <4> QED BY <4>2, <4>3, <4>4
    <3>7. /\ r.owner.goal = new_goal /\ r.owner.sends = more
          /\ Generation(r) = Generation(h)
          /\ r.owner.native_sequence = h.owner.native_sequence
          /\ r.owner.output_sequence = h.owner.output_sequence
          /\ r.owner.settlement_sequence = h.owner.settlement_sequence
      BY <2>6, <2>8, <2>9
    <3>8. Within(r, 0, 0)
      BY <3>1, <3>6, <3>7 DEF Within
    <3> QED BY <2>5, <2>6, <2>8, <3>8 DEF Numbered
  <2>15. RestSound(r, v) /\ GapSound(r, u)
    BY <2>8 DEF RestSound, GapSound
  <2>16. CorridorSound(r, u)
    BY <1>1, <2>8 DEF CorridorSound
  <2>17. /\ r.gate.receipt.authority = h.gate.receipt.authority
         /\ Withholds(r.gate, h.gate)
    BY <1>2, <2>3, <2>8 DEF Goes
  <2> QED BY <1>3, <2>8, <2>10, <2>11, <2>12, <2>13, <2>14, <2>15, <2>16, <2>17
          DEF Sound, Solid
<1> QED BY <1>4, <1>5

-----------------------------------------------------------------------------
(* The refusal *)

\* What is done and reported about an operation whose goal was not sent.
Aside(r, h) ==
  /\ r \in HostRecord /\ Goes(r.gate, h.gate) /\ Withholds(r.gate, h.gate)
  /\ r.pc = h.pc /\ r.closure = h.closure /\ r.runtime = h.runtime
  /\ r.corridor = h.corridor /\ r.window = h.window
  /\ r.owner.sends = h.owner.sends /\ r.owner.refused = h.owner.refused

LEMMA AsideOn ==
  ASSUME NEW h, NEW r, NEW q, Aside(r, h), Aside(q, r) PROVE Aside(q, h)
BY DEF Aside, Goes, Withholds

LEMMA AsideSolid ==
  ASSUME NEW h, NEW v, Solid(h, v), ~Current(h), NEW r, Aside(r, h)
  PROVE  Solid(r, v) /\ ~Current(r) /\ Keeps(r, h)
<1>1. GateSound(r)
  BY DEF Solid, Aside, GateSound, Goes, Generation
<1>2. ~Current(r)
  BY DEF Aside, Current, Goes
<1>3. RefusedUnsent(r) /\ DriveSound(r, v) /\ FactsSound(r, v)
  BY DEF Solid, Aside, RefusedUnsent, DriveSound, FactsSound, Generation
<1>4. Keeps(r, h)
  BY DEF Aside, Keeps, Goes
<1> QED BY <1>1, <1>2, <1>3, <1>4 DEF Solid, Duty, Aside

LEMMA ReportAside ==
  ASSUME NEW h \in HostRecord, NEW o \in OwnerRecord, o.sends = h.owner.sends,
         o.refused = h.owner.refused, NEW accepted \in BOOLEAN,
         NEW g, Goes(g, h.gate), Withholds(g, h.gate),
         NEW r, r = report([h EXCEPT !.owner = o], accepted, g)
  PROVE  /\ Aside(r, h)
         /\ r.owner.settlement_sequence = o.settlement_sequence
         /\ r.owner.goal.error \/ r.owner = o
<1> DEFINE x == [h EXCEPT !.owner = o]
<1>1. /\ x \in HostRecord /\ x.gate = h.gate /\ x.pc = h.pc /\ x.owner = o
      /\ x.closure = h.closure /\ x.runtime = h.runtime
      /\ x.corridor = h.corridor /\ x.window = h.window
  BY OwnerFields
<1>2. r = [x EXCEPT !.gate = g] \/ r = failed(x)
  <2>1. r = report(x, accepted, g)
    OBVIOUS
  <2> HIDE DEF x
  <2> QED BY <2>1 DEF report
<1> HIDE DEF x
<1>3. h.gate \in Gate /\ g \in Gate
  BY DEF HostRecord, Goes
<1>4. CASE r = [x EXCEPT !.gate = g]
  <2>1. /\ r \in HostRecord /\ r.gate = g /\ r.pc = h.pc /\ r.owner = o
        /\ r.closure = h.closure /\ r.runtime = h.runtime
        /\ r.corridor = h.corridor /\ r.window = h.window
    BY <1>1, <1>3, <1>4 DEF HostRecord
  <2> QED BY <2>1 DEF Aside
<1>5. CASE r = failed(x)
  <2>1. /\ r \in HostRecord /\ r.gate = h.gate /\ r.pc = h.pc
        /\ r.owner = [o EXCEPT !.goal = Failed(o.goal)]
        /\ r.closure = h.closure /\ r.runtime = h.runtime
        /\ r.corridor = h.corridor /\ r.window = h.window
    BY <1>1, <1>5, FailedIs
  <2>2. /\ r.owner.sends = h.owner.sends /\ r.owner.refused = h.owner.refused
        /\ r.owner.settlement_sequence = o.settlement_sequence
        /\ r.owner.goal = Failed(o.goal) /\ o.goal \in Goal
    BY <2>1 DEF OwnerRecord
  <2>3. r.owner.goal.error
    BY <2>2, FailedGoal
  <2> QED BY <1>3, <2>1, <2>2, <2>3 DEF Aside, Goes, Withholds
<1> QED BY <1>2, <1>4, <1>5

\* The refusal is over: the drive is to be sealed.
Sealing(x) == [request_drive_close(x) EXCEPT !.owner.refused = TRUE, !.pc = "sealing"]

LEMMA SealingSound ==
  ASSUME NEW x, NEW v \in WorldRecord, NEW u \in TruthRecord, ~u.gap,
         Solid(x, v), ~Current(x), x.owner.sends + 1 = Generation(x),
         v.drive.generation = Generation(x), CorridorSound(x, u), x.pc # "ended",
         NEW r, r = Sealing(x)
  PROVE  Sound(r, v, u) /\ Keeps(r, x)
<1> DEFINE c == [x.closure EXCEPT !.requested = TRUE]
           o == [x.owner EXCEPT !.refused = TRUE]
<1>1. /\ x \in HostRecord /\ GateSound(x) /\ DriveSound(x, v) /\ FactsSound(x, v)
      /\ x.owner \in OwnerRecord /\ x.closure \in ClosureRecord
  BY DEF Solid, HostRecord
<1>2. r = [x EXCEPT !.closure = c, !.owner = o, !.pc = "sealing"]
  BY <1>1 DEF Sealing, request_drive_close, HostRecord
<1>3. /\ c \in ClosureRecord /\ c.facts = x.closure.facts /\ c.requested
  BY <1>1 DEF ClosureRecord
<1>4. /\ o \in OwnerRecord /\ o.refused /\ o.sends = x.owner.sends
  BY <1>1 DEF OwnerRecord
<1> HIDE DEF c, o
<1>5. /\ r \in HostRecord /\ r.pc = "sealing" /\ r.gate = x.gate /\ r.owner = o
      /\ r.closure = c /\ r.corridor = x.corridor
  BY <1>1, <1>2, <1>3, <1>4 DEF HostRecord, Place
<1>6. Generation(r) = Generation(x) /\ x.owner.sends \in 0..2
  BY <1>1, <1>3, <1>5 DEF Generation, OwnerRecord
<1>7. GateSound(r) /\ ~Current(r)
  BY <1>1, <1>4, <1>5, <1>6 DEF GateSound, Current
<1>8. RefusedUnsent(r)
  BY <1>4, <1>5, <1>6 DEF RefusedUnsent
<1>9. DriveSound(r, v) /\ FactsSound(r, v)
  BY <1>1, <1>3, <1>5 DEF DriveSound, FactsSound
<1>10. Placed(r, v) /\ Numbered(r)
  BY <1>4, <1>5, <1>6 DEF Placed, Numbered
<1>11. RestSound(r, v) /\ GapSound(r, u)
  BY <1>5 DEF RestSound, GapSound
<1>12. CorridorSound(r, u)
  BY <1>5 DEF CorridorSound
<1>13. Keeps(r, x)
  BY <1>4, <1>5 DEF Keeps, Withholds
<1> QED BY <1>5, <1>7, <1>8, <1>9, <1>10, <1>11, <1>12, <1>13 DEF Sound, Solid, Duty

LEMMA RefusalSound ==
  ASSUME NEW x, NEW v \in WorldRecord, NEW u \in TruthRecord, ~u.gap,
         Solid(x, v), ~Current(x), x.owner.sends + 1 = Generation(x),
         x.owner.settlement_sequence <= 4,
         v.drive.generation = Generation(x), CorridorSound(x, u), x.pc # "ended",
         NEW r, r = refuse_resumed_dispatch(x)
  PROVE  Sound(r, v, u) /\ Keeps(r, x)
<1>1. CASE ~applies_cancel(x.gate, authority(x), 0)
  <2>1. r = raised(x)
    BY <1>1 DEF refuse_resumed_dispatch
  <2> QED BY <2>1, RaisedSound
<1>2. CASE applies_cancel(x.gate, authority(x), 0)
  <2> DEFINE a == authority(x)
             g == request_cancel(x.gate, a, 0)
             k == close_admission(g)
             y == [x EXCEPT !.gate = k]
  <2>1. x \in HostRecord /\ x.gate \in Gate /\ x.owner \in OwnerRecord
    BY DEF Solid, HostRecord
  <2>2. Revokes(g, x.gate)
    <3>1. 0 \in Time
      BY NumbersAre
    <3>2. applies_cancel(x.gate, a, 0)
      BY <1>2
    <3> HIDE DEF a
    <3> QED BY <2>1, <3>1, <3>2, CancelDoes
  <2>3. Tells(k, g) /\ Withholds(k, g)
    <3>1. g \in Gate
      BY <2>2 DEF Revokes, Goes
    <3> HIDE DEF g
    <3> QED BY <3>1, CloseTells
  <2>4. Goes(k, x.gate) /\ Withholds(k, x.gate)
    BY <2>2, <2>3 DEF Revokes, Tells, Goes, Withholds
  <2> HIDE DEF k
  <2>5. k \in Gate
    BY <2>4 DEF Goes
  <2>6. /\ y \in HostRecord /\ y.gate = k /\ y.pc = x.pc /\ y.owner = x.owner
        /\ y.closure = x.closure /\ y.runtime = x.runtime
        /\ y.corridor = x.corridor /\ y.window = x.window
    BY <2>1, <2>5, GateFields
  <2>7. Aside(y, x)
    BY <2>4, <2>6 DEF Aside
  <2> DEFINE m == y.owner.settlement_sequence + 1
             b == authority(y)
             p == record(SettlementSource, m)
             e == [authority |-> b, record |-> p]
             o == [y.owner EXCEPT !.settlement_sequence = m]
             l == observe_non_submission(y.gate, e)
             ok == accepts_non_submission(y.gate, e)
             z == report([y EXCEPT !.owner = o], ok, l)
             q == not_delivered(z, "no_output")
             s == IF z.owner.goal.error THEN z ELSE q
  <2>8. r = IF s.owner.goal.error THEN raised(s) ELSE Sealing(s)
    <3> DEFINE zz == then(y, LAMBDA j :
                 report([j EXCEPT !.owner.settlement_sequence = @ + 1],
                   accepts_non_submission(j.gate,
                     [authority |-> authority(j),
                      record |-> record(SettlementSource, j.owner.settlement_sequence + 1)]),
                   observe_non_submission(j.gate,
                     [authority |-> authority(j),
                      record |-> record(SettlementSource, j.owner.settlement_sequence + 1)])))
               ss == unless_failed(zz, LAMBDA j : not_delivered(j, "no_output"))
    <3>1. r = then(ss, LAMBDA j :
                IF j.owner.goal.error THEN raised(j)
                ELSE [request_drive_close(j) EXCEPT !.owner.refused = TRUE,
                                                    !.pc = "sealing"])
      BY <1>2, <2>1 DEF refuse_resumed_dispatch, HostRecord, k
    <3>2. zz = z
      <4>1. [y EXCEPT !.owner.settlement_sequence = @ + 1] = [y EXCEPT !.owner = o]
        BY <2>6 DEF HostRecord, OwnerRecord
      <4> HIDE DEF y
      <4> QED BY <4>1 DEF then
    <3>3. ss = s
      <4> HIDE DEF z, zz
      <4> QED BY <3>2 DEF then, unless_failed
    <3> HIDE DEF ss, s
    <3> QED BY <3>1, <3>3 DEF then, Sealing
  <2> HIDE DEF y
  <2>9. y.owner \in OwnerRecord
    BY <2>1, <2>6
  <2>10. m \in 1..6 /\ m <= 5
    BY <2>6, <2>9 DEF OwnerRecord
  <2> HIDE DEF m
  <2>11. /\ o \in OwnerRecord /\ o.sends = y.owner.sends
         /\ o.refused = y.owner.refused /\ o.settlement_sequence = m
    BY <2>9, <2>10 DEF OwnerRecord
  <2>12. p \in EvidenceRecord
    BY <2>10, RecordType DEF Source
  <2>13. Goes(l, y.gate) /\ Withholds(l, y.gate)
    <3>1. y.gate \in Gate
      BY <2>5, <2>6
    <3> HIDE DEF p, b
    <3> QED BY <2>12, <3>1, NonSubmissionGoes
  <2>14. ok \in BOOLEAN
    BY DEF accepts_non_submission
  <2> HIDE DEF o, l, ok, b, p, e
  <2>15. Aside(z, y) /\ z.owner.settlement_sequence = m
    BY <2>6, <2>11, <2>13, <2>14, ReportAside
  <2> HIDE DEF z
  <2>16. Aside(z, x) /\ z \in HostRecord
    BY <2>7, <2>15, AsideOn DEF Aside
  <2>17. Aside(s, x)
    <3>1. CASE z.owner.goal.error
      BY <2>16, <3>1
    <3>2. CASE ~z.owner.goal.error
      <4> DEFINE n == 1 + z.owner.settlement_sequence
                 pp == record(SettlementSource, n)
                 aa == authority(z)
                 ee == [authority |-> aa, reason |-> "no_output", record |-> pp]
                 oo == [z.owner EXCEPT !.settlement_sequence = n]
                 ll == observe_output_not_delivered(z.gate, ee)
                 kk == accepts_non_delivery(z.gate, ee)
      <4>1. z.owner \in OwnerRecord /\ z.gate \in Gate
        BY <2>16 DEF HostRecord
      <4>2. q = report([z EXCEPT !.owner = oo], kk, ll)
        <5>1. [z EXCEPT !.owner.settlement_sequence = n] = [z EXCEPT !.owner = oo]
          BY <2>16 DEF HostRecord
        <5> QED BY <5>1 DEF not_delivered
      <4>3. n \in 1..6
        BY <2>10, <2>15
      <4> HIDE DEF n
      <4>4. /\ oo \in OwnerRecord /\ oo.sends = z.owner.sends
            /\ oo.refused = z.owner.refused
        BY <4>1, <4>3 DEF OwnerRecord
      <4>5. pp \in EvidenceRecord
        BY <4>3, RecordType DEF Source
      <4>6. "no_output" \in NonDeliveryReason
        BY DEF NonDeliveryReason
      <4>7. Tells(ll, z.gate) /\ Withholds(ll, z.gate)
        <5> HIDE DEF pp, aa
        <5> QED BY <4>1, <4>5, <4>6, NonDeliveryTells
      <4>8. kk \in BOOLEAN
        BY DEF accepts_non_delivery
      <4>9. Goes(ll, z.gate)
        BY <4>7 DEF Tells
      <4> HIDE DEF oo, ll, kk, q
      <4>10. Aside(q, z)
        BY <2>16, <4>2, <4>4, <4>7, <4>8, <4>9, ReportAside
      <4>11. s = q
        BY <3>2
      <4> QED BY <2>16, <4>10, <4>11, AsideOn
    <3> QED BY <3>1, <3>2
  <2> HIDE DEF s
  <2>18. Solid(s, v) /\ ~Current(s) /\ Keeps(s, x)
    BY <2>17, AsideSolid
  <2>19. CASE s.owner.goal.error
    <3>1. Sound(r, v, u) /\ Keeps(r, s)
      BY <2>8, <2>18, <2>19, RaisedSound
    <3> QED BY <2>18, <3>1, KeepsOn
  <2>20. CASE ~s.owner.goal.error
    <3>1. /\ s.owner.sends = x.owner.sends /\ Generation(s) = Generation(x)
          /\ s.pc = x.pc /\ s.corridor = x.corridor
      BY <2>17 DEF Aside, Generation
    <3>2. CorridorSound(s, u)
      BY <3>1 DEF CorridorSound
    <3>3. r = Sealing(s)
      BY <2>8, <2>20
    <3>4. s.owner.sends + 1 = Generation(s) /\ v.drive.generation = Generation(s)
      BY <3>1
    <3>5. s.pc # "ended"
      BY <3>1
    <3>6. Sound(r, v, u) /\ Keeps(r, s)
      BY <2>18, <3>2, <3>3, <3>4, <3>5, SealingSound
    <3> QED BY <2>18, <3>6, KeepsOn
  <2> QED BY <2>19, <2>20
<1> QED BY <1>1, <1>2

\* The history counts no less than the window the corridor was judged by.
LEMMA ClearIsTrue ==
  ASSUME NEW h, NEW w, NEW t, Sound(h, w, t), mode = "resume", h.pc # "ended",
         can_resume(h.corridor)
  PROVE  t.clears = Frames /\ t.unseen < ScanLimit
<1> DEFINE clear == h.corridor.clear
<1>1. CorridorSound(h, t) /\ t \in TruthRecord
  BY DEF Sound
<1>2. /\ \A s \in h.corridor.scan : t.unseen = s.age
      /\ t.clears <= Frames
      /\ \A i \in 1..Len(clear) :
           (\A j \in i..Len(clear) : Good(clear[j])) => Len(clear) - i < t.clears
  BY <1>1 DEF CorridorSound
<1>3. t.unseen < ScanLimit
  <2>1. PICK s \in h.corridor.scan : s.age < ScanLimit
    BY DEF can_resume, ready, scan_fresh
  <2> QED BY <1>2, <2>1
<1>4. /\ Len(clear) = Frames
      /\ \A i \in 1..Len(clear) : clear[i].age < ScanLimit
      /\ \A i \in 1..Len(clear) : clear[i].after
  BY DEF can_resume, full_and_fresh
<1>5. Frames \in Nat \ {0} /\ t.clears \in Nat
  BY <1>1, WatchAssumption DEF TruthRecord
<1> HIDE DEF clear
<1>6. \A j \in 1..Len(clear) : Good(clear[j])
  BY <1>4 DEF Good
<1>7. 1 \in 1..Len(clear)
  BY <1>4, <1>5
<1>8. Len(clear) - 1 < t.clears
  BY <1>2, <1>6, <1>7
<1> QED BY <1>2, <1>3, <1>4, <1>5, <1>8

\* What run_goal does, from the boundary to the submission.
LEMMA RunSound ==
  ASSUME NEW h, NEW w, NEW t, Sound(h, w, t), h.pc = "opening",
         NEW v, Opens(v, w, h), NEW u \in TruthRecord, ~u.gap,
         u.clears = t.clears, u.unseen = t.unseen, NEW now \in Time,
         NEW seen \in BOOLEAN, NEW r, r = run_goal(h, now, seen)
  PROVE  /\ Sound(r, v, u) /\ r.gate.receipt.authority = h.gate.receipt.authority
         /\ Withholds(r.gate, h.gate)
         /\ mode = "resume" /\ h.owner.sends = 1 /\ r.owner.sends = 2 =>
              t.clears = Frames /\ t.unseen < ScanLimit
<1> DEFINE x == Resetting(h)
<1>1. r = IF mode = "resume" /\ h.owner.sends = 1 /\ ~resume_ready(h, seen)
            THEN refuse_resumed_dispatch(x) ELSE dispatch(x, now)
  BY DEF run_goal, Resetting
<1>2. /\ Solid(x, v) /\ x \in HostRecord /\ x.pc = h.pc /\ x.gate = h.gate
      /\ x.closure = h.closure /\ x.corridor = h.corridor
      /\ x.owner = [h.owner EXCEPT !.goal = new_goal] /\ x.owner \in OwnerRecord
      /\ h.owner.sends + 1 = Generation(h) /\ ~h.owner.refused
      /\ ~Current(x) /\ Keeps(x, h)
  BY ResetSound
<1> HIDE DEF x
<1>3. CASE mode = "resume" /\ h.owner.sends = 1 /\ ~resume_ready(h, seen)
  <2>1. r = refuse_resumed_dispatch(x)
    BY <1>1, <1>3
  <2>2. /\ h \in HostRecord /\ Placed(h, w) /\ Numbered(h) /\ CorridorSound(h, t)
    BY DEF Sound, Solid
  <2>3. h.owner \in OwnerRecord /\ h.owner.goal \in Goal
    BY <2>2 DEF HostRecord, OwnerRecord
  <2>4. /\ x.owner.sends = h.owner.sends
        /\ x.owner.settlement_sequence = h.owner.settlement_sequence
    BY <1>2, <2>3 DEF OwnerRecord
  <2>5. Generation(x) = Generation(h)
    BY <1>2 DEF Generation
  <2>6. x.owner.sends + 1 = Generation(x)
    BY <1>2, <2>4, <2>5
  <2>7. x.owner.settlement_sequence <= 4
    <3>1. Within(h, 0, 0)
      BY <1>2, <1>3, <2>2 DEF Numbered
    <3>2. Over(h.owner.goal) \in 0..2 /\ Generation(h) = 2
      BY <1>2, <1>3 DEF Over, Count
    <3>3. h.owner.settlement_sequence \in Nat
      BY <2>3 DEF OwnerRecord
    <3> QED BY <1>3, <2>4, <3>1, <3>2, <3>3 DEF Within
  <2>8. v \in WorldRecord /\ v.drive.generation = Generation(x)
    BY <2>5 DEF Opens
  <2>9. CorridorSound(x, u) /\ x.pc # "ended"
    BY <1>2, <2>2 DEF CorridorSound
  <2>10. Sound(r, v, u) /\ Keeps(r, x)
    BY <1>2, <2>1, <2>6, <2>7, <2>8, <2>9, RefusalSound
  <2>11. Keeps(r, h)
    BY <1>2, <2>10, KeepsOn
  <2> QED BY <1>3, <2>10, <2>11 DEF Keeps
<1>4. CASE ~(mode = "resume" /\ h.owner.sends = 1 /\ ~resume_ready(h, seen))
  <2>1. x = Resetting(h) /\ r = dispatch(x, now)
    BY <1>1, <1>4 DEF x
  <2>2. /\ Sound(r, v, u) /\ r.gate.receipt.authority = h.gate.receipt.authority
        /\ Withholds(r.gate, h.gate)
    BY <2>1, DispatchSound
  <2>3. ASSUME mode = "resume", h.owner.sends = 1
        PROVE  t.clears = Frames /\ t.unseen < ScanLimit
    <3>1. can_resume(h.corridor) /\ h.pc # "ended"
      BY <1>4, <2>3 DEF resume_ready
    <3> QED BY <2>3, <3>1, ClearIsTrue
  <2> QED BY <2>2, <2>3
<1> QED BY <1>3, <1>4

-----------------------------------------------------------------------------
(* The handover *)

Admitted(x) == [x EXCEPT !.gate = admit(@, request), !.closure = new_closure(2),
                         !.pc = "opening"]

\* The closure of a generation that was not opened yet.
LEMMA NewClosureType ==
  ASSUME NEW n \in 1..2
  PROVE  /\ new_closure(n) \in ClosureRecord /\ new_closure(n).facts.generation = n
         /\ ~new_closure(n).requested /\ new_closure(n).facts.drive = "open"
         /\ ~new_closure(n).facts.bt_closed
         /\ \A c \in Child : /\ new_closure(n).facts.link[c] = {}
                             /\ new_closure(n).facts.ack[c] = {}
<1> DEFINE none == [c \in Child |-> {}]
           f == new_facts(n)
<1>1. none \in [Child -> SUBSET Identity] /\ \A c \in Child : none[c] = {}
  OBVIOUS
<1>2. f = [generation |-> n, parent |-> FALSE, link |-> none, ack |-> none,
           bt_closed |-> FALSE, drive |-> "open", rejected |-> FALSE]
  BY DEF new_facts
<1> HIDE DEF none, f
<1>3. /\ f \in Facts /\ f.generation = n /\ f.link = none /\ f.ack = none
      /\ f.bt_closed = FALSE /\ f.drive = "open"
  BY <1>1, <1>2 DEF Facts
<1>4. new_closure(n) = [facts |-> f, requested |-> FALSE, response |-> "none"]
  BY DEF new_closure, f
<1>5. /\ new_closure(n) \in ClosureRecord /\ new_closure(n).facts = f
      /\ new_closure(n).requested = FALSE
  BY <1>3, <1>4 DEF ClosureRecord
<1> QED BY <1>1, <1>3, <1>5

\* The requirements of every operation, and the capability they rest on.
LEMMA RequestIsTyped ==
  /\ requirements \in Requirements /\ {requirements} \in Optional(Requirements)
  /\ {} \in Optional(Time) /\ 0 \in Time /\ 1 \in Time
  /\ InitialBinding \in Binding
  /\ [profile_id |-> requirements.profile_id, maximum_work_units |-> 1,
      available |-> TRUE] \in Capabilities
  /\ \A n \in 1..6 : record(CapabilityObserver, n) \in EvidenceRecord
<1>1. requirements \in Requirements /\ 1 \in WorkUnits
  BY OwnerAssumption DEF requirements, Requirements
<1>2. {requirements} \in Optional(Requirements) /\ {} \in Optional(Time)
  BY <1>1, OptionalSome, OptionalNone
<1>3. InitialBinding \in Binding
  BY BindingAssumption, NumberAssumption DEF Binding
<1>4. \A n \in 1..6 : record(CapabilityObserver, n) \in EvidenceRecord
  BY RecordType DEF Source
<1>5. requirements.profile_id \in Profile
  BY <1>1 DEF Requirements
<1>6. [profile_id |-> requirements.profile_id, maximum_work_units |-> 1,
       available |-> TRUE] \in Capabilities
  BY <1>1, <1>5 DEF Capabilities
<1> QED BY <1>1, <1>2, <1>3, <1>4, <1>6, NumbersAre

\* A capability tells the gate nothing about the operation.
LEMMA CapabilityTells ==
  ASSUME NEW g \in Gate, NEW n \in 1..6,
         NEW k, k = observe_execution_capabilities(g, capability(n))
  PROVE  Tells(k, g) /\ Withholds(k, g)
<1> DEFINE v == [profile_id |-> requirements.profile_id, maximum_work_units |-> 1,
                 available |-> TRUE]
           p == record(CapabilityObserver, n)
           e == [binding |-> InitialBinding, value |-> v, record |-> p,
                 valid_until |-> 1]
<1>1. capability(n) = e
  BY DEF capability, record
<1>2. v \in Capabilities /\ p \in EvidenceRecord /\ 1 \in Time /\ InitialBinding \in Binding
  BY RequestIsTyped
<1> HIDE DEF v, p
<1>3. observe_execution_capabilities(g, e) \in Gate
  BY <1>2, CapabilitiesType
<1> HIDE DEF e
<1>4. k \in Gate
  BY <1>1, <1>3
<1>5. k.receipt = g.receipt /\ k.next_operation_id = g.next_operation_id
  BY <1>1 DEF observe_execution_capabilities, Gate
<1> QED BY <1>4, <1>5, OtherTells

\* What an operation that is closed has left: nothing.
LEMMA ClosedIsTrue ==
  ASSUME NEW h, NEW w, NEW t, Sound(h, w, t), h.pc = "settling",
         facts_closed(h.closure.facts)
  PROVE  /\ \A c \in Child : w.work.workers[c] # "running"
         /\ w.work.joined /\ w.robot = "still" /\ w.drive.applied = 1
<1>1. DriveSound(h, w) /\ FactsSound(h, w) /\ RestSound(h, w) /\ Placed(h, w)
  BY DEF Sound, Solid
<1>2. w.robot = "still"
  BY <1>1 DEF RestSound
<1>3. h.closure.facts.drive = "closed" /\ h.closure.facts.bt_closed
  BY DEF facts_closed
<1>4. w.work.joined
  BY <1>1, <1>3 DEF FactsSound
<1>5. w.drive.applied = 1
  BY <1>1, <1>3 DEF DriveSound, Placed, Generation
<1>6. ASSUME NEW c \in Child PROVE w.work.workers[c] # "running"
  <2>1. h.closure.facts.link[c] # {} /\ h.closure.facts.link[c] = h.closure.facts.ack[c]
    BY DEF facts_closed, workers_closed
  <2>2. "own" \in h.closure.facts.ack[c]
    BY <1>1, <2>1 DEF FactsSound
  <2>3. w.work.workers[c] = "over"
    BY <1>1, <2>2 DEF FactsSound
  <2> QED BY <2>3
<1> QED BY <1>2, <1>4, <1>5, <1>6

LEMMA SettleReports ==
  ASSUME NEW h \in HostRecord, Speaks(h, 0, 0), ~h.owner.goal.error,
         h.owner.settlement_sequence <= 5, NEW z, z = settle(h)
  PROVE  /\ Reports(z, h) /\ Withholds(z.gate, h.gate) /\ Current(z) /\ GateSound(z)
         /\ ~z.owner.goal.error =>
              /\ Asked(z) /\ z.owner.goal = h.owner.goal
              /\ z.owner.native_sequence = h.owner.native_sequence
              /\ z.owner.output_sequence = h.owner.output_sequence
              /\ z.owner.settlement_sequence = h.owner.settlement_sequence + 1
<1> DEFINE n == h.owner.settlement_sequence + 1
           p == record(SettlementSource, n)
           a == authority(h)
           e == [authority |-> a, permits_same_domain_admission |-> TRUE, record |-> p]
           o == [h.owner EXCEPT !.settlement_sequence = n]
           g == observe_settlement(h.gate, e)
           b == accepts_settlement(h.gate, e)
<1>1. h.owner \in OwnerRecord /\ h.gate \in Gate
  BY DEF HostRecord
<1>2. z = report([h EXCEPT !.owner = o], b, g)
  <2>1. [h EXCEPT !.owner.settlement_sequence = n] = [h EXCEPT !.owner = o]
    BY <1>1 DEF HostRecord
  <2> QED BY <2>1 DEF settle
<1>3. n \in 1..6
  BY <1>1 DEF OwnerRecord
<1>4. p \in EvidenceRecord
  BY <1>3, RecordType DEF Source
<1>5. Tells(g, h.gate) /\ Withholds(g, h.gate)
  <2> HIDE DEF p, a
  <2> QED BY <1>1, <1>4, SettlementTells
<1>6. b \in BOOLEAN
  BY DEF accepts_settlement
<1>7. /\ o \in OwnerRecord /\ o.goal = h.owner.goal /\ o.sends = h.owner.sends
      /\ o.refused = h.owner.refused
      /\ o.native_sequence <= h.owner.native_sequence + 0
      /\ o.output_sequence <= h.owner.output_sequence + 1
      /\ o.settlement_sequence <= h.owner.settlement_sequence + 1
      /\ o.native_sequence = h.owner.native_sequence
      /\ o.output_sequence = h.owner.output_sequence
      /\ o.settlement_sequence = n
  BY <1>1, <1>3 DEF OwnerRecord
<1>8. Spent(0, 0, 0) /\ Spent(0, 0, 1)
  BY DEF Spent
<1>9. Goes(g, h.gate)
  BY <1>5 DEF Tells
<1> HIDE DEF o, g, b
<1>10. /\ Reports(z, h) /\ Speaks(z, 0 + 0, 0 + 1)
  BY <1>2, <1>5, <1>6, <1>7, <1>8, CountedSpeaks
<1>11. /\ Aside(z, h)
       /\ z.owner.goal.error \/ z.owner = o
  BY <1>2, <1>5, <1>6, <1>7, <1>9, ReportAside
<1>12. Current(z) /\ GateSound(z) /\ (~z.owner.goal.error => Asked(z))
  BY <1>10 DEF Speaks
<1> QED BY <1>7, <1>10, <1>11, <1>12 DEF Aside

\* B is admitted, its closure is new.
LEMMA AdmittedSound ==
  ASSUME NEW h, NEW w, NEW t, Sound(h, w, t), h.pc = "settling", NEW y, Solid(y, w),
         y.owner.sends = h.owner.sends, y.owner.refused = h.owner.refused,
         y.owner.goal = h.owner.goal, ~y.owner.goal.error,
         y.owner.native_sequence = h.owner.native_sequence,
         y.owner.output_sequence = h.owner.output_sequence,
         y.owner.settlement_sequence = h.owner.settlement_sequence + 1,
         Generation(y) = 1, y.runtime = h.runtime, y.corridor = h.corridor,
         admits(y.gate, request), NEW r, r = Admitted(y)
  PROVE  /\ Sound(r, w, t) /\ r.owner = y.owner /\ Withholds(r.gate, y.gate)
<1> DEFINE g == admit(y.gate, request)
           c == new_closure(2)
<1>1. /\ y \in HostRecord /\ y.gate \in Gate /\ y.owner \in OwnerRecord /\ GateSound(y)
      /\ DriveSound(y, w)
  BY DEF Solid, HostRecord
<1>2. /\ g \in Gate /\ Grounded(g.receipt)
      /\ g.receipt.authority.operation_id = y.gate.next_operation_id
      /\ g.next_operation_id = following_operation_id(y.gate.next_operation_id)
      /\ g.receipt.output = "pending"
  <2> DEFINE q == {requirements}
             none == {}
             n == [requested_at |-> 0, deadline |-> none, requirements |-> q]
  <2>1. request = n
    BY DEF request
  <2>2. admits(y.gate, n) /\ g = admit(y.gate, n)
    BY <2>1
  <2>3. q \in Optional(Requirements) /\ none \in Optional(Time) /\ 0 \in Time
    BY RequestIsTyped
  <2> HIDE DEF q, none, g
  <2> QED BY <1>1, <2>2, <2>3, AdmitDoes
<1>3. g.receipt.authority.operation_id = 2 /\ g.next_operation_id = 0
  BY <1>1, <1>2, NumbersAre DEF GateSound, following_operation_id
<1>4. /\ c \in ClosureRecord /\ c.facts.generation = 2
      /\ ~c.requested /\ c.facts.drive = "open" /\ ~c.facts.bt_closed
      /\ \A k \in Child : c.facts.link[k] = {} /\ c.facts.ack[k] = {}
  BY NewClosureType
<1>5. r = [y EXCEPT !.gate = g, !.closure = c, !.pc = "opening"]
  BY <1>1 DEF Admitted, HostRecord
<1> HIDE DEF g, c
<1>6. /\ r \in HostRecord /\ r.pc = "opening" /\ r.gate = g /\ r.owner = y.owner
      /\ r.closure = c /\ r.runtime = y.runtime /\ r.corridor = y.corridor
  BY <1>1, <1>2, <1>4, <1>5 DEF HostRecord, Place
<1>7. /\ h \in HostRecord /\ Placed(h, w) /\ Numbered(h) /\ GapSound(h, t)
      /\ CorridorSound(h, t) /\ w \in WorldRecord /\ t \in TruthRecord
  BY DEF Sound, Solid
<1>8. /\ h.owner.sends = 1 /\ ~h.owner.refused /\ Generation(h) = 1
      /\ w.drive.generation = 1
  BY <1>7 DEF Placed
<1>9. Generation(r) = 2
  BY <1>4, <1>6 DEF Generation
<1>10. GateSound(r)
  BY <1>2, <1>3, <1>6, <1>9 DEF GateSound
<1>11. RefusedUnsent(r)
  BY <1>6, <1>8 DEF RefusedUnsent
<1>12. Duty(r)
  BY <1>3, <1>6, <1>8 DEF Duty, Current
<1>13. DriveSound(r, w)
  <2>1. w.drive.applied \in 0..2
    BY <1>7 DEF WorldRecord
  <2>2. w.drive.applied <= w.drive.generation
    BY <1>1 DEF DriveSound
  <2> QED BY <1>4, <1>6, <1>8, <2>1, <2>2 DEF DriveSound
<1>14. FactsSound(r, w)
  BY <1>4, <1>6 DEF FactsSound
<1>15. Placed(r, w)
  BY <1>6, <1>8, <1>9 DEF Placed
<1>16. Numbered(r)
  <2>1. /\ h.owner.goal \in Goal /\ h.owner.settlement_sequence \in Nat
        /\ Over(h.owner.goal) \in Nat
    BY <1>7, FailedCounts DEF HostRecord, OwnerRecord
  <2>2. Within(h, 0, 0)
    BY <1>7, <1>8 DEF Numbered
  <2>3. Within(r, 0, 0)
    <3>1. y.owner.settlement_sequence <= 1 + Over(h.owner.goal)
      BY <1>8, <2>1, <2>2 DEF Within
    <3>2. r.owner.settlement_sequence
            <= r.owner.sends + Generation(r) - 2 + Over(h.owner.goal) + 0
      BY <1>6, <1>8, <1>9, <2>1, <3>1
    <3> QED BY <1>6, <2>2, <3>2 DEF Within
  <2> QED BY <1>6, <1>8, <2>3 DEF Numbered
<1>17. RestSound(r, w) /\ GapSound(r, t) /\ CorridorSound(r, t)
  BY <1>6, <1>7 DEF RestSound, GapSound, CorridorSound
<1>18. Withholds(r.gate, y.gate)
  BY <1>2, <1>6 DEF Withholds
<1> QED BY <1>6, <1>7, <1>10, <1>11, <1>12, <1>13, <1>14, <1>15, <1>16, <1>17, <1>18
        DEF Sound, Solid

\* From the last look at A to the admission of B.
LEMMA HandOverSound ==
  ASSUME NEW h, NEW w, NEW t, Sound(h, w, t), h.pc = "settling",
         NEW r, r = hand_over(h)
  PROVE  /\ Sound(r, w, t) /\ r.owner.sends = h.owner.sends
         /\ Withholds(r.gate, h.gate)
         /\ \/ r.gate.receipt.authority = h.gate.receipt.authority
            \/ /\ \A c \in Child : w.work.workers[c] # "running"
               /\ w.work.joined /\ w.robot = "still" /\ w.drive.applied = 1
<1>1. w \in WorldRecord /\ t \in TruthRecord /\ Solid(h, w)
  BY DEF Sound
<1>2. CASE h.owner.goal.error \/ ~facts_closed(h.closure.facts)
  <2>1. r = raised(h)
    BY <1>2 DEF hand_over
  <2> QED BY <1>1, <2>1, RaisedSound DEF Keeps
<1>3. CASE ~h.owner.goal.error /\ facts_closed(h.closure.facts)
  <2> DEFINE z == settle(h)
             k == observe_execution_capabilities(z.gate, capability(2))
             y == [z EXCEPT !.gate = k]
  <2>1. r = IF y.owner.goal.error \/ ~admits(y.gate, request) THEN raised(y)
            ELSE Admitted(y)
    <3> DEFINE yy == then(z, LAMBDA j :
                 [j EXCEPT !.gate = observe_execution_capabilities(@, capability(2))])
    <3>1. r = then(yy, LAMBDA j :
                IF j.owner.goal.error \/ ~admits(j.gate, request) THEN raised(j)
                ELSE [j EXCEPT !.gate = admit(@, request), !.closure = new_closure(2),
                               !.pc = "opening"])
      BY <1>3 DEF hand_over
    <3>2. yy = y
      <4> HIDE DEF z
      <4> QED BY DEF then
    <3> HIDE DEF yy, y
    <3> QED BY <3>1, <3>2 DEF then, Admitted
  <2>2. /\ h \in HostRecord /\ Placed(h, w) /\ Numbered(h) /\ GateSound(h)
        /\ RefusedUnsent(h) /\ Duty(h) /\ DriveSound(h, w) /\ FactsSound(h, w)
    BY DEF Sound, Solid
  <2>3. h.owner.sends = 1 /\ Generation(h) = 1 /\ ~h.owner.refused
    BY <2>2 DEF Placed
  <2>4. Current(h)
    BY <2>2, <2>3 DEF Current, GateSound
  <2>5. /\ Speaks(h, 0, 0) /\ Relayed(h.owner.goal)
    BY <1>3, <2>4, SpeaksNow, h.pc # "ended"
  <2>6. h.owner.settlement_sequence <= 5
    <3>1. Over(h.owner.goal) \in 0..2 /\ h.owner.settlement_sequence \in Nat
      BY <2>2 DEF HostRecord, OwnerRecord, Over, Count
    <3> QED BY <2>3, <2>5, <3>1 DEF Speaks, Within
  <2>7. /\ Reports(z, h) /\ Withholds(z.gate, h.gate) /\ Current(z) /\ GateSound(z)
        /\ ~z.owner.goal.error =>
              /\ Asked(z) /\ z.owner.goal = h.owner.goal
              /\ z.owner.native_sequence = h.owner.native_sequence
              /\ z.owner.output_sequence = h.owner.output_sequence
              /\ z.owner.settlement_sequence = h.owner.settlement_sequence + 1
    BY <1>3, <2>2, <2>5, <2>6, SettleReports
  <2> HIDE DEF z
  <2>8. /\ z \in HostRecord /\ Goes(z.gate, h.gate) /\ z.pc = h.pc
        /\ z.runtime = h.runtime /\ z.corridor = h.corridor
        /\ z.owner.sends = h.owner.sends /\ z.owner.refused = h.owner.refused
        /\ z.closure = h.closure /\ z.gate \in Gate
    BY <2>7 DEF Reports, Told, Goes
  <2>9. Tells(k, z.gate) /\ Withholds(k, z.gate)
    BY <2>8, CapabilityTells
  <2> HIDE DEF k
  <2>10. k \in Gate
    BY <2>9 DEF Tells, Goes
  <2>11. /\ y \in HostRecord /\ y.gate = k /\ y.pc = z.pc /\ y.owner = z.owner
         /\ y.closure = z.closure /\ y.runtime = z.runtime
         /\ y.corridor = z.corridor
    BY <2>8, <2>10, GateFields
  <2> HIDE DEF y
  <2>12. GateSound(y) /\ Current(y) /\ Generation(y) = Generation(h)
    BY <2>7, <2>8, <2>9, <2>11 DEF GateSound, Current, Tells, Goes, Generation
  <2>13. RefusedUnsent(y) /\ DriveSound(y, w) /\ FactsSound(y, w)
    BY <2>2, <2>8, <2>11 DEF RefusedUnsent, DriveSound, FactsSound, Generation
  <2>14. Duty(y)
    BY <2>5, <2>7, <2>9, <2>11 DEF Duty, Asked, Tells, is_revoked
  <2>15. Solid(y, w)
    BY <2>11, <2>12, <2>13, <2>14 DEF Solid
  <2>16. /\ y.gate.receipt.authority = h.gate.receipt.authority
         /\ Withholds(y.gate, h.gate) /\ y.owner.sends = h.owner.sends
    BY <2>7, <2>8, <2>9, <2>11 DEF Tells, Goes, Withholds
  <2>17. CASE y.owner.goal.error \/ ~admits(y.gate, request)
    <3>1. r = raised(y)
      BY <2>1, <2>17
    <3>2. Sound(r, w, t) /\ Keeps(r, y)
      BY <1>1, <2>15, <3>1, RaisedSound
    <3> QED BY <2>16, <3>2 DEF Keeps, Withholds
  <2>18. CASE ~y.owner.goal.error /\ admits(y.gate, request)
    <3>1. r = Admitted(y)
      BY <2>1, <2>18
    <3>2. /\ y.owner.sends = h.owner.sends /\ y.owner.refused = h.owner.refused
          /\ y.owner.goal = h.owner.goal
          /\ y.owner.native_sequence = h.owner.native_sequence
          /\ y.owner.output_sequence = h.owner.output_sequence
          /\ y.owner.settlement_sequence = h.owner.settlement_sequence + 1
          /\ Generation(y) = 1 /\ y.runtime = h.runtime /\ y.corridor = h.corridor
      BY <2>3, <2>7, <2>8, <2>11, <2>12, <2>18
    <3>3. Sound(r, w, t) /\ r.owner = y.owner /\ Withholds(r.gate, y.gate)
      BY <2>15, <2>18, <3>1, <3>2, AdmittedSound
    <3>4. /\ \A c \in Child : w.work.workers[c] # "running"
          /\ w.work.joined /\ w.robot = "still" /\ w.drive.applied = 1
      BY <1>3, ClosedIsTrue
    <3> QED BY <2>16, <3>3, <3>4 DEF Withholds
  <2> QED BY <2>17, <2>18
<1> QED BY <1>2, <1>3

-----------------------------------------------------------------------------
(* The steps of the owner *)

\* What every step does that neither admits, nor delivers, nor sends.
Kept ==
  /\ gate'.receipt.authority = gate.receipt.authority
  /\ Withholds(gate', gate) /\ owner'.sends = owner.sends

LEMMA HereIs ==
  /\ Here.pc = pc /\ Here.gate = gate /\ Here.owner = owner /\ Here.closure = closure
  /\ Here.runtime = runtime /\ Here.corridor = corridor /\ Here.window = window
BY DEF Here

\* A step to the record r, in the world v and with the history u.
LEMMA Becoming ==
  ASSUME NEW r, NEW v, NEW u, mode \in Mode, mode' = mode, Becomes(r),
         world' = v, truth' = u, Sound(r, v, u)
  PROVE  IInv' /\ gate' = r.gate /\ owner' = r.owner
<1>1. r \in HostRecord
  BY DEF Sound, Solid
<1>2. /\ pc' = r.pc /\ gate' = r.gate /\ owner' = r.owner /\ closure' = r.closure
      /\ runtime' = r.runtime /\ corridor' = r.corridor /\ window' = r.window
  BY DEF Becomes
<1>3. Here' = r
  BY <1>1, <1>2 DEF Here, HostRecord
<1>4. IInv'
  BY <1>3 DEF IInv, Sound, CorridorSound
<1> QED BY <1>2, <1>4

LEMMA StepBecomes ==
  ASSUME NEW r, IInv, Becomes(r), UNCHANGED <<mode, world, truth>>,
         Sound(r, world, truth), Keeps(r, Here)
  PROVE  IInv' /\ Kept
<1>1. IInv' /\ gate' = r.gate /\ owner' = r.owner
  BY Becoming DEF IInv
<1> QED BY <1>1, HereIs DEF Kept, Keeps

\* The owner goes on to its next wait.
Moving(h, next) == [h EXCEPT !.pc = next]

LEMMA MovingSound ==
  ASSUME NEW h, NEW w, NEW t, Sound(h, w, t), NEW next,
         \/ h.pc = "baseline" /\ next = "opening"
         \/ h.pc \in {"terminal", "lost"} /\ next = "workers"
         \/ h.pc = "workers" /\ next = "bt"
         \/ h.pc = "bt" /\ next = "drive"
         \/ h.pc = "clear" /\ next = "preparing"
         \/ h.pc = "quiet_again" /\ next = "settling" /\ w.robot = "still",
         NEW r, r = Moving(h, next)
  PROVE  Sound(r, w, t) /\ Keeps(r, h)
<1>1. /\ h \in HostRecord /\ Placed(h, w) /\ Numbered(h) /\ RestSound(h, w)
      /\ GapSound(h, t) /\ CorridorSound(h, t) /\ t \in TruthRecord
  BY DEF Sound, Solid
<1>2. next \in Place
  BY DEF Place
<1>3. /\ r \in HostRecord /\ r.pc = next /\ r.gate = h.gate /\ r.owner = h.owner
      /\ r.closure = h.closure /\ r.runtime = h.runtime /\ r.corridor = h.corridor
      /\ r.window = h.window
  BY <1>1, <1>2 DEF Moving, HostRecord
<1>4. Generation(r) = Generation(h)
  BY <1>3 DEF Generation
<1>5. Placed(r, w)
  BY <1>1, <1>3, <1>4 DEF Placed
<1>6. Numbered(r)
  BY <1>1, <1>3, <1>4 DEF Numbered, Within
<1>7. RestSound(r, w)
  BY <1>1, <1>3 DEF RestSound
<1>8. GapSound(r, t) /\ CorridorSound(r, t)
  BY <1>1, <1>3 DEF GapSound, CorridorSound
<1> QED BY <1>1, <1>3, <1>5, <1>6, <1>7, <1>8, MovedSound

LEMMA BaselineSound == ASSUME IInv, Baseline PROVE IInv' /\ Kept
<1> DEFINE r == Moving(Here, "opening")
<1>1. Sound(Here, world, truth) /\ Here.pc = "baseline"
  BY HereIs DEF IInv, Baseline
<1>2. Becomes(r) /\ UNCHANGED <<mode, world, truth>>
  BY DEF Baseline, Step, Moving
<1> HIDE DEF r
<1>3. Sound(r, world, truth) /\ Keeps(r, Here)
  BY <1>1, MovingSound DEF r
<1> QED BY <1>2, <1>3, StepBecomes

LEMMA LostWaitEndsSound == ASSUME IInv, LostWaitEnds PROVE IInv' /\ Kept
<1> DEFINE r == Moving(Here, "workers")
<1>1. Sound(Here, world, truth) /\ Here.pc = "lost"
  BY HereIs DEF IInv, LostWaitEnds
<1>2. Becomes(r) /\ UNCHANGED <<mode, world, truth>>
  BY DEF LostWaitEnds, Step, Moving
<1> HIDE DEF r
<1>3. Sound(r, world, truth) /\ Keeps(r, Here)
  BY <1>1, MovingSound DEF r
<1> QED BY <1>2, <1>3, StepBecomes

LEMMA WorkersAreClosedSound == ASSUME IInv, WorkersAreClosed PROVE IInv' /\ Kept
<1> DEFINE r == Moving(Here, "bt")
<1>1. Sound(Here, world, truth) /\ Here.pc = "workers"
  BY HereIs DEF IInv, WorkersAreClosed
<1>2. Becomes(r) /\ UNCHANGED <<mode, world, truth>>
  BY DEF WorkersAreClosed, Step, Moving
<1> HIDE DEF r
<1>3. Sound(r, world, truth) /\ Keeps(r, Here)
  BY <1>1, MovingSound DEF r
<1> QED BY <1>2, <1>3, StepBecomes

LEMMA CorridorClearSound == ASSUME IInv, CorridorClear PROVE IInv' /\ Kept
<1> DEFINE r == Moving(Here, "preparing")
<1>1. Sound(Here, world, truth) /\ Here.pc = "clear"
  BY HereIs DEF IInv, CorridorClear
<1>2. Becomes(r) /\ UNCHANGED <<mode, world, truth>>
  BY DEF CorridorClear, Step, Moving
<1> HIDE DEF r
<1>3. Sound(r, world, truth) /\ Keeps(r, Here)
  BY <1>1, MovingSound DEF r
<1> QED BY <1>2, <1>3, StepBecomes

LEMMA AwaitCancelledSound == ASSUME IInv, AwaitCancelled PROVE IInv' /\ Kept
<1>1. Sound(Here, world, truth) /\ Here.pc = "terminal"
  BY HereIs DEF IInv, AwaitCancelled
<1>2. /\ Becomes(Moving(Here, "workers")) \/ Becomes(raised(Here))
      /\ UNCHANGED <<mode, world, truth>>
  BY DEF AwaitCancelled, Step, Moving
<1>3. CASE Becomes(Moving(Here, "workers"))
  <2> DEFINE r == Moving(Here, "workers")
  <2> HIDE DEF r
  <2>1. Sound(r, world, truth) /\ Keeps(r, Here)
    BY <1>1, MovingSound DEF r
  <2>2. Becomes(r)
    BY <1>3 DEF r
  <2> QED BY <1>2, <2>1, <2>2, StepBecomes
<1>4. CASE Becomes(raised(Here))
  <2>1. Solid(Here, world) /\ world \in WorldRecord /\ truth \in TruthRecord
    BY <1>1 DEF Sound
  <2>2. Sound(raised(Here), world, truth) /\ Keeps(raised(Here), Here)
    BY <2>1, RaisedSound
  <2> QED BY <1>2, <1>4, <2>2, StepBecomes
<1> QED BY <1>2, <1>3, <1>4

LEMMA PrepareNextSound == ASSUME IInv, PrepareNext PROVE IInv' /\ Kept
<1> DEFINE r == to_quiet(Here, "quiet_again")
<1>1. Sound(Here, world, truth) /\ Here.pc = "preparing"
  BY HereIs DEF IInv, PrepareNext
<1>2. Becomes(r) /\ UNCHANGED <<mode, world, truth>>
  BY DEF PrepareNext, Step
<1> HIDE DEF r
<1>3. Sound(r, world, truth) /\ Keeps(r, Here)
  BY <1>1, QuietSound DEF r
<1> QED BY <1>2, <1>3, StepBecomes

LEMMA SealedSound == ASSUME IInv, Sealed PROVE IInv' /\ Kept
<1> DEFINE r == to_quiet(Here, "quiet")
<1>1. Sound(Here, world, truth) /\ Here.pc = "sealing"
  BY HereIs DEF IInv, Sealed
<1>2. Here.closure.facts.drive = "closed"
  BY DEF Sealed, drive_isolated
<1>3. Becomes(r) /\ UNCHANGED <<mode, world, truth>>
  BY DEF Sealed, Step
<1> HIDE DEF r
<1>4. Sound(r, world, truth) /\ Keeps(r, Here)
  BY <1>1, <1>2, QuietSound DEF r
<1> QED BY <1>3, <1>4, StepBecomes

LEMMA GiveUpSound == ASSUME IInv, GiveUp PROVE IInv' /\ Kept
<1>1. Sound(Here, world, truth)
  BY DEF IInv
<1>2. /\ Becomes(blocked(Here)) \/ Becomes(thrown(Here))
      /\ UNCHANGED <<mode, world, truth>>
  BY DEF GiveUp, Step
<1>3. CASE Becomes(blocked(Here))
  <2>1. Solid(Here, world) /\ world \in WorldRecord /\ truth \in TruthRecord
    BY <1>1 DEF Sound
  <2>2. Sound(blocked(Here), world, truth) /\ Keeps(blocked(Here), Here)
    BY <2>1, RaisedSound
  <2> QED BY <1>2, <1>3, <2>2, StepBecomes
<1>4. CASE Becomes(thrown(Here))
  <2>1. Sound(thrown(Here), world, truth) /\ Keeps(thrown(Here), Here)
    BY <1>1, ThrownSound
  <2> QED BY <1>2, <1>4, <2>1, StepBecomes
<1> QED BY <1>2, <1>3, <1>4

LEMMA DriveEndsSound == ASSUME IInv, DriveEnds PROVE IInv' /\ Kept
<1> DEFINE closed == drive_isolated(Here) /\ facts_closed(closure.facts)
           r == closed_or_not(Here, closed)
<1>1. Sound(Here, world, truth) /\ Here.pc = "drive"
  BY HereIs DEF IInv, DriveEnds
<1>2. Becomes(r) /\ UNCHANGED <<mode, world, truth>>
  BY DEF DriveEnds, Step
<1>3. closed \in BOOLEAN /\ (closed => Here.closure.facts.drive = "closed")
  BY DEF drive_isolated, facts_closed
<1> HIDE DEF r, closed
<1>4. Sound(r, world, truth) /\ Keeps(r, Here)
  BY <1>1, <1>3, ClosedSound DEF r
<1> QED BY <1>2, <1>4, StepBecomes

\* What the owner does when it looks at a running goal.
LEMMA LookedHeard ==
  ASSUME NEW h, NEW w, NEW t, Sound(h, w, t), h.pc = "running", Current(h),
         NEW far, NEW x, x = looked(h, far)
  PROVE  Heard(x, h) /\ Withholds(x.gate, h.gate)
<1> DEFINE y == IF h.owner.goal.done \/ h.owner.goal.error THEN h
                ELSE check_runtime_observations(h)
           none == 0
<1>1. /\ Speaks(h, 0, 0) /\ h \in HostRecord
      /\ ~h.owner.goal.error => Relayed(h.owner.goal)
  BY SpeaksNow
<1>2. x = IF y.owner.goal.loss THEN y ELSE maybe_cancel_moving(y, far)
  <2>1. x = then(y, LAMBDA z :
              IF z.owner.goal.loss THEN z ELSE maybe_cancel_moving(z, far))
    BY DEF looked
  <2> HIDE DEF y
  <2> QED BY <2>1 DEF then
<1>3. Heard(y, h) /\ Withholds(y.gate, h.gate)
  <2>1. CASE y = h
    BY <1>1, <2>1, ToldSelf DEF Heard, Withholds
  <2>2. CASE y = check_runtime_observations(h)
    <3>1. Speaks(h, none, none) /\ none <= 1
      BY <1>1
    <3> HIDE DEF none, y
    <3>2. Following(y, h, none, none) /\ Withholds(y.gate, h.gate)
      BY <1>1, <2>2, <3>1, CheckFollows
    <3> QED BY <3>2 DEF Following, Heard, none
  <2> QED BY <2>1, <2>2
<1> HIDE DEF y
<1>4. CASE y.owner.goal.loss
  BY <1>2, <1>3, <1>4
<1>5. CASE ~y.owner.goal.loss
  <2>1. y \in HostRecord /\ Speaks(y, 0, 0) /\ (~y.owner.goal.error => Relayed(y.owner.goal))
    BY <1>3 DEF Heard, Told
  <2>2. x = maybe_cancel_moving(y, far)
    BY <1>2, <1>5
  <2>3. Heard(x, y) /\ Withholds(x.gate, y.gate)
    BY <2>1, <2>2, CancelHeard
  <2>4. Heard(x, h)
    BY <1>1, <1>3, <2>3, HeardOn
  <2> QED BY <1>3, <2>3, <2>4 DEF Withholds
<1> QED BY <1>4, <1>5

LEMMA PollSound == ASSUME IInv, Poll PROVE IInv' /\ Kept
<1>1. Sound(Here, world, truth) /\ Here.pc = "running"
  BY HereIs DEF IInv, Poll
<1>2. Current(Here)
  BY <1>1 DEF Sound, Solid, Placed, GateSound, Current
<1>3. PICK far \in BOOLEAN, waited \in BOOLEAN :
        Step(then(looked(Here, far), LAMBDA x :
          IF \/ x.owner.goal.done \/ x.owner.goal.error
             \/ (x.owner.goal.loss /\ waited)
            THEN goal_ended(x) ELSE x))
  BY DEF Poll
<1> DEFINE x == looked(Here, far)
           r == IF \/ x.owner.goal.done \/ x.owner.goal.error
                   \/ (x.owner.goal.loss /\ waited)
                  THEN goal_ended(x) ELSE x
<1>4. Heard(x, Here) /\ Withholds(x.gate, Here.gate)
  BY <1>1, <1>2, LookedHeard
<1> HIDE DEF x
<1>5. Becomes(r) /\ UNCHANGED <<mode, world, truth>>
  <2>1. Step(then(x, LAMBDA z :
          IF \/ z.owner.goal.done \/ z.owner.goal.error
             \/ (z.owner.goal.loss /\ waited)
            THEN goal_ended(z) ELSE z))
    BY <1>3 DEF x
  <2> QED BY <2>1 DEF then, Step
<1>6. Sound(x, world, truth) /\ Keeps(x, Here) /\ x.pc = "running"
  BY <1>1, <1>2, <1>4, HeardSound DEF Keeps
<1>7. CASE \/ x.owner.goal.done \/ x.owner.goal.error
           \/ (x.owner.goal.loss /\ waited)
  <2>1. r = goal_ended(x) /\ (x.owner.goal.done \/ x.owner.goal.error \/ x.owner.goal.loss)
    BY <1>7
  <2> HIDE DEF r
  <2>2. Sound(r, world, truth) /\ Keeps(r, x)
    BY <1>6, <2>1, GoalEndedSound
  <2>3. Keeps(r, Here)
    BY <1>6, <2>2, KeepsOn
  <2> QED BY <1>5, <2>2, <2>3, StepBecomes
<1>8. CASE ~(\/ x.owner.goal.done \/ x.owner.goal.error
             \/ (x.owner.goal.loss /\ waited))
  <2>1. r = x
    BY <1>8
  <2> HIDE DEF r
  <2> QED BY <1>5, <1>6, <2>1, StepBecomes
<1> QED BY <1>7, <1>8

\* What a dispatch adds: a B that is sent after an obstacle was earned.
DispatchAdds ==
  /\ gate'.receipt.authority = gate.receipt.authority /\ Withholds(gate', gate)
  /\ mode = "resume" /\ owner.sends = 1 /\ owner'.sends = 2 =>
       truth.clears = Frames /\ truth.unseen < ScanLimit

LEMMA OpenAndRunSound == ASSUME IInv, OpenAndRun PROVE IInv' /\ DispatchAdds
<1>1. Sound(Here, world, truth) /\ Here.pc = "opening" /\ mode \in Mode
  BY HereIs DEF IInv, OpenAndRun
<1>2. PICK t \in {0} \cup {1 : f \in {world.fault} \cap {"expired"}}, seen \in BOOLEAN :
        /\ world.drive.generation = closure.facts.generation - 1
        /\ Becomes(run_goal(Here, t, seen))
        /\ world' = [world EXCEPT !.drive.generation = closure.facts.generation,
                                  !.work = [new_work EXCEPT !.goal =
                                    IF owner'.sends > owner.sends THEN "sent" ELSE "none"]]
        /\ truth' = [truth EXCEPT !.gap = FALSE]
        /\ mode' = mode
  BY DEF OpenAndRun
<1> DEFINE r == run_goal(Here, t, seen)
           goal == IF owner'.sends > owner.sends THEN "sent" ELSE "none"
           v == world'
           u == truth'
<1>3. t \in Time
  BY OwnerAssumption
<1>4. /\ world \in WorldRecord /\ truth \in TruthRecord /\ closure \in ClosureRecord
  BY <1>1, HereIs DEF Sound, Solid, HostRecord
<1>5. closure.facts.generation \in 1..2 /\ Generation(Here) = closure.facts.generation
  BY <1>4, HereIs DEF ClosureRecord, Facts, Generation
<1>6. u \in TruthRecord /\ ~u.gap /\ u.clears = truth.clears /\ u.unseen = truth.unseen
  BY <1>2, <1>4 DEF TruthRecord
<1>7. Opens(v, world, Here)
  <2> DEFINE drive == [world.drive EXCEPT !.generation = closure.facts.generation]
             work == [new_work EXCEPT !.goal = goal]
  <2>1. goal \in {"none", "sent"}
    OBVIOUS
  <2>2. v = [world EXCEPT !.drive = drive, !.work = work]
    BY <1>2, <1>4 DEF WorldRecord
  <2> HIDE DEF goal, v
  <2>3. drive \in [generation : 0..2, applied : 0..2]
    BY <1>4, <1>5 DEF WorldRecord
  <2>4. drive.generation = closure.facts.generation /\ drive.applied = world.drive.applied
    BY <1>4 DEF WorldRecord
  <2>5. work \in [goal : {"none", "sent", "active", "refused"} \cup Terminal,
                  workers : [Child -> {"idle", "running", "over"}], joined : BOOLEAN]
    BY <2>1 DEF new_work
  <2> HIDE DEF drive, work
  <2>6. v \in WorldRecord /\ v.drive = drive
    BY <1>4, <2>2, <2>3, <2>5 DEF WorldRecord
  <2> QED BY <1>2, <1>5, <2>4, <2>6 DEF Opens
<1>8. Becomes(r) /\ mode' = mode /\ world' = v /\ truth' = u
  BY <1>2
<1> HIDE DEF r, u, v
<1>9. /\ Sound(r, v, u) /\ r.gate.receipt.authority = Here.gate.receipt.authority
      /\ Withholds(r.gate, Here.gate)
      /\ mode = "resume" /\ Here.owner.sends = 1 /\ r.owner.sends = 2 =>
           truth.clears = Frames /\ truth.unseen < ScanLimit
  BY <1>1, <1>3, <1>6, <1>7, RunSound DEF r
<1>10. IInv' /\ gate' = r.gate /\ owner' = r.owner
  BY <1>1, <1>8, <1>9, Becoming
<1> QED BY <1>9, <1>10, HereIs DEF DispatchAdds

LEMMA QuietEndsSound == ASSUME IInv, QuietEnds PROVE IInv' /\ Kept
<1> DEFINE here == to_quiet(Here, pc)
           u == truth'
<1>1. Sound(Here, world, truth) /\ Here.pc = pc /\ mode \in Mode
  BY HereIs DEF IInv
<1>2. pc \in {"quiet", "quiet_again"}
  BY DEF QuietEnds
<1>3. here = [Here EXCEPT !.window = new_window]
  <2>1. Here \in HostRecord
    BY <1>1 DEF Sound, Solid
  <2> QED BY <1>1, <2>1 DEF to_quiet, HostRecord
<1>4. /\ Sound(here, world, truth) /\ Keeps(here, Here) /\ here.pc = pc
  BY <1>1, <1>2, QuietSound
<1> HIDE DEF here
<1>5. PICK seen \in BOOLEAN :
        LET observed == window.status = "observed" /\ ~owner.goal.error /\ seen
        IN  /\ IF pc = "quiet"
                 THEN /\ Becomes(then(after_quiet(here, observed), LAMBDA x :
                           IF x.pc = "clear" THEN [x EXCEPT !.corridor = new_obstacle_watch]
                           ELSE x))
                      /\ truth' = [truth EXCEPT !.clears = 0, !.unseen = ScanLimit]
                 ELSE /\ Becomes(IF observed THEN [here EXCEPT !.pc = "settling"]
                                 ELSE blocked(here))
                      /\ UNCHANGED truth
            /\ UNCHANGED <<mode, world>>
  BY <1>3 DEF QuietEnds
<1> DEFINE observed == window.status = "observed" /\ ~owner.goal.error /\ seen
<1>6. observed \in BOOLEAN /\ (observed => world.robot = "still")
  BY <1>1, <1>2, HereIs DEF Sound, RestSound
<1>7. world \in WorldRecord /\ truth \in TruthRecord
  BY <1>1 DEF Sound
<1>8. CASE pc = "quiet"
  <2> DEFINE r == AfterQuiet(after_quiet(here, observed))
             z == after_quiet(here, observed)
  <2>1. /\ Becomes(then(z, LAMBDA x :
                 IF x.pc = "clear" THEN [x EXCEPT !.corridor = new_obstacle_watch]
                 ELSE x))
        /\ truth' = [truth EXCEPT !.clears = 0, !.unseen = ScanLimit]
        /\ mode' = mode /\ world' = world
    BY <1>5, <1>8
  <2>2. Becomes(r)
    <3>1. r = AfterQuiet(z)
      OBVIOUS
    <3> HIDE DEF z, r
    <3> QED BY <2>1, <3>1 DEF then, AfterQuiet
  <2>3. u \in TruthRecord /\ u.gap = truth.gap /\ u.clears = 0
    <3>1. ScanLimit \in Nat
      BY WatchAssumption
    <3> QED BY <1>7, <2>1, <3>1 DEF TruthRecord
  <2> HIDE DEF observed, u
  <2>4. Sound(r, world, u) /\ Keeps(r, here)
    BY <1>4, <1>6, <1>8, <2>3, AfterQuietSound
  <2>5. Keeps(r, Here)
    BY <1>4, <2>4, KeepsOn
  <2>6. truth' = u
    BY DEF u
  <2> HIDE DEF r
  <2>7. IInv' /\ gate' = r.gate /\ owner' = r.owner
    BY <1>1, <2>1, <2>2, <2>4, <2>6, Becoming
  <2> QED BY <2>5, <2>7, HereIs DEF Kept, Keeps
<1>9. CASE pc = "quiet_again"
  <2>1. /\ Becomes(IF observed THEN [here EXCEPT !.pc = "settling"] ELSE blocked(here))
        /\ UNCHANGED <<mode, world, truth>>
    BY <1>5, <1>9
  <2>2. CASE observed
    <3> DEFINE r == Moving(here, "settling")
    <3>1. Becomes(r)
      BY <2>1, <2>2 DEF Moving
    <3> HIDE DEF r, observed
    <3>2. Sound(r, world, truth) /\ Keeps(r, here)
      BY <1>4, <1>6, <1>9, <2>2, MovingSound DEF r
    <3>3. Keeps(r, Here)
      BY <1>4, <3>2, KeepsOn
    <3> QED BY <2>1, <3>1, <3>2, <3>3, StepBecomes
  <2>3. CASE ~observed
    <3>1. Becomes(blocked(here))
      BY <2>1, <2>3
    <3>2. Solid(here, world)
      BY <1>4 DEF Sound
    <3>3. Sound(blocked(here), world, truth) /\ Keeps(blocked(here), here)
      BY <1>7, <3>2, RaisedSound
    <3>4. Keeps(blocked(here), Here)
      BY <1>4, <3>3, KeepsOn
    <3> QED BY <2>1, <3>1, <3>3, <3>4, StepBecomes
  <2> QED BY <2>2, <2>3
<1> QED BY <1>2, <1>8, <1>9

\* What the settlement adds: an operation that was admitted was earned.
Settles ==
  /\ Withholds(gate', gate) /\ owner'.sends = owner.sends
  /\ \/ gate'.receipt.authority = gate.receipt.authority
     \/ /\ \A c \in Child : world.work.workers[c] # "running"
        /\ world.work.joined /\ world.robot = "still" /\ world.drive.applied = 1

LEMMA SettleSound == ASSUME IInv, Settle PROVE IInv' /\ Settles
<1>1. Sound(Here, world, truth) /\ Here.pc = "settling" /\ mode \in Mode
  BY HereIs DEF IInv, Settle
<1>2. /\ Becomes(blocked(Here)) \/ Becomes(hand_over(Here))
      /\ UNCHANGED <<mode, world, truth>>
  BY DEF Settle, Step
<1>3. CASE Becomes(blocked(Here))
  <2>1. Solid(Here, world) /\ world \in WorldRecord /\ truth \in TruthRecord
    BY <1>1 DEF Sound
  <2>2. Sound(blocked(Here), world, truth) /\ Keeps(blocked(Here), Here)
    BY <2>1, RaisedSound
  <2>3. IInv' /\ Kept
    BY <1>2, <1>3, <2>2, StepBecomes
  <2> QED BY <2>3 DEF Kept, Settles
<1>4. CASE Becomes(hand_over(Here))
  <2> DEFINE r == hand_over(Here)
  <2>1. /\ Sound(r, world, truth) /\ r.owner.sends = Here.owner.sends
        /\ Withholds(r.gate, Here.gate)
        /\ \/ r.gate.receipt.authority = Here.gate.receipt.authority
           \/ /\ \A c \in Child : world.work.workers[c] # "running"
              /\ world.work.joined /\ world.robot = "still" /\ world.drive.applied = 1
    BY <1>1, HandOverSound
  <2> HIDE DEF r
  <2>2. Becomes(r) /\ mode' = mode /\ world' = world /\ truth' = truth
    BY <1>2, <1>4 DEF r
  <2>3. IInv' /\ gate' = r.gate /\ owner' = r.owner
    BY <1>1, <2>1, <2>2, Becoming
  <2> QED BY <2>1, <2>3, HereIs DEF Settles
<1> QED BY <1>2, <1>3, <1>4

-----------------------------------------------------------------------------
(* What the closure is told, and what happens around it *)

\* Something happens that the owner is not told of at once.
LEMMA WorldSound ==
  ASSUME NEW h, NEW w, NEW t, Sound(h, w, t), NEW v \in WorldRecord,
         v.drive.generation = w.drive.generation,
         \A c \in Child : w.work.workers[c] = "over" => v.work.workers[c] = "over",
         w.work.joined => v.work.joined, DriveSound(h, v), RestSound(h, v)
  PROVE  Sound(h, v, t)
<1>1. /\ h \in HostRecord /\ GateSound(h) /\ RefusedUnsent(h) /\ Duty(h)
      /\ Placed(h, w) /\ Numbered(h) /\ FactsSound(h, w)
      /\ GapSound(h, t) /\ CorridorSound(h, t) /\ t \in TruthRecord
  BY DEF Sound, Solid
<1>2. Placed(h, v)
  BY <1>1 DEF Placed
<1>3. FactsSound(h, v)
  BY <1>1 DEF FactsSound
<1> QED BY <1>1, <1>2, <1>3 DEF Sound, Solid

\* The facts f are so.
Shown(f, w) ==
  /\ \A c \in Child :
       /\ f.link[c] \subseteq {"own"}
       /\ "own" \in f.ack[c] => /\ w.work.workers[c] = "over"
                                /\ w.drive.generation = f.generation
  /\ f.bt_closed => w.work.joined /\ w.drive.generation = f.generation

Knowing(h, f) == [h EXCEPT !.closure.facts = f]

LEMMA KnowingSound ==
  ASSUME NEW h, NEW w, NEW t, Sound(h, w, t), NEW f \in Facts,
         f.generation = h.closure.facts.generation, Shown(f, w),
         \/ f.drive = h.closure.facts.drive
         \/ f.drive = "closed" /\ w.drive.applied = f.generation,
         NEW r, r = Knowing(h, f)
  PROVE  /\ Sound(r, w, t) /\ Keeps(r, h) /\ r.pc = h.pc /\ r.closure.facts = f
         /\ r.owner = h.owner
<1> DEFINE c == [h.closure EXCEPT !.facts = f]
<1>1. /\ h \in HostRecord /\ DriveSound(h, w) /\ RestSound(h, w)
      /\ GapSound(h, t) /\ CorridorSound(h, t)
  BY DEF Sound, Solid
<1>2. h.closure \in ClosureRecord /\ h.closure.facts \in Facts
  BY <1>1 DEF HostRecord, ClosureRecord
<1>3. r = [h EXCEPT !.closure = c]
  BY <1>1, <1>2 DEF Knowing, HostRecord
<1>4. /\ c \in ClosureRecord /\ c.facts = f /\ c.requested = h.closure.requested
      /\ c.response = h.closure.response
  BY <1>2 DEF ClosureRecord
<1> HIDE DEF c
<1>5. /\ r \in HostRecord /\ r.gate = h.gate /\ r.pc = h.pc /\ r.owner = h.owner
      /\ r.closure = c /\ r.runtime = h.runtime
      /\ r.corridor = h.corridor /\ r.window = h.window
  BY <1>1, <1>3, <1>4 DEF HostRecord
<1>6. Generation(r) = Generation(h)
  BY <1>4, <1>5 DEF Generation
<1>7. DriveSound(r, w)
  BY <1>1, <1>4, <1>5 DEF DriveSound
<1>8. FactsSound(r, w)
  BY <1>4, <1>5 DEF FactsSound, Shown
<1>9. RestSound(r, w)
  BY <1>1, <1>4, <1>5 DEF RestSound
<1>10. GapSound(r, t) /\ CorridorSound(r, t)
  BY <1>1, <1>5 DEF GapSound, CorridorSound
<1>11. Sound(r, w, t) /\ Keeps(r, h)
  BY <1>5, <1>6, <1>7, <1>8, <1>9, <1>10, SideSound
<1> QED BY <1>4, <1>5, <1>11

\* What the owner was told stays so.
LEMMA ShownBefore ==
  ASSUME NEW h, NEW w, NEW t, Sound(h, w, t)
  PROVE  Shown(h.closure.facts, w) /\ h.closure.facts \in Facts
<1>1. h \in HostRecord /\ FactsSound(h, w)
  BY DEF Sound, Solid
<1> QED BY <1>1 DEF FactsSound, Shown, HostRecord, ClosureRecord

\* The callbacks of the closure: what it is told is so, or it throws.
LEMMA ObservedSound ==
  ASSUME NEW h, NEW w, NEW t, Sound(h, w, t), NEW f \in Facts,
         f.generation = h.closure.facts.generation, Shown(f, w),
         \/ f.drive = h.closure.facts.drive
         \/ f.drive = "closed" /\ w.drive.applied = f.generation,
         NEW rejects, NEW r, r = observed_facts(h, f, rejects)
  PROVE  Sound(r, w, t) /\ Keeps(r, h)
<1> DEFINE y == Knowing(h, f)
<1>1. Sound(y, w, t) /\ Keeps(y, h)
  BY KnowingSound
<1>2. r = thrown(y) \/ r = y
  BY DEF observed_facts, Knowing
<1> HIDE DEF y
<1>3. CASE r = thrown(y)
  <2>1. Sound(r, w, t) /\ Keeps(r, y)
    BY <1>1, <1>3, ThrownSound
  <2> QED BY <1>1, <2>1, KeepsOn
<1> QED BY <1>1, <1>2, <1>3

LEMMA ChildIs ==
  ASSUME NEW f \in Facts, NEW child \in Child, NEW acknowledges \in BOOLEAN,
         NEW identity \in Identity,
         NEW r, r = observe_child(f, child, acknowledges, identity)
  PROVE  /\ r \in Facts /\ r.generation = f.generation /\ r.drive = f.drive
         /\ r.bt_closed = f.bt_closed
         /\ \A c \in Child :
              /\ \/ r.link[c] = f.link[c]
                 \/ c = child /\ ~acknowledges /\ r.link[c] = {identity}
              /\ \/ r.ack[c] = f.ack[c]
                 \/ c = child /\ acknowledges /\ r.ack[c] = {identity}
<1> DEFINE seen == IF acknowledges THEN [f EXCEPT !.ack[child] = {identity}]
                   ELSE [f EXCEPT !.link[child] = {identity}]
           ack == [f.ack EXCEPT ![child] = {identity}]
           link == [f.link EXCEPT ![child] = {identity}]
<1>1. r \in {rejected_facts(f), seen, rejected_facts(seen)}
  BY DEF observe_child
<1>2. ack \in [Child -> SUBSET Identity] /\ link \in [Child -> SUBSET Identity]
  BY DEF Facts
<1>3. seen = IF acknowledges THEN [f EXCEPT !.ack = ack] ELSE [f EXCEPT !.link = link]
  BY DEF Facts
<1>4. \A c \in Child : /\ ack[c] = f.ack[c] \/ (c = child /\ ack[c] = {identity})
                       /\ link[c] = f.link[c] \/ (c = child /\ link[c] = {identity})
  BY DEF Facts
<1> HIDE DEF ack, link, seen
<1>5. /\ seen \in Facts /\ seen.generation = f.generation /\ seen.drive = f.drive
      /\ seen.bt_closed = f.bt_closed
      /\ seen.link = IF acknowledges THEN f.link ELSE link
      /\ seen.ack = IF acknowledges THEN ack ELSE f.ack
  <2>1. CASE acknowledges
    BY <1>2, <1>3, <2>1 DEF Facts
  <2>2. CASE ~acknowledges
    BY <1>2, <1>3, <2>2 DEF Facts
  <2> QED BY <2>1, <2>2
<1>6. ASSUME NEW q \in Facts
      PROVE  /\ rejected_facts(q) \in Facts
             /\ rejected_facts(q).generation = q.generation
             /\ rejected_facts(q).drive = q.drive
             /\ rejected_facts(q).bt_closed = q.bt_closed
             /\ rejected_facts(q).link = q.link /\ rejected_facts(q).ack = q.ack
  BY DEF rejected_facts, Facts
<1>7. CASE r = rejected_facts(f)
  BY <1>6, <1>7
<1>8. CASE r \in {seen, rejected_facts(seen)}
  <2>1. /\ r \in Facts /\ r.generation = f.generation /\ r.drive = f.drive
        /\ r.bt_closed = f.bt_closed /\ r.link = seen.link /\ r.ack = seen.ack
    BY <1>5, <1>6, <1>8
  <2> QED BY <1>4, <1>5, <2>1
<1> QED BY <1>1, <1>7, <1>8

LEMMA CallbackBecomes ==
  ASSUME NEW r, IInv, Callback(r), world' = world, Sound(r, world, truth), Keeps(r, Here)
  PROVE  IInv' /\ Kept
<1>1. Becomes(r) /\ UNCHANGED <<mode, world, truth>>
  BY DEF Callback
<1> QED BY <1>1, StepBecomes

LEMMA ChildFactSound == ASSUME IInv, ChildFact PROVE IInv' /\ Kept
<1>1. Sound(Here, world, truth) /\ Here.closure = closure
  BY HereIs DEF IInv
<1>2. PICK child \in Child, acknowledges \in BOOLEAN :
        /\ closure.facts.generation = world.drive.generation
        /\ IF acknowledges THEN world.work.workers[child] = "over"
           ELSE world.work.workers[child] # "idle"
        /\ LET facts == observe_child(closure.facts, child, acknowledges, "own")
           IN  Callback(observed_facts(Here, facts,
                          facts.rejected /\ ~closure.facts.rejected))
        /\ UNCHANGED world
  BY DEF ChildFact
<1> DEFINE f == observe_child(closure.facts, child, acknowledges, "own")
           rejects == f.rejected /\ ~closure.facts.rejected
           r == observed_facts(Here, f, rejects)
<1>3. Shown(closure.facts, world) /\ closure.facts \in Facts
  BY <1>1, ShownBefore
<1>4. "own" \in Identity
  BY DEF Identity
<1>5. /\ f \in Facts /\ f.generation = closure.facts.generation
      /\ f.drive = closure.facts.drive /\ f.bt_closed = closure.facts.bt_closed
      /\ \A c \in Child :
           /\ \/ f.link[c] = closure.facts.link[c]
              \/ c = child /\ ~acknowledges /\ f.link[c] = {"own"}
           /\ \/ f.ack[c] = closure.facts.ack[c]
              \/ c = child /\ acknowledges /\ f.ack[c] = {"own"}
  BY <1>3, <1>4, ChildIs
<1>6. Callback(r) /\ world' = world
  BY <1>2
<1> HIDE DEF f
<1>7. Shown(f, world)
  BY <1>2, <1>3, <1>5 DEF Shown
<1> HIDE DEF rejects, r
<1>8. Sound(r, world, truth) /\ Keeps(r, Here)
  BY <1>1, <1>5, <1>7, ObservedSound DEF r
<1> QED BY <1>6, <1>8, CallbackBecomes

\* What the world loses of its fault is nothing to the owner.
LEMMA ForeignFactSound == ASSUME IInv, ForeignFact PROVE IInv' /\ Kept
<1>1. Sound(Here, world, truth) /\ Here.closure = closure /\ mode \in Mode
  BY HereIs DEF IInv
<1>2. PICK child \in Child :
        /\ LET facts == observe_child(closure.facts, child, TRUE, "foreign")
           IN  Callback(observed_facts(Here, facts,
                          facts.rejected /\ ~closure.facts.rejected))
        /\ world' = [world EXCEPT !.fault = "none"]
  BY DEF ForeignFact
<1> DEFINE f == observe_child(closure.facts, child, TRUE, "foreign")
           rejects == f.rejected /\ ~closure.facts.rejected
           r == observed_facts(Here, f, rejects)
           v == [world EXCEPT !.fault = "none"]
<1>3. Shown(closure.facts, world) /\ closure.facts \in Facts
  BY <1>1, ShownBefore
<1>4. "foreign" \in Identity /\ TRUE \in BOOLEAN
  BY DEF Identity
<1>5. /\ f \in Facts /\ f.generation = closure.facts.generation
      /\ f.drive = closure.facts.drive /\ f.bt_closed = closure.facts.bt_closed
      /\ \A c \in Child :
           /\ f.link[c] = closure.facts.link[c]
           /\ f.ack[c] = closure.facts.ack[c] \/ f.ack[c] = {"foreign"}
  <2>1. PICK all \in BOOLEAN : all /\ f = observe_child(closure.facts, child, all, "foreign")
    <3> WITNESS TRUE \in BOOLEAN
    <3> QED OBVIOUS
  <2> DEFINE q == observe_child(closure.facts, child, all, "foreign")
  <2>2. /\ q \in Facts /\ q.generation = closure.facts.generation
        /\ q.drive = closure.facts.drive /\ q.bt_closed = closure.facts.bt_closed
        /\ \A c \in Child :
             /\ \/ q.link[c] = closure.facts.link[c]
                \/ c = child /\ ~all /\ q.link[c] = {"foreign"}
             /\ \/ q.ack[c] = closure.facts.ack[c]
                \/ c = child /\ all /\ q.ack[c] = {"foreign"}
    BY <1>3, <1>4, ChildIs
  <2> HIDE DEF f, q
  <2>3. f = q
    BY <2>1 DEF q
  <2> QED BY <2>1, <2>2, <2>3
<1>6. Callback(r)
  BY <1>2
<1> HIDE DEF f
<1>7. Shown(f, world)
  BY <1>3, <1>5 DEF Shown
<1> HIDE DEF rejects, r
<1>8. Sound(r, world, truth) /\ Keeps(r, Here)
  BY <1>1, <1>5, <1>7, ObservedSound DEF r
<1>9. world \in WorldRecord /\ DriveSound(r, world) /\ RestSound(r, world)
  BY <1>8 DEF Sound, Solid
<1>10. v \in WorldRecord /\ v.work = world.work /\ v.drive = world.drive
       /\ v.robot = world.robot
  BY <1>9 DEF WorldRecord, Fault
<1>11. Becomes(r) /\ mode' = mode /\ world' = v /\ truth' = truth
  BY <1>2, <1>6 DEF Callback
<1> HIDE DEF v
<1>12. DriveSound(r, v) /\ RestSound(r, v)
  BY <1>9, <1>10 DEF DriveSound, RestSound
<1>13. Sound(r, v, truth)
  BY <1>8, <1>10, <1>12, WorldSound
<1>14. IInv' /\ gate' = r.gate /\ owner' = r.owner
  BY <1>1, <1>11, <1>13, Becoming
<1> QED BY <1>8, <1>14, HereIs DEF Keeps, Kept

\* The acknowledgement that is judged is that of the task, and was asked for.
LEMMA DriveAckSound == ASSUME IInv, DriveAck PROVE IInv' /\ Kept
<1>1. Sound(Here, world, truth) /\ Here.closure = closure
  BY HereIs DEF IInv
<1> DEFINE asked == closure.requested /\ world.drive.applied = world.drive.generation
           f == observe_drive(closure.facts, world.drive.applied, asked)
           rejects == f.rejected /\ ~closure.facts.rejected
           r == observed_facts(Here, f, rejects)
<1>2. f # closure.facts /\ Callback(r) /\ world' = world
  BY DEF DriveAck
<1>3. Shown(closure.facts, world) /\ closure.facts \in Facts
  BY <1>1, ShownBefore
<1>4. DriveSound(Here, world) /\ world \in WorldRecord
  BY <1>1 DEF Sound, Solid
<1>5. /\ world.drive.applied \in Int /\ world.drive.generation \in Int
      /\ closure.facts.generation \in Int
  BY <1>3, <1>4 DEF WorldRecord, Facts
<1>6. ~(world.drive.applied < closure.facts.generation)
  BY <1>2 DEF observe_drive
<1>7. /\ world.drive.applied = closure.facts.generation
      /\ world.drive.generation = closure.facts.generation
  BY <1>1, <1>4, <1>5, <1>6 DEF DriveSound
<1>8. asked
  BY <1>1, <1>4, <1>7 DEF DriveSound
<1>9. f = [closure.facts EXCEPT !.drive = "closed"]
  BY <1>2, <1>6, <1>7, <1>8 DEF observe_drive, judged_drive
<1> HIDE DEF f
<1>10. /\ f \in Facts /\ f.generation = closure.facts.generation
       /\ f.link = closure.facts.link /\ f.ack = closure.facts.ack
       /\ f.bt_closed = closure.facts.bt_closed /\ f.drive = "closed"
  BY <1>3, <1>9 DEF Facts
<1>11. Shown(f, world)
  BY <1>3, <1>10 DEF Shown
<1> HIDE DEF rejects, r
<1>12. Sound(r, world, truth) /\ Keeps(r, Here)
  BY <1>1, <1>7, <1>10, <1>11, ObservedSound DEF r
<1> QED BY <1>2, <1>12, CallbackBecomes

\* The closure of the drive goes on: it is asked for, or answered.
LEMMA AnsweredSound ==
  ASSUME NEW h, NEW w, NEW t, Sound(h, w, t), NEW c \in ClosureRecord,
         c.facts = h.closure.facts, h.closure.requested => c.requested,
         NEW r, r = [h EXCEPT !.closure = c]
  PROVE  Sound(r, w, t) /\ Keeps(r, h) /\ r.pc = h.pc
<1>1. /\ h \in HostRecord /\ DriveSound(h, w) /\ FactsSound(h, w) /\ RestSound(h, w)
      /\ GapSound(h, t) /\ CorridorSound(h, t)
  BY DEF Sound, Solid
<1>2. /\ r \in HostRecord /\ r.gate = h.gate /\ r.pc = h.pc /\ r.owner = h.owner
      /\ r.closure = c /\ r.runtime = h.runtime
      /\ r.corridor = h.corridor /\ r.window = h.window
  BY <1>1 DEF HostRecord
<1>3. DriveSound(r, w) /\ FactsSound(r, w) /\ Generation(r) = Generation(h)
  BY <1>1, <1>2 DEF DriveSound, FactsSound, Generation
<1>4. RestSound(r, w) /\ GapSound(r, t) /\ CorridorSound(r, t)
  BY <1>1, <1>2 DEF RestSound, GapSound, CorridorSound
<1>5. Sound(r, w, t) /\ Keeps(r, h)
  BY <1>2, <1>3, <1>4, SideSound
<1> QED BY <1>2, <1>5

LEMMA CloseResponseSound == ASSUME IInv, CloseResponse PROVE IInv' /\ Kept
<1>1. Sound(Here, world, truth) /\ Here.closure = closure
  BY HereIs DEF IInv
<1>2. PICK answer \in {"accepted"} \cup {"failed" : x \in {world.fault} \cap {"refused"}} :
        /\ Callback([Here EXCEPT !.closure.response = answer]) /\ UNCHANGED world
  BY DEF CloseResponse
<1> DEFINE c == [closure EXCEPT !.response = answer]
           r == [Here EXCEPT !.closure = c]
<1>3. Here \in HostRecord /\ closure \in ClosureRecord
  BY <1>1 DEF Sound, Solid, HostRecord
<1>4. Callback(r) /\ world' = world
  BY <1>1, <1>2, <1>3 DEF HostRecord
<1>5. c \in ClosureRecord /\ c.facts = closure.facts /\ c.requested = closure.requested
  BY <1>3 DEF ClosureRecord
<1> HIDE DEF c
<1>6. r = [Here EXCEPT !.closure = c]
  OBVIOUS
<1> HIDE DEF r
<1>7. Sound(r, world, truth) /\ Keeps(r, Here)
  BY <1>1, <1>5, <1>6, AnsweredSound
<1> QED BY <1>4, <1>7, CallbackBecomes

\* The tree is joined once its workers are closed.
LEMMA CloseBtSound == ASSUME IInv, CloseBt PROVE IInv' /\ Kept
<1>1. Sound(Here, world, truth) /\ Here.closure = closure /\ mode \in Mode
      /\ Here.pc = "bt"
  BY HereIs DEF IInv, CloseBt
<1> DEFINE f == observe_bt(closure.facts, TRUE)
           y == Knowing(Here, f)
           v == [world EXCEPT !.work.joined = TRUE]
<1>2. /\ IF f.rejected THEN Becomes(closed_or_not(y, FALSE))
         ELSE Becomes([request_drive_close(y) EXCEPT !.pc = "drive"])
      /\ world' = v /\ mode' = mode /\ truth' = truth
  BY DEF CloseBt, Knowing
<1>3. /\ world \in WorldRecord /\ DriveSound(Here, world) /\ RestSound(Here, world)
      /\ Placed(Here, world)
  BY <1>1 DEF Sound, Solid
<1>4. v \in WorldRecord /\ v.work.workers = world.work.workers /\ v.work.joined
      /\ v.drive = world.drive /\ v.robot = world.robot
  BY <1>3 DEF WorldRecord
<1> HIDE DEF v
<1>5. DriveSound(Here, v) /\ RestSound(Here, v)
  BY <1>3, <1>4 DEF DriveSound, RestSound
<1>6. Sound(Here, v, truth)
  BY <1>1, <1>4, <1>5, WorldSound
<1>7. Shown(closure.facts, v) /\ closure.facts \in Facts
  BY <1>1, <1>6, ShownBefore
<1>8. /\ f \in Facts /\ f.generation = closure.facts.generation
      /\ f.link = closure.facts.link /\ f.ack = closure.facts.ack
      /\ f.drive = closure.facts.drive
  <2>1. \/ f = [closure.facts EXCEPT !.bt_closed = TRUE]
        \/ f = [closure.facts EXCEPT !.rejected = TRUE]
    BY DEF observe_bt, rejected_facts
  <2> HIDE DEF f
  <2>2. CASE f = [closure.facts EXCEPT !.bt_closed = TRUE]
    BY <1>7, <2>2 DEF Facts
  <2>3. CASE f = [closure.facts EXCEPT !.rejected = TRUE]
    BY <1>7, <2>3 DEF Facts
  <2> QED BY <2>1, <2>2, <2>3
<1>9. v.drive.generation = f.generation
  BY <1>1, <1>3, <1>4, <1>8 DEF Placed, Generation
<1> HIDE DEF f
<1>10. Shown(f, v)
  BY <1>4, <1>7, <1>8, <1>9 DEF Shown
<1>11. Sound(y, v, truth) /\ Keeps(y, Here) /\ y.pc = "bt"
  BY <1>1, <1>6, <1>8, <1>10, KnowingSound
<1> HIDE DEF y
<1>12. ASSUME NEW r, Becomes(r), Sound(r, v, truth), Keeps(r, y) PROVE IInv' /\ Kept
  <2>1. Keeps(r, Here)
    BY <1>11, <1>12, KeepsOn
  <2>2. IInv' /\ gate' = r.gate /\ owner' = r.owner
    BY <1>1, <1>2, <1>12, Becoming
  <2> QED BY <2>1, <2>2, HereIs DEF Keeps, Kept
<1>13. CASE f.rejected
  <2> DEFINE r == closed_or_not(y, FALSE)
             closed == FALSE
  <2>1. Becomes(r) /\ r = closed_or_not(y, closed) /\ closed \in BOOLEAN /\ ~closed
    BY <1>2, <1>13
  <2> HIDE DEF r, closed
  <2>2. Sound(r, v, truth) /\ Keeps(r, y)
    BY <1>11, <2>1, ClosedSound
  <2> QED BY <1>12, <2>1, <2>2
<1>14. CASE ~f.rejected
  <2> DEFINE c == [y.closure EXCEPT !.requested = TRUE]
             z == [y EXCEPT !.closure = c]
             r == Moving(z, "drive")
  <2>1. y \in HostRecord /\ y.closure \in ClosureRecord
    BY <1>11 DEF Sound, Solid, HostRecord
  <2>2. z = request_drive_close(y)
    BY <2>1 DEF request_drive_close, HostRecord
  <2>3. Becomes(r)
    BY <1>2, <1>14, <2>2 DEF Moving
  <2>4. c \in ClosureRecord /\ c.facts = y.closure.facts /\ c.requested
    BY <2>1 DEF ClosureRecord
  <2> HIDE DEF c
  <2>5. Sound(z, v, truth) /\ Keeps(z, y) /\ z.pc = "bt"
    BY <1>11, <2>4, AnsweredSound
  <2> HIDE DEF z
  <2>6. Sound(r, v, truth) /\ Keeps(r, z)
    BY <2>5, MovingSound
  <2>7. Keeps(r, y)
    BY <2>5, <2>6, KeepsOn
  <2> HIDE DEF r
  <2> QED BY <1>12, <2>3, <2>6, <2>7
<1> QED BY <1>13, <1>14

-----------------------------------------------------------------------------
(* The callbacks of the goal *)

LEMMA CurrentNow ==
  ASSUME IInv, is_current, pc # "ended"
  PROVE  /\ Sound(Here, world, truth) /\ Current(Here) /\ Here.pc # "ended"
         /\ Here \in HostRecord /\ Speaks(Here, 0, 0)
         /\ ~owner.goal.error => Relayed(owner.goal)
<1>1. Sound(Here, world, truth) /\ Here.pc # "ended"
  BY HereIs DEF IInv
<1>2. Current(Here)
  BY HereIs DEF is_current, Current
<1> QED BY <1>1, <1>2, SpeaksNow, HereIs

LEMMA HeardBecomes ==
  ASSUME NEW r, IInv, is_current, Callback(r), world' = world, Heard(r, Here),
         Withholds(r.gate, Here.gate)
  PROVE  IInv' /\ Kept
<1>1. Sound(Here, world, truth) /\ Current(Here) /\ Here.pc # "ended"
  BY CurrentNow DEF Callback
<1>2. Sound(r, world, truth) /\ Keeps(r, Here)
  BY <1>1, HeardSound DEF Keeps
<1> QED BY <1>2, CallbackBecomes

LEMMA GoalResponseSound == ASSUME IInv, GoalResponse PROVE IInv' /\ Kept
<1> DEFINE accepted == world.work.goal # "refused"
           r == goal_response(Here, accepted)
<1>1. /\ is_current /\ ~owner.goal.handle /\ ~owner.goal.error /\ Callback(r)
      /\ world' = world
  BY DEF GoalResponse
<1>2. Here \in HostRecord /\ Speaks(Here, 0, 0)
  BY <1>1, CurrentNow DEF Callback
<1>3. accepted \in BOOLEAN
  OBVIOUS
<1> HIDE DEF accepted, r
<1>4. Heard(r, Here) /\ Withholds(r.gate, Here.gate)
  BY <1>1, <1>2, <1>3, HereIs, ResponseHeard DEF r
<1> QED BY <1>1, <1>4, HeardBecomes

LEMMA FeedbackSound == ASSUME IInv, Feedback PROVE IInv' /\ Kept
<1> DEFINE r == feedback(Here)
<1>1. /\ is_current /\ ~owner.goal.feedback /\ ~owner.goal.error /\ Callback(r)
      /\ world' = world
  BY DEF Feedback
<1>2. /\ Here \in HostRecord /\ Speaks(Here, 0, 0)
      /\ ~owner.goal.error => Relayed(owner.goal)
  BY <1>1, CurrentNow DEF Callback
<1> HIDE DEF r
<1>3. Heard(r, Here) /\ Withholds(r.gate, Here.gate)
  BY <1>1, <1>2, HereIs, FeedbackHeard DEF r
<1> QED BY <1>1, <1>3, HeardBecomes

LEMMA CancelResponseSound == ASSUME IInv, CancelResponse PROVE IInv' /\ Kept
<1>1. PICK answer \in StopResponse :
        /\ is_current /\ ~owner.goal.error
        /\ Callback(cancel_response(Here, answer)) /\ UNCHANGED world
  BY DEF CancelResponse
<1> DEFINE r == cancel_response(Here, answer)
<1>2. /\ Here \in HostRecord /\ Speaks(Here, 0, 0)
      /\ ~owner.goal.error => Relayed(owner.goal)
  BY <1>1, CurrentNow DEF Callback
<1>3. Heard(r, Here) /\ Withholds(r.gate, Here.gate)
  BY <1>1, <1>2, HereIs, CancelResponseHeard
<1>4. Callback(r) /\ world' = world
  BY <1>1
<1> HIDE DEF r
<1> QED BY <1>1, <1>3, <1>4, HeardBecomes

\* What a result adds: what it delivers was observed to the end.
Delivers ==
  /\ gate'.receipt.authority = gate.receipt.authority
  /\ owner'.sends = owner.sends
  /\ truth.gap => Withholds(gate', gate)

LEMMA ResultSound == ASSUME IInv, Result PROVE IInv' /\ Delivers
<1>1. PICK pose \in BOOLEAN :
        /\ is_current /\ world.work.goal \in Terminal
        /\ ~owner.goal.done /\ ~owner.goal.error
        /\ Callback(native_result(Here, world.work.goal, pose)) /\ UNCHANGED world
  BY DEF Result
<1> DEFINE r == native_result(Here, world.work.goal, pose)
<1>2. /\ Sound(Here, world, truth) /\ Current(Here) /\ Here.pc # "ended"
      /\ Here \in HostRecord /\ Speaks(Here, 0, 0)
      /\ ~owner.goal.error => Relayed(owner.goal)
  BY <1>1, CurrentNow DEF Callback
<1>3. /\ Heard(r, Here)
      /\ stale(Here.runtime) # {} \/ Here.owner.goal.loss => Withholds(r.gate, Here.gate)
  BY <1>1, <1>2, HereIs, ResultHeard
<1>4. Becomes(r) /\ mode' = mode /\ world' = world /\ truth' = truth
  BY <1>1 DEF Callback
<1> HIDE DEF r
<1>5. /\ Sound(r, world, truth) /\ r.owner.sends = Here.owner.sends
      /\ r.gate.receipt.authority = Here.gate.receipt.authority
  BY <1>2, <1>3, HeardSound
<1>6. mode \in Mode
  BY DEF IInv
<1>7. IInv' /\ gate' = r.gate /\ owner' = r.owner
  BY <1>4, <1>5, <1>6, Becoming
<1>8. truth.gap => Withholds(r.gate, Here.gate)
  BY <1>1, <1>2, <1>3, HereIs DEF Sound, GapSound
<1> QED BY <1>5, <1>7, <1>8, HereIs DEF Delivers

-----------------------------------------------------------------------------
(* The watches *)

LEMMA MotionSound == ASSUME IInv, Motion PROVE IInv' /\ Kept
<1>1. PICK step \in {0, 1}, bad \in BOOLEAN :
        /\ pc \in {"quiet", "quiet_again"} /\ window.status = "pending"
        /\ Callback([Here EXCEPT !.window =
                       observe_motion(@, IF bad THEN "bad" ELSE world.robot, step)])
        /\ UNCHANGED world
  BY DEF Motion
<1> DEFINE sample == IF bad THEN "bad" ELSE world.robot
           n == observe_motion(window, sample, step)
           r == [Here EXCEPT !.window = n]
<1>2. Sound(Here, world, truth) /\ Here.window = window /\ Here.pc = pc
  BY HereIs DEF IInv
<1>3. /\ Here \in HostRecord /\ window \in WindowRecord /\ world \in WorldRecord
      /\ DriveSound(Here, world) /\ FactsSound(Here, world) /\ RestSound(Here, world)
      /\ GapSound(Here, truth) /\ CorridorSound(Here, truth)
  BY <1>2 DEF Sound, Solid, HostRecord
<1>4. Callback(r) /\ world' = world
  BY <1>1, <1>2, <1>3 DEF HostRecord
<1>5. window.count # 0 => world.robot = "still"
  BY <1>1, <1>2, <1>3 DEF RestSound
<1>6. /\ n \in WindowRecord
      /\ n.count # 0 \/ n.status = "observed" => world.robot = "still"
  <2> DEFINE count == IF window.count < QuietSamples THEN window.count + 1
                      ELSE window.count
             span == IF window.count = 0 THEN 0
                     ELSE IF window.span + step < QuietTime THEN window.span + step
                     ELSE QuietTime
             still == [window EXCEPT !.count = count, !.span = span]
  <2>1. count \in Nat /\ span \in Nat
    <3>1. window.count \in Nat /\ window.span \in Nat
      BY <1>3 DEF WindowRecord
    <3>2. QuietTime \in Nat /\ QuietSamples \in Nat
      BY WatchAssumption
    <3> QED BY <3>1, <3>2
  <2>2. still = [window EXCEPT !.count = IF @ < QuietSamples THEN @ + 1 ELSE @,
                               !.span = IF window.count = 0 THEN 0
                                        ELSE IF @ + step < QuietTime THEN @ + step
                                        ELSE QuietTime]
    BY <1>3 DEF WindowRecord
  <2>3. sample \in {"bad", "still", "moving"} /\ (sample = "moving" => world.robot = "moving")
    BY <1>3 DEF WorldRecord
  <2>4. \/ n = window
        \/ n = [window EXCEPT !.status = "rejected"]
        \/ /\ sample = "still"
           /\ n = [still EXCEPT !.status = "observed"] \/ n = still
    <3> HIDE DEF sample, count, span, still
    <3> QED BY <2>2, <2>3 DEF observe_motion
  <2>5. sample = "still" => world.robot = "still"
    OBVIOUS
  <2> HIDE DEF count, span, n, sample
  <2>6. still \in WindowRecord
    BY <1>3, <2>1 DEF WindowRecord
  <2> HIDE DEF still
  <2>7. CASE n = window
    BY <1>1, <1>3, <1>5, <2>7
  <2>8. CASE n = [window EXCEPT !.status = "rejected"]
    BY <1>3, <1>5, <2>8 DEF WindowRecord
  <2>9. CASE /\ sample = "still"
             /\ n = [still EXCEPT !.status = "observed"] \/ n = still
    BY <2>5, <2>6, <2>9 DEF WindowRecord
  <2> QED BY <2>4, <2>7, <2>8, <2>9
<1> HIDE DEF n
<1>7. /\ r \in HostRecord /\ r.pc = Here.pc /\ r.gate = Here.gate
      /\ r.owner = Here.owner /\ r.closure = Here.closure /\ r.window = n
      /\ r.runtime = Here.runtime /\ r.corridor = Here.corridor
  BY <1>3, <1>6 DEF HostRecord
<1> HIDE DEF r
<1>8. DriveSound(r, world) /\ FactsSound(r, world) /\ Generation(r) = Generation(Here)
  BY <1>3, <1>7 DEF DriveSound, FactsSound, Generation
<1>9. RestSound(r, world)
  BY <1>1, <1>2, <1>3, <1>6, <1>7 DEF RestSound
<1>10. GapSound(r, truth) /\ CorridorSound(r, truth)
  BY <1>3, <1>7 DEF GapSound, CorridorSound
<1>11. Sound(r, world, truth) /\ Keeps(r, Here)
  BY <1>2, <1>7, <1>8, <1>9, <1>10, SideSound
<1> QED BY <1>4, <1>11, CallbackBecomes

\* A stream that is lost stays lost, also when a message of it comes late.
LEMMA StreamMessageSound == ASSUME IInv, StreamMessage PROVE IInv' /\ Kept
<1>1. PICK progresses \in BOOLEAN :
        /\ silent
        /\ Callback([Here EXCEPT !.runtime = observe_stream(@, world.fault, progresses)])
        /\ UNCHANGED world
  BY DEF StreamMessage
<1> DEFINE n == observe_stream(runtime, world.fault, progresses)
           r == [Here EXCEPT !.runtime = n]
           late == latch_expiry(runtime)
           lost == stale(runtime)
           age == [runtime.age EXCEPT ![world.fault] = 0]
<1>2. Sound(Here, world, truth) /\ Here.runtime = runtime
  BY HereIs DEF IInv
<1>3. /\ Here \in HostRecord /\ runtime \in RuntimeRecord
      /\ DriveSound(Here, world) /\ FactsSound(Here, world) /\ RestSound(Here, world)
      /\ GapSound(Here, truth) /\ CorridorSound(Here, truth)
  BY <1>2 DEF Sound, Solid, HostRecord
<1>4. Callback(r) /\ world' = world
  BY <1>1, <1>2, <1>3 DEF HostRecord
<1>5. lost \in SUBSET Stream
  BY <1>3 DEF stale, RuntimeRecord, Stream
<1>6. late = [runtime EXCEPT !.lost = lost]
  BY DEF latch_expiry
<1>7. age \in [Stream -> Nat]
  BY <1>3 DEF RuntimeRecord
<1> HIDE DEF lost
<1>8. late \in RuntimeRecord /\ late.lost = lost /\ late.age = runtime.age
  BY <1>3, <1>5, <1>6 DEF RuntimeRecord
<1>9. n = late \/ n = [late EXCEPT !.age = age]
  <2> HIDE DEF late
  <2>1. n = IF progresses THEN [late EXCEPT !.age[world.fault] = 0] ELSE late
    BY DEF observe_stream, renewed, late
  <2> QED BY <1>8, <2>1 DEF RuntimeRecord
<1> HIDE DEF n, late, age
<1>10. n \in RuntimeRecord /\ n.lost = lost
  BY <1>7, <1>8, <1>9 DEF RuntimeRecord
<1>11. lost # {} => stale(n) # {}
  BY <1>10 DEF stale
<1>12. /\ r \in HostRecord /\ r.pc = Here.pc /\ r.gate = Here.gate
       /\ r.owner = Here.owner /\ r.closure = Here.closure /\ r.runtime = n
       /\ r.window = Here.window /\ r.corridor = Here.corridor
  BY <1>3, <1>10 DEF HostRecord
<1> HIDE DEF r
<1>13. DriveSound(r, world) /\ FactsSound(r, world) /\ Generation(r) = Generation(Here)
  BY <1>3, <1>12 DEF DriveSound, FactsSound, Generation
<1>14. RestSound(r, world) /\ CorridorSound(r, truth)
  BY <1>3, <1>12 DEF RestSound, CorridorSound
<1>15. GapSound(r, truth)
  BY <1>2, <1>3, <1>11, <1>12 DEF GapSound, lost
<1>16. Sound(r, world, truth) /\ Keeps(r, Here)
  BY <1>2, <1>12, <1>13, <1>14, <1>15, SideSound
<1> QED BY <1>4, <1>16, CallbackBecomes

-----------------------------------------------------------------------------
(* The world *)

LEMMA HappensSound ==
  ASSUME NEW v, IInv, Happens(v), Sound(Here, v, truth) PROVE IInv' /\ Kept
<1>1. /\ world' = v /\ mode' = mode /\ truth' = truth /\ gate' = gate
      /\ owner' = owner /\ Here' = Here /\ mode \in Mode
  BY DEF Happens, Here, IInv
<1>2. IInv'
  BY <1>1 DEF IInv, Sound, CorridorSound
<1> QED BY <1>1, <1>2 DEF Kept, Withholds

Work ==
  [goal : {"none", "sent", "active", "refused"} \cup Terminal,
   workers : [Child -> {"idle", "running", "over"}], joined : BOOLEAN]

LEMMA WorkSound ==
  ASSUME NEW work, work \in Work, IInv,
         \A c \in Child : world.work.workers[c] = "over" => work.workers[c] = "over",
         work.joined = world.work.joined, Happens([world EXCEPT !.work = work])
  PROVE  IInv' /\ Kept
<1> DEFINE v == [world EXCEPT !.work = work]
<1>1. Sound(Here, world, truth) /\ Happens(v)
  BY DEF IInv
<1>2. world \in WorldRecord /\ DriveSound(Here, world) /\ RestSound(Here, world)
  BY <1>1 DEF Sound, Solid
<1>3. v \in WorldRecord /\ v.work = work /\ v.drive = world.drive /\ v.robot = world.robot
  BY <1>2 DEF WorldRecord, Work
<1> HIDE DEF v
<1>4. DriveSound(Here, v) /\ RestSound(Here, v)
  BY <1>2, <1>3 DEF DriveSound, RestSound
<1>5. Sound(Here, v, truth)
  BY <1>1, <1>3, <1>4, WorldSound
<1> QED BY <1>1, <1>5, HappensSound

LEMMA WorkType == ASSUME IInv PROVE world \in WorldRecord /\ world.work \in Work
BY DEF IInv, Sound, WorldRecord, Work

\* The goal goes on.
LEMMA GoalSound ==
  ASSUME IInv, NEW goal \in {"none", "sent", "active", "refused"} \cup Terminal,
         Happens([world EXCEPT !.work.goal = goal])
  PROVE  IInv' /\ Kept
<1> DEFINE work == [world.work EXCEPT !.goal = goal]
<1>1. world \in WorldRecord /\ world.work \in Work
  BY WorkType
<1>2. Happens([world EXCEPT !.work = work])
  BY <1>1 DEF WorldRecord
<1>3. work \in Work /\ work.joined = world.work.joined /\ work.workers = world.work.workers
  BY <1>1 DEF Work
<1> HIDE DEF work
<1> QED BY <1>2, <1>3, WorkSound

\* A worker that is not over goes on.
LEMMA WorkerSound ==
  ASSUME IInv, NEW child \in Child, NEW s \in {"idle", "running", "over"},
         world.work.workers[child] # "over",
         Happens([world EXCEPT !.work.workers[child] = s])
  PROVE  IInv' /\ Kept
<1> DEFINE workers == [world.work.workers EXCEPT ![child] = s]
           work == [world.work EXCEPT !.workers = workers]
<1>1. world \in WorldRecord /\ world.work \in Work
  BY WorkType
<1>2. Happens([world EXCEPT !.work = work])
  <2>1. work = [world.work EXCEPT !.workers[child] = s]
    BY <1>1 DEF Work
  <2> QED BY <1>1, <2>1 DEF WorldRecord
<1>3. /\ workers \in [Child -> {"idle", "running", "over"}]
      /\ \A c \in Child : world.work.workers[c] = "over" => workers[c] = "over"
  BY <1>1 DEF Work
<1> HIDE DEF workers
<1>4. work \in Work /\ work.joined = world.work.joined /\ work.workers = workers
  BY <1>1, <1>3 DEF Work
<1> HIDE DEF work
<1> QED BY <1>2, <1>3, <1>4, WorkSound

LEMMA WorkHappens ==
  ASSUME IInv, ServerAnswers \/ WorkerStarts \/ WorkerEnds \/ GoalEnds
  PROVE  IInv' /\ Kept
<1>1. CASE ServerAnswers
  <2>1. PICK goal \in {"active", "refused"} : Happens([world EXCEPT !.work.goal = goal])
    BY <1>1 DEF ServerAnswers
  <2>2. goal \in {"none", "sent", "active", "refused"} \cup Terminal
    OBVIOUS
  <2> QED BY <2>1, <2>2, GoalSound
<1>2. CASE WorkerStarts
  <2>1. PICK child \in Child :
          /\ world.work.workers[child] = "idle"
          /\ Happens([world EXCEPT !.work.workers[child] = "running"])
    BY <1>2 DEF WorkerStarts
  <2> DEFINE s == "running"
  <2>2. s \in {"idle", "running", "over"} /\ world.work.workers[child] # "over"
    BY <2>1
  <2>3. Happens([world EXCEPT !.work.workers[child] = s])
    BY <2>1
  <2> HIDE DEF s
  <2> QED BY <2>2, <2>3, WorkerSound
<1>3. CASE WorkerEnds
  <2>1. PICK child \in Child :
          /\ world.work.workers[child] = "running"
          /\ Happens([world EXCEPT !.work.workers[child] = "over"])
    BY <1>3 DEF WorkerEnds
  <2> DEFINE s == "over"
  <2>2. s \in {"idle", "running", "over"} /\ world.work.workers[child] # "over"
    BY <2>1
  <2>3. Happens([world EXCEPT !.work.workers[child] = s])
    BY <2>1
  <2> HIDE DEF s
  <2> QED BY <2>2, <2>3, WorkerSound
<1>4. CASE GoalEnds
  <2>1. PICK outcome \in Terminal : Happens([world EXCEPT !.work.goal = outcome])
    BY <1>4 DEF GoalEnds
  <2>2. outcome \in {"none", "sent", "active", "refused"} \cup Terminal
    OBVIOUS
  <2> QED BY <2>1, <2>2, GoalSound
<1> QED BY <1>1, <1>2, <1>3, <1>4

\* Behind a sealed drive the robot does not start to move.
LEMMA RobotMovesSound == ASSUME IInv, RobotMoves PROVE IInv' /\ Kept
<1> DEFINE v == [world EXCEPT !.robot = "moving"]
<1>1. Sound(Here, world, truth) /\ Happens(v) /\ open_drive /\ Here.pc # "ended"
  BY HereIs DEF IInv, RobotMoves, Happens
<1>2. /\ world \in WorldRecord /\ DriveSound(Here, world) /\ RestSound(Here, world)
      /\ Placed(Here, world)
  BY <1>1 DEF Sound, Solid
<1>3. v \in WorldRecord /\ v.work = world.work /\ v.drive = world.drive
  BY <1>2 DEF WorldRecord
<1> HIDE DEF v
<1>4. DriveSound(Here, v)
  BY <1>2, <1>3 DEF DriveSound
<1>5. Here.pc \notin {"quiet", "clear", "preparing", "quiet_again", "settling"}
  BY <1>1, <1>2 DEF open_drive, RestSound, DriveSound, Placed, Generation
<1>6. RestSound(Here, v)
  BY <1>5 DEF RestSound
<1>7. Sound(Here, v, truth)
  BY <1>1, <1>3, <1>4, <1>6, WorldSound
<1> QED BY <1>1, <1>7, HappensSound

LEMMA RobotRestsSound == ASSUME IInv, RobotRests PROVE IInv' /\ Kept
<1> DEFINE v == [world EXCEPT !.robot = "still"]
<1>1. Sound(Here, world, truth) /\ Happens(v)
  BY DEF IInv, RobotRests
<1>2. world \in WorldRecord /\ DriveSound(Here, world) /\ RestSound(Here, world)
  BY <1>1 DEF Sound, Solid
<1>3. v \in WorldRecord /\ v.work = world.work /\ v.drive = world.drive /\ v.robot = "still"
  BY <1>2 DEF WorldRecord
<1> HIDE DEF v
<1>4. DriveSound(Here, v) /\ RestSound(Here, v)
  BY <1>2, <1>3 DEF DriveSound, RestSound
<1>5. Sound(Here, v, truth)
  BY <1>1, <1>3, <1>4, WorldSound
<1> QED BY <1>1, <1>5, HappensSound

LEMMA DriveSealsSound == ASSUME IInv, DriveSeals PROVE IInv' /\ Kept
<1> DEFINE drive == [world.drive EXCEPT !.applied = world.drive.generation]
           v == [world EXCEPT !.drive = drive]
<1>1. /\ Sound(Here, world, truth) /\ Here.closure = closure /\ closure.requested
      /\ closure.facts.generation = world.drive.generation
      /\ Happens([world EXCEPT !.drive.applied = world.drive.generation])
  BY HereIs DEF IInv, DriveSeals
<1>2. world \in WorldRecord /\ DriveSound(Here, world) /\ RestSound(Here, world)
  BY <1>1 DEF Sound, Solid
<1>3. Happens(v)
  BY <1>1, <1>2 DEF WorldRecord
<1>4. /\ drive \in [generation : 0..2, applied : 0..2]
      /\ drive.generation = world.drive.generation
      /\ drive.applied = world.drive.generation
  BY <1>2 DEF WorldRecord
<1> HIDE DEF drive
<1>5. v \in WorldRecord /\ v.work = world.work /\ v.drive = drive /\ v.robot = world.robot
  BY <1>2, <1>4 DEF WorldRecord
<1> HIDE DEF v
<1>6. DriveSound(Here, v) /\ RestSound(Here, v)
  BY <1>1, <1>2, <1>4, <1>5 DEF DriveSound, RestSound
<1>7. Sound(Here, v, truth)
  BY <1>1, <1>4, <1>5, <1>6, WorldSound
<1> QED BY <1>3, <1>7, HappensSound

-----------------------------------------------------------------------------
(* The corridor *)

\* Another corridor, and a history that is as sound of it.
LEMMA LookingSound ==
  ASSUME NEW h, NEW w, NEW t, Sound(h, w, t), NEW n \in CorridorRecord,
         NEW u \in TruthRecord, u.gap = t.gap, NEW r, r = [h EXCEPT !.corridor = n],
         CorridorSound(r, u)
  PROVE  Sound(r, w, u) /\ Keeps(r, h)
<1>1. /\ h \in HostRecord /\ Placed(h, w) /\ Numbered(h) /\ RestSound(h, w)
      /\ GapSound(h, t)
  BY DEF Sound, Solid
<1>2. /\ r \in HostRecord /\ r.pc = h.pc /\ r.gate = h.gate /\ r.owner = h.owner
      /\ r.closure = h.closure /\ r.runtime = h.runtime
      /\ r.window = h.window
  BY <1>1 DEF HostRecord
<1>3. Placed(r, w) /\ Numbered(r)
  BY <1>1, <1>2 DEF Placed, Numbered, Within, Generation
<1>4. RestSound(r, w) /\ GapSound(r, u)
  BY <1>1, <1>2 DEF RestSound, GapSound
<1> QED BY <1>2, <1>3, <1>4, MovedSound

\* But for its last sample, r is the end of q.
Prolongs(r, q) ==
  \A i \in 1..(Len(r) - 1) :
    /\ Len(q) + 1 - Len(r) + i \in 1..Len(q)
    /\ r[i] = q[Len(q) + 1 - Len(r) + i]

\* The last Frames samples: a window that was no longer is one longer, or full.
LEMMA PushIs ==
  ASSUME NEW q \in Seq(Sample), Len(q) <= Frames, NEW s \in Sample,
         NEW r, r = push(q, s)
  PROVE  /\ r \in Seq(Sample) /\ Len(r) <= Frames /\ Len(r) >= 1
         /\ r[Len(r)] = s /\ Prolongs(r, q)
<1> DEFINE longer == Append(q, s)
<1> HIDE DEF Sample
<1>1. Frames \in Nat \ {0}
  BY WatchAssumption
<1>2. /\ longer \in Seq(Sample) /\ Len(longer) = Len(q) + 1
      /\ longer[Len(q) + 1] = s /\ \A i \in 1..Len(q) : longer[i] = q[i]
  OBVIOUS
<1>3. Len(q) \in Nat
  OBVIOUS
<1>4. CASE Len(longer) > Frames
  <2>1. r = Tail(longer)
    BY <1>4 DEF push
  <2>2. longer # <<>>
    BY <1>2, <1>3
  <2> HIDE DEF longer
  <2>3. r \in Seq(Sample) /\ Len(r) = Len(longer) - 1
    BY <1>2, <2>1, <2>2
  <2>4. \A i \in 1..Len(r) : r[i] = longer[i + 1]
    BY <1>2, <2>1, <2>2, <2>3
  <2>5. Len(r) = Frames /\ Len(q) = Frames
    BY <1>1, <1>2, <1>3, <1>4, <2>3
  <2>6. r[Len(r)] = s
    BY <1>1, <1>2, <2>4, <2>5
  <2>7. ASSUME NEW i \in 1..(Len(r) - 1)
        PROVE  /\ Len(q) + 1 - Len(r) + i \in 1..Len(q)
               /\ r[i] = q[Len(q) + 1 - Len(r) + i]
    <3>1. i \in 1..Len(r) /\ i + 1 \in 1..Len(q) /\ Len(q) + 1 - Len(r) + i = i + 1
      BY <1>1, <2>5
    <3> QED BY <1>2, <2>4, <3>1
  <2>8. Prolongs(r, q)
    BY <2>7 DEF Prolongs
  <2> QED BY <1>1, <2>3, <2>5, <2>6, <2>8
<1>5. CASE ~(Len(longer) > Frames)
  <2>1. r = longer
    BY <1>5 DEF push
  <2> HIDE DEF longer
  <2>2. ASSUME NEW i \in 1..(Len(r) - 1)
        PROVE  /\ Len(q) + 1 - Len(r) + i \in 1..Len(q)
               /\ r[i] = q[Len(q) + 1 - Len(r) + i]
    <3>1. i \in 1..Len(q) /\ Len(q) + 1 - Len(r) + i = i
      BY <1>2, <1>3, <2>1
    <3> QED BY <1>2, <2>1, <3>1
  <2>3. Prolongs(r, q)
    BY <2>2 DEF Prolongs
  <2> QED BY <1>1, <1>2, <1>3, <1>5, <2>1, <2>3
<1> QED BY <1>4, <1>5

\* n counts no less than the good samples at the end of the window.
Counts(q, n) ==
  \A i \in 1..Len(q) : (\A j \in i..Len(q) : Good(q[j])) => Len(q) - i < n

\* A good scan is counted; behind one that is not, none counts.
LEMMA PushCounts ==
  ASSUME NEW q \in Seq(Sample), Len(q) <= Frames, NEW n \in Nat, n <= Frames,
         Counts(q, n), NEW s \in Sample, NEW r, r = push(q, s), NEW m,
         Good(s) => m = IF n < Frames THEN n + 1 ELSE n
  PROVE  Counts(r, m)
<1>1. /\ r \in Seq(Sample) /\ Len(r) <= Frames /\ Len(r) >= 1 /\ r[Len(r)] = s
      /\ \A i \in 1..(Len(r) - 1) :
           /\ Len(q) + 1 - Len(r) + i \in 1..Len(q)
           /\ r[i] = q[Len(q) + 1 - Len(r) + i]
  <2>1. /\ r \in Seq(Sample) /\ Len(r) <= Frames /\ Len(r) >= 1 /\ r[Len(r)] = s
        /\ Prolongs(r, q)
    BY PushIs
  <2> QED BY <2>1 DEF Prolongs
<1>2. Len(r) \in Nat /\ Len(q) \in Nat /\ Frames \in Nat \ {0}
  BY <1>1, WatchAssumption
<1> SUFFICES ASSUME NEW i \in 1..Len(r), \A j \in i..Len(r) : Good(r[j])
             PROVE  Len(r) - i < m
  BY DEF Counts
<1>3. i \in Int /\ i >= 1 /\ i <= Len(r)
  BY <1>2
<1>4. Len(r) \in i..Len(r)
  BY <1>2, <1>3
<1>5. Good(s)
  BY <1>1, <1>4
<1>6. m = IF n < Frames THEN n + 1 ELSE n
  BY <1>5
<1>7. CASE i = Len(r)
  BY <1>2, <1>6, <1>7
<1>8. CASE i # Len(r)
  <2> DEFINE d == Len(q) + 1 - Len(r)
             k == d + i
  <2>1. i \in 1..(Len(r) - 1)
    BY <1>2, <1>3, <1>8
  <2>2. k \in 1..Len(q)
    BY <1>1, <2>1
  <2>3. ASSUME NEW l \in k..Len(q) PROVE Good(q[l])
    <3> DEFINE j == l - d
    <3>1. d \in Int /\ k \in Int /\ l \in Int /\ j \in Int
      BY <1>2, <1>3
    <3>2. j \in i..Len(r) /\ j \in 1..(Len(r) - 1) /\ Len(q) + 1 - Len(r) + j = l
      BY <1>2, <1>3, <2>3, <3>1
    <3> HIDE DEF j
    <3>3. r[j] = q[l]
      BY <1>1, <3>2
    <3>4. Good(r[j])
      BY <3>2
    <3> QED BY <3>3, <3>4
  <2>4. Len(q) - k < n
    BY <2>2, <2>3 DEF Counts
  <2>5. Len(q) - k = Len(r) - 1 - i
    BY <1>2, <1>3
  <2> QED BY <1>1, <1>2, <1>3, <1>6, <2>4, <2>5
<1> QED BY <1>7, <1>8

LEMMA PushType ==
  ASSUME NEW q \in Seq(Sample), NEW s \in Sample PROVE push(q, s) \in Seq(Sample)
<1> DEFINE longer == Append(q, s)
<1> HIDE DEF Sample
<1>1. longer \in Seq(Sample) /\ longer # <<>>
  <2>1. longer \in Seq(Sample) /\ Len(longer) = Len(q) + 1 /\ Len(q) \in Nat
    OBVIOUS
  <2> HIDE DEF longer
  <2> QED BY <2>1
<1>2. push(q, s) \in {longer, Tail(longer)}
  BY DEF push
<1> HIDE DEF longer
<1>3. Tail(longer) \in Seq(Sample)
  BY <1>1
<1> QED BY <1>1, <1>2, <1>3

LEMMA RememberedIs ==
  ASSUME NEW q \in CorridorRecord, NEW r, r = remembered(q)
  PROVE  r \in CorridorRecord /\ r.scan = q.scan /\ (r.clear = q.clear \/ r.clear = <<>>)
<1>1. r = [q EXCEPT !.close = <<>>] \/ r = [q EXCEPT !.clear = <<>>]
  BY DEF remembered
<1>2. <<>> \in Seq(Sample)
  OBVIOUS
<1> HIDE DEF Sample
<1>3. CASE r = [q EXCEPT !.close = <<>>]
  BY <1>2, <1>3 DEF CorridorRecord
<1>4. CASE r = [q EXCEPT !.clear = <<>>]
  BY <1>2, <1>4 DEF CorridorRecord
<1> QED BY <1>1, <1>3, <1>4

\* A window that was emptied counts nothing.
LEMMA EmptyCounts ==
  ASSUME NEW n PROVE Counts(<<>>, n) /\ Len(<<>>) <= Frames
<1>1. Len(<<>>) = 0 /\ Frames \in Nat
  BY WatchAssumption
<1> QED BY <1>1 DEF Counts

LEMMA CorridorNow ==
  ASSUME IInv
  PROVE  /\ Sound(Here, world, truth) /\ Here.corridor = corridor
         /\ Here \in HostRecord /\ corridor \in CorridorRecord /\ truth \in TruthRecord
         /\ mode = "resume" /\ pc # "ended" =>
              /\ \A s \in corridor.scan : truth.unseen = s.age
              /\ Len(corridor.clear) <= Frames /\ truth.clears <= Frames
              /\ Counts(corridor.clear, truth.clears)
<1>1. Sound(Here, world, truth)
  BY DEF IInv
<1>2. Here \in HostRecord /\ truth \in TruthRecord /\ CorridorSound(Here, truth)
  BY <1>1 DEF Sound, Solid
<1> QED BY <1>1, <1>2, HereIs DEF HostRecord, CorridorSound, Counts

LEMMA ScanSound == ASSUME IInv, Scan PROVE IInv' /\ Kept
<1>1. PICK m \in [newer : BOOLEAN,
                  age : {0} \cup {ScanLimit : f \in {world.fault} \cap {"late"}},
                  after : BOOLEAN, value : Clearance] :
        /\ watches
        /\ Becomes([Here EXCEPT !.corridor = remembered(observe_scan(@, m))])
        /\ truth' = IF ~m.newer THEN truth
                    ELSE [truth EXCEPT
                            !.unseen = m.age,
                            !.clears = IF m.value # "clear" \/ ~m.after \/ m.age # 0 THEN 0
                                       ELSE IF @ < Frames THEN @ + 1 ELSE @]
        /\ UNCHANGED <<mode, world>>
  BY DEF Scan
<1> DEFINE q == observe_scan(corridor, m)
           n == remembered(q)
           r == [Here EXCEPT !.corridor = n]
           u == truth'
           s == [age |-> m.age, after |-> m.after]
<1>2. /\ Sound(Here, world, truth) /\ Here.corridor = corridor
      /\ Here \in HostRecord /\ corridor \in CorridorRecord /\ truth \in TruthRecord
  BY CorridorNow
<1>3. /\ \A x \in corridor.scan : truth.unseen = x.age
      /\ Len(corridor.clear) <= Frames /\ truth.clears <= Frames
      /\ Counts(corridor.clear, truth.clears)
  BY <1>1, CorridorNow DEF watches
<1>4. Becomes(r) /\ mode' = mode /\ world' = world /\ truth' = u
  BY <1>1, <1>2 DEF HostRecord
<1>5. /\ m.newer \in BOOLEAN /\ m.age \in {0, ScanLimit} /\ m.after \in BOOLEAN
      /\ m.value \in Clearance
  BY <1>1
<1>6. ScanLimit \in Nat \ {0} /\ Frames \in Nat \ {0} /\ truth.clears \in Nat
  BY <1>2, WatchAssumption DEF TruthRecord
<1>7. /\ u \in TruthRecord /\ u.gap = truth.gap /\ u.clears <= Frames
      /\ ~m.newer => u = truth
      /\ m.newer => /\ u.unseen = m.age
                    /\ u.clears = IF m.value # "clear" \/ ~m.after \/ m.age # 0 THEN 0
                                  ELSE IF truth.clears < Frames THEN truth.clears + 1
                                  ELSE truth.clears
  <2>1. CASE ~m.newer
    BY <1>1, <1>2, <1>3, <2>1
  <2>2. CASE m.newer
    <3> DEFINE clears == IF m.value # "clear" \/ ~m.after \/ m.age # 0 THEN 0
                         ELSE IF truth.clears < Frames THEN truth.clears + 1
                         ELSE truth.clears
    <3>1. clears \in Nat /\ clears <= Frames
      BY <1>3, <1>6
    <3>2. u = [truth EXCEPT !.unseen = m.age, !.clears = clears]
      BY <1>1, <1>2, <2>2 DEF TruthRecord
    <3>3. m.age \in Nat
      BY <1>5, <1>6
    <3> HIDE DEF clears, u
    <3>4. /\ u \in TruthRecord /\ u.gap = truth.gap /\ u.clears = clears
          /\ u.unseen = m.age
      BY <1>2, <3>1, <3>2, <3>3 DEF TruthRecord
    <3> QED BY <2>2, <3>1, <3>4 DEF clears
  <2> QED BY <1>5, <2>1, <2>2
<1> HIDE DEF u, r, n
<1>8. s \in Sample /\ (Good(s) => m.after /\ m.age = 0)
  BY <1>5, <1>6 DEF Sample, Good
<1>9. /\ q \in CorridorRecord /\ \A x \in q.scan : u.unseen = x.age
      /\ Len(q.clear) <= Frames /\ Counts(q.clear, u.clears)
  <2>1. CASE ~m.newer
    BY <1>2, <1>3, <1>7, <2>1 DEF observe_scan
  <2>2. CASE m.newer
    <3> DEFINE clear == IF m.value = "clear" THEN push(corridor.clear, s) ELSE <<>>
               close == IF m.value = "close" THEN push(corridor.close, s) ELSE <<>>
               look == [age |-> m.age, after |-> m.after, value |-> m.value]
    <3>1. q = [corridor EXCEPT !.scan = {look}, !.clear = clear, !.close = close]
      BY <1>2, <2>2 DEF observe_scan, take_scan, CorridorRecord
    <3>2. corridor.clear \in Seq(Sample) /\ corridor.close \in Seq(Sample)
      BY <1>2 DEF CorridorRecord
    <3>3. <<>> \in Seq(Sample)
      OBVIOUS
    <3>4. look \in [age : Nat, after : BOOLEAN, value : Clearance] /\ look.age = m.age
      BY <1>5, <1>6
    <3> HIDE DEF s, q
    <3>5. clear \in Seq(Sample) /\ close \in Seq(Sample)
      BY <1>8, <3>2, <3>3, PushType
    <3>6. Len(clear) <= Frames /\ Counts(clear, u.clears)
      <4>1. CASE m.value # "clear"
        BY <4>1, EmptyCounts
      <4>2. CASE m.value = "clear"
        <5>1. Good(s) => u.clears = IF truth.clears < Frames THEN truth.clears + 1
                                    ELSE truth.clears
          BY <1>7, <1>8, <2>2, <4>2
        <5>2. clear = push(corridor.clear, s)
          BY <4>2
        <5> HIDE DEF clear
        <5>3. Len(clear) <= Frames
          BY <1>3, <1>8, <3>2, <5>2, PushIs
        <5>4. Counts(clear, u.clears)
          BY <1>3, <1>6, <1>8, <3>2, <5>1, <5>2, PushCounts
        <5> QED BY <5>3, <5>4
      <4> QED BY <4>1, <4>2
    <3> HIDE DEF clear, close, look, Sample
    <3>7. q \in CorridorRecord /\ q.scan = {look} /\ q.clear = clear
      BY <1>2, <3>1, <3>4, <3>5 DEF CorridorRecord
    <3> QED BY <1>7, <2>2, <3>4, <3>6, <3>7
  <2> QED BY <1>5, <2>1, <2>2
<1> HIDE DEF q
<1>10. n \in CorridorRecord /\ n.scan = q.scan /\ (n.clear = q.clear \/ n.clear = <<>>)
  BY <1>9, RememberedIs DEF n
<1>11. r.corridor = n /\ r = [Here EXCEPT !.corridor = n]
  BY <1>2 DEF r, HostRecord
<1>12. Len(n.clear) <= Frames /\ Counts(n.clear, u.clears)
  BY <1>9, <1>10, EmptyCounts
<1>13. CorridorSound(r, u)
  BY <1>7, <1>9, <1>10, <1>11, <1>12 DEF CorridorSound, Counts
<1>14. Sound(r, world, u) /\ Keeps(r, Here)
  BY <1>2, <1>7, <1>10, <1>11, <1>13, LookingSound
<1>15. mode \in Mode
  BY DEF IInv
<1>16. IInv' /\ gate' = r.gate /\ owner' = r.owner
  BY <1>4, <1>14, <1>15, Becoming
<1> QED BY <1>14, <1>16, HereIs DEF Keeps, Kept

LEMMA CostmapSound == ASSUME IInv, Costmap PROVE IInv' /\ Kept
<1>1. PICK m \in [newer : {TRUE}, age : {0}, after : BOOLEAN, value : Occupancy] :
        Callback([Here EXCEPT !.corridor = observe_costmap(@, m)]) /\ UNCHANGED world
  BY DEF Costmap
<1> DEFINE look == [age |-> m.age, after |-> m.after, value |-> m.value]
           n == [corridor EXCEPT !.costmap = {look}]
           r == [Here EXCEPT !.corridor = n]
<1>2. /\ Sound(Here, world, truth) /\ Here.corridor = corridor
      /\ Here \in HostRecord /\ corridor \in CorridorRecord /\ truth \in TruthRecord
  BY CorridorNow
<1>3. observe_costmap(corridor, m) = n
  BY <1>1 DEF observe_costmap
<1>4. Callback(r) /\ world' = world
  BY <1>1, <1>2, <1>3 DEF HostRecord
<1>5. look \in [age : Nat, after : BOOLEAN, value : Occupancy]
  BY <1>1
<1> HIDE DEF look, Sample
<1>6. n \in CorridorRecord /\ n.scan = corridor.scan /\ n.clear = corridor.clear
  BY <1>2, <1>5 DEF CorridorRecord
<1> HIDE DEF n
<1>7. r.corridor = n /\ r.pc = Here.pc /\ r = [Here EXCEPT !.corridor = n]
  BY <1>2 DEF HostRecord
<1> HIDE DEF r
<1>8. CorridorSound(Here, truth)
  BY <1>2 DEF Sound
<1>9. CorridorSound(r, truth)
  BY <1>2, <1>6, <1>7, <1>8 DEF CorridorSound
<1>10. Sound(r, world, truth) /\ Keeps(r, Here)
  BY <1>2, <1>6, <1>7, <1>9, LookingSound
<1> QED BY <1>4, <1>10, CallbackBecomes

\* A window as it is after a tick.
Aged(q) == [i \in 1..Len(q) |-> [q[i] EXCEPT !.age = older(@, ScanLimit)]]

LEMMA OlderIs ==
  ASSUME NEW a \in Nat, NEW limit \in Nat
  PROVE  /\ older(a, limit) \in Nat
         /\ older(a, limit) < limit => a < limit
         /\ a >= limit => older(a, limit) >= limit
BY DEF older

LEMMA AgedIs ==
  ASSUME NEW q \in Seq(Sample), NEW n
  PROVE  /\ Aged(q) \in Seq(Sample) /\ Len(Aged(q)) = Len(q)
         /\ Counts(q, n) => Counts(Aged(q), n)
<1> DEFINE s(i) == [q[i] EXCEPT !.age = older(@, ScanLimit)]
<1>1. ScanLimit \in Nat
  BY WatchAssumption
<1>2. Len(q) \in Nat /\ \A i \in 1..Len(q) : q[i] \in Sample
  OBVIOUS
<1>3. ASSUME NEW i \in 1..Len(q)
      PROVE  s(i) \in Sample /\ (Good(s(i)) => Good(q[i]))
  <2>1. q[i].age \in Nat /\ q[i] \in Sample
    BY <1>2 DEF Sample
  <2>2. older(q[i].age, ScanLimit) \in Nat
        /\ (older(q[i].age, ScanLimit) < ScanLimit => q[i].age < ScanLimit)
    BY <1>1, <2>1, OlderIs
  <2>3. s(i).age = older(q[i].age, ScanLimit) /\ s(i).after = q[i].after
    BY <2>1 DEF Sample
  <2>4. s(i) \in Sample
    BY <2>1, <2>2 DEF Sample
  <2> QED BY <2>2, <2>3, <2>4 DEF Good
<1>4. Aged(q) = [i \in 1..Len(q) |-> s(i)]
  BY DEF Aged
<1> HIDE DEF s
<1>5. Aged(q) \in [1..Len(q) -> Sample]
  BY <1>3, <1>4
<1>6. Aged(q) \in Seq(Sample) /\ Len(Aged(q)) = Len(q)
  <2> HIDE DEF Sample
  <2> QED BY <1>2, <1>5
<1>7. \A i \in 1..Len(q) : Aged(q)[i] = s(i)
  BY <1>4
<1>8. ASSUME Counts(q, n), NEW i \in 1..Len(q),
             \A j \in i..Len(q) : Good(Aged(q)[j])
      PROVE  Len(q) - i < n
  <2>1. ASSUME NEW j \in i..Len(q) PROVE Good(q[j])
    <3>1. j \in 1..Len(q)
      BY <1>2
    <3> QED BY <1>3, <1>7, <1>8, <3>1
  <2> QED BY <1>8, <2>1 DEF Counts
<1>9. Counts(q, n) => Counts(Aged(q), n)
  BY <1>6, <1>8 DEF Counts
<1> QED BY <1>6, <1>9

LEMMA AgedCorridor ==
  ASSUME NEW q \in CorridorRecord, NEW r, r = aged_obstacle(q)
  PROVE  /\ r \in CorridorRecord /\ r.clear = Aged(q.clear)
         /\ \A x \in r.scan : \E s \in q.scan : x.age = older(s.age, ScanLimit)
<1> DEFINE scan == {[s EXCEPT !.age = older(@, ScanLimit)] : s \in q.scan}
           costmap == {[c EXCEPT !.age = older(@, CostmapLimit)] : c \in q.costmap}
<1>1. r = [scan |-> scan, costmap |-> costmap, close |-> Aged(q.close),
           clear |-> Aged(q.clear)]
  BY DEF aged_obstacle, Aged
<1>2. ScanLimit \in Nat /\ CostmapLimit \in Nat
  BY WatchAssumption
<1>3. /\ q.scan \in SUBSET [age : Nat, after : BOOLEAN, value : Clearance]
      /\ q.costmap \in SUBSET [age : Nat, after : BOOLEAN, value : Occupancy]
      /\ q.close \in Seq(Sample) /\ q.clear \in Seq(Sample)
  BY DEF CorridorRecord
<1>4. ASSUME NEW x \in scan
      PROVE  /\ x \in [age : Nat, after : BOOLEAN, value : Clearance]
             /\ \E s \in q.scan : x.age = older(s.age, ScanLimit)
  <2>1. PICK s \in q.scan : x = [s EXCEPT !.age = older(@, ScanLimit)]
    OBVIOUS
  <2>2. s \in [age : Nat, after : BOOLEAN, value : Clearance]
    BY <1>3
  <2>3. older(s.age, ScanLimit) \in Nat
    BY <1>2, <2>2, OlderIs
  <2> QED BY <2>1, <2>2, <2>3
<1>5. ASSUME NEW x \in costmap
      PROVE  x \in [age : Nat, after : BOOLEAN, value : Occupancy]
  <2>1. PICK s \in q.costmap : x = [s EXCEPT !.age = older(@, CostmapLimit)]
    OBVIOUS
  <2>2. s \in [age : Nat, after : BOOLEAN, value : Occupancy]
    BY <1>3
  <2>3. older(s.age, CostmapLimit) \in Nat
    BY <1>2, <2>2, OlderIs
  <2> QED BY <2>1, <2>2, <2>3
<1>6. Aged(q.close) \in Seq(Sample) /\ Aged(q.clear) \in Seq(Sample)
  BY <1>3, AgedIs
<1> HIDE DEF scan, costmap, Sample
<1>7. r \in CorridorRecord /\ r.scan = scan /\ r.clear = Aged(q.clear)
  BY <1>1, <1>4, <1>5, <1>6 DEF CorridorRecord
<1> QED BY <1>4, <1>7

\* A tick: what is lost stays lost, and what is lost now is known.
LEMMA AgedRuntime ==
  ASSUME NEW q \in RuntimeRecord, NEW streams, NEW r, r = aged_runtime(q, streams)
  PROVE  /\ r \in RuntimeRecord /\ (stale(q) # {} => stale(r) # {})
<1> DEFINE age == [s \in Stream |-> IF s \in streams THEN older(q.age[s], Budget)
                                    ELSE q.age[s]]
<1>1. r = [q EXCEPT !.age = age]
  BY DEF aged_runtime, RuntimeRecord
<1>2. Budget \in Nat /\ \A s \in Stream : q.age[s] \in Nat
  BY WatchAssumption DEF RuntimeRecord
<1>3. ASSUME NEW s \in Stream
      PROVE  age[s] \in Nat /\ (q.age[s] >= Budget => age[s] >= Budget)
  BY <1>2, OlderIs
<1>4. age \in [Stream -> Nat]
  BY <1>3
<1> HIDE DEF age
<1>5. /\ r \in RuntimeRecord /\ r.age = age /\ r.active = q.active /\ r.lost = q.lost
  BY <1>1, <1>4 DEF RuntimeRecord
<1>6. \A s \in Stream : expired(q, s) => expired(r, s)
  BY <1>3, <1>5 DEF expired
<1>7. "clock" \in Stream /\ "odometry" \in Stream
  BY DEF Stream
<1> QED BY <1>5, <1>6, <1>7 DEF stale

LEMMA ExpiredIsStale ==
  ASSUME NEW q, NEW s \in Stream, expired(q, s) PROVE stale(q) # {}
BY DEF stale, Stream

LEMMA TickSound == ASSUME IInv, Tick PROVE IInv' /\ Kept
<1> DEFINE n == IF silent THEN aged_runtime(runtime, {world.fault}) ELSE runtime
           q == IF watches THEN aged_obstacle(corridor) ELSE corridor
           r == [Here EXCEPT !.runtime = n, !.corridor = q]
           u == truth'
<1>1. /\ pc # "ended" /\ runtime' = n /\ corridor' = q
      /\ truth' = [truth EXCEPT
           !.gap = @ \/ \E s \in Stream : expired(n, s),
           !.unseen = IF watches THEN older(@, ScanLimit) ELSE @]
      /\ UNCHANGED <<mode, pc, gate, owner, closure, window, world>>
  BY DEF Tick
<1>2. /\ Sound(Here, world, truth) /\ Here.corridor = corridor
      /\ Here \in HostRecord /\ corridor \in CorridorRecord /\ truth \in TruthRecord
      /\ mode = "resume" =>
           /\ \A s \in corridor.scan : truth.unseen = s.age
           /\ Len(corridor.clear) <= Frames /\ truth.clears <= Frames
           /\ Counts(corridor.clear, truth.clears)
  BY <1>1, CorridorNow
<1>3. Becomes(r) /\ mode' = mode /\ world' = world /\ truth' = u
  <2>1. /\ r.pc = pc /\ r.gate = gate /\ r.owner = owner /\ r.closure = closure
        /\ r.runtime = n /\ r.corridor = q /\ r.window = window
    <3> HIDE DEF n, q
    <3> QED BY <1>2, HereIs DEF HostRecord
  <2> HIDE DEF n, q, r
  <2> QED BY <1>1, <2>1 DEF Becomes
<1>4. runtime \in RuntimeRecord /\ Here.runtime = runtime /\ Here.pc = pc
  BY <1>2, HereIs DEF HostRecord
<1>5. n \in RuntimeRecord /\ (stale(runtime) # {} => stale(n) # {})
  <2>1. CASE silent
    BY <1>4, <2>1, AgedRuntime
  <2>2. CASE ~silent
    BY <1>4, <2>2
  <2> QED BY <2>1, <2>2
<1> HIDE DEF n
<1>6. /\ u \in TruthRecord /\ u.clears = truth.clears
      /\ u.gap => truth.gap \/ stale(n) # {}
      /\ u.unseen = IF watches THEN older(truth.unseen, ScanLimit) ELSE truth.unseen
  <2> DEFINE gap == truth.gap \/ \E s \in Stream : expired(n, s)
             unseen == IF watches THEN older(truth.unseen, ScanLimit) ELSE truth.unseen
  <2>1. u = [truth EXCEPT !.gap = gap, !.unseen = unseen]
    BY <1>1, <1>2 DEF TruthRecord
  <2>2. gap \in BOOLEAN /\ (gap => truth.gap \/ stale(n) # {})
    BY <1>2, ExpiredIsStale DEF TruthRecord
  <2>3. unseen \in Nat
    BY <1>2, OlderIs, WatchAssumption DEF TruthRecord
  <2> HIDE DEF gap, unseen, u
  <2>4. /\ u \in TruthRecord /\ u.clears = truth.clears /\ u.gap = gap
        /\ u.unseen = unseen
    BY <1>2, <2>1, <2>2, <2>3 DEF TruthRecord
  <2> QED BY <2>2, <2>4 DEF unseen
<1> HIDE DEF u
<1>7. /\ q \in CorridorRecord
      /\ mode = "resume" =>
           /\ \A s \in q.scan : u.unseen = s.age
           /\ Len(q.clear) <= Frames /\ u.clears <= Frames
           /\ Counts(q.clear, u.clears)
  <2>1. CASE watches
    <3>1. q = aged_obstacle(corridor) /\ mode = "resume"
      BY <2>1 DEF watches
    <3> HIDE DEF q
    <3>2. /\ q \in CorridorRecord /\ q.clear = Aged(corridor.clear)
          /\ \A x \in q.scan : \E s \in corridor.scan : x.age = older(s.age, ScanLimit)
      BY <1>2, <3>1, AgedCorridor
    <3>3. corridor.clear \in Seq(Sample)
      BY <1>2 DEF CorridorRecord
    <3>4. Len(q.clear) = Len(corridor.clear) /\ Counts(q.clear, truth.clears)
      BY <1>2, <3>1, <3>2, <3>3, AgedIs
    <3> QED BY <1>2, <1>6, <2>1, <3>1, <3>2, <3>4
  <2>2. CASE ~watches
    BY <1>2, <1>6, <2>2
  <2> QED BY <2>1, <2>2
<1> HIDE DEF q
<1>8. /\ r \in HostRecord /\ r.pc = pc /\ r.gate = gate /\ r.owner = owner
      /\ r.closure = closure /\ r.runtime = n /\ r.corridor = q /\ r.window = window
  BY <1>2, <1>5, <1>7, HereIs DEF HostRecord
<1> HIDE DEF r
<1>9. /\ Placed(Here, world) /\ Numbered(Here) /\ RestSound(Here, world)
      /\ GapSound(Here, truth)
  BY <1>2 DEF Sound
<1>10. Placed(r, world) /\ Numbered(r)
  BY <1>8, <1>9, HereIs DEF Placed, Numbered, Within, Generation
<1>11. RestSound(r, world)
  BY <1>8, <1>9, HereIs DEF RestSound
<1>12. GapSound(r, u)
  BY <1>5, <1>6, <1>8, <1>9, HereIs DEF GapSound
<1>13. CorridorSound(r, u)
  BY <1>7, <1>8 DEF CorridorSound, Counts
<1>14. Sound(r, world, u) /\ Keeps(r, Here)
  BY <1>2, <1>6, <1>8, <1>10, <1>11, <1>12, <1>13, HereIs, MovedSound
<1>15. mode \in Mode
  BY DEF IInv
<1>16. IInv' /\ gate' = r.gate /\ owner' = r.owner
  BY <1>3, <1>14, <1>15, Becoming
<1> QED BY <1>14, <1>16, HereIs DEF Keeps, Kept

-----------------------------------------------------------------------------
(* The initial state *)

Startup(c) ==
  [concern |-> c, binding |-> InitialBinding, value |-> TRUE,
   record |-> [source |-> observer_of(c), observed_at |-> 0, sequence |-> 1]]

StartupFact(c) == [value |-> TRUE, record |-> Startup(c).record]

\* A gate that was told of its startup only.
Starting(g) ==
  /\ g \in Gate /\ g.phase = "active" /\ g.init # "closed"
  /\ g.binding = InitialBinding /\ g.receipt = NoReceipt
  /\ g.candidate = NoCandidate /\ g.capabilities = {}
  /\ g.last_binding_control_at = 0 /\ g.next_operation_id = 1

LEMMA StartIs == StartedAt = 0 /\ CapabilityObserver # ""
BY OwnerAssumption

LEMMA FirstRecord ==
  ASSUME NEW p, NEW s, p.source = s, p.sequence = 1, p.observed_at = 0
  PROVE  is_record_well_formed(p, s, {StartedAt})
<1>1. \A x \in {StartedAt} : x <= p.observed_at
  <2>1. 0 <= 0
    OBVIOUS
  <2> QED BY <2>1, StartIs
<1>2. p.sequence # 0
  OBVIOUS
<1> QED BY <1>1, <1>2 DEF is_record_well_formed

LEMMA NothingThere ==
  /\ NoReceipt.authority.operation_id = 0 /\ NoCandidate.binding.generation = 0
<1>1. NoReceipt.authority = NoAuthority
  BY DEF NoReceipt, new_receipt
<1>2. NoAuthority.operation_id = 0
  BY DEF NoAuthority
<1>3. NoCandidate.binding = NoBinding
  BY DEF NoCandidate, new_candidate
<1>4. NoBinding.generation = 0
  BY BindingAssumption DEF NoBinding
<1> QED BY <1>1, <1>2, <1>3, <1>4

\* A gate is ready once every startup fact holds.
Judged(g) == g.init = IF all_facts_hold(g.facts) THEN "ready" ELSE "recovery_required"

LEMMA StartupDoes ==
  ASSUME NEW g, Starting(g), NEW c \in Concern, g.facts[c] = {},
         NEW h, h = observe_startup(g, Startup(c))
  PROVE  /\ Starting(h) /\ h.facts = [g.facts EXCEPT ![c] = {StartupFact(c)}]
         /\ Judged(h)
<1> DEFINE p == [source |-> observer_of(c), observed_at |-> 0, sequence |-> 1]
           facts == [g.facts EXCEPT ![c] = {StartupFact(c)}]
           init == IF all_facts_hold(facts) THEN "ready" ELSE "recovery_required"
<1>1. observer_of(c) \in Source
  BY DEF observer_of, Source, Concern
<1>2. p \in EvidenceRecord
  <2>1. 1 \in 1..6
    OBVIOUS
  <2>2. 0 \in Time /\ 1 \in Sequence
    BY <2>1, NumbersAre
  <2> QED BY <1>1, <2>2 DEF EvidenceRecord
<1>3. /\ Startup(c).binding = InitialBinding /\ Startup(c).concern = c
      /\ Startup(c).value = TRUE /\ Startup(c).record = p
      /\ p.source = observer_of(c) /\ p.sequence = 1 /\ p.observed_at = 0
  BY DEF Startup
<1>4. accepts_startup(g, Startup(c))
  <2>1. is_record_well_formed(p, observer_of(c), {StartedAt})
    BY <1>3, FirstRecord
  <2>2. ~has_receipt(g)
    BY NothingThere DEF has_receipt, Starting
  <2> HIDE DEF p
  <2> QED BY <1>3, <2>1, <2>2 DEF accepts_startup, Starting
<1>5. h \in Gate
  <2>1. TRUE \in BOOLEAN /\ g \in Gate
    BY DEF Starting
  <2>2. observe_startup(g, Startup(c)) \in Gate
    <3>1. Startup(c) = [concern |-> c, binding |-> InitialBinding, value |-> TRUE,
                        record |-> p]
      BY DEF Startup
    <3> HIDE DEF p
    <3> QED BY <1>2, <2>1, <3>1, StartupType
  <2> QED BY <2>2
<1>6. h = [g EXCEPT !.facts = facts, !.init = init]
  BY <1>3, <1>4 DEF observe_startup, StartupFact
<1> HIDE DEF facts, init
<1>7. /\ h.facts = facts /\ h.init = init /\ h.phase = g.phase /\ h.binding = g.binding
      /\ h.receipt = g.receipt /\ h.candidate = g.candidate
      /\ h.capabilities = g.capabilities
      /\ h.last_binding_control_at = g.last_binding_control_at
      /\ h.next_operation_id = g.next_operation_id
  BY <1>6 DEF Starting, Gate
<1>8. init # "closed"
  BY DEF init
<1> QED BY <1>5, <1>7, <1>8 DEF Starting, Judged, facts, init

\* A is admitted, as the first operation of the gate.
LEMMA AdmittedGate ==
  /\ admitted_gate \in Gate /\ Grounded(admitted_gate.receipt)
  /\ admitted_gate.receipt.authority.operation_id = 1
  /\ admitted_gate.next_operation_id = 2
<1> DEFINE g0 == initial_gate
           g1 == observe_startup(g0, Startup("idle"))
           g2 == observe_startup(g1, Startup("worker"))
           g3 == observe_startup(g2, Startup("sink"))
           k == observe_execution_capabilities(g3, capability(1))
<1>1. admitted_gate = admit(k, request)
  BY DEF admitted_gate, Startup
<1>2. /\ Starting(g0) /\ \A c \in Concern : g0.facts[c] = {}
      /\ DOMAIN g0.facts = Concern
  BY InitialGateType, StartIs DEF Starting, initial_gate
<1> HIDE DEF g0
<1>3. "idle" \in Concern /\ "worker" \in Concern /\ "sink" \in Concern
  BY DEF Concern
<1>4. Starting(g1) /\ g1.facts = [g0.facts EXCEPT !["idle"] = {StartupFact("idle")}]
  BY <1>2, <1>3, StartupDoes, ZenonT(60)
<1>5. g1.facts["worker"] = {} /\ g1.facts["sink"] = {} /\ g1.facts["idle"] = {StartupFact("idle")}
      /\ DOMAIN g1.facts = Concern
  BY <1>2, <1>3, <1>4
<1> HIDE DEF g1
<1>6. Starting(g2) /\ g2.facts = [g1.facts EXCEPT !["worker"] = {StartupFact("worker")}]
  BY <1>3, <1>4, <1>5, StartupDoes, ZenonT(60)
<1>7. /\ g2.facts["sink"] = {} /\ g2.facts["worker"] = {StartupFact("worker")}
      /\ g2.facts["idle"] = {StartupFact("idle")} /\ DOMAIN g2.facts = Concern
  BY <1>3, <1>5, <1>6
<1> HIDE DEF g2
<1>8. /\ Starting(g3) /\ g3.facts = [g2.facts EXCEPT !["sink"] = {StartupFact("sink")}]
      /\ Judged(g3)
  BY <1>3, <1>6, <1>7, StartupDoes, ZenonT(60)
<1>9. \A c \in Concern : g3.facts[c] = {StartupFact(c)}
  BY <1>3, <1>7, <1>8 DEF Concern
<1>10. \A c \in Concern : StartupFact(c).value = TRUE /\ StartupFact(c).record.observed_at = 0
  BY DEF StartupFact, Startup
<1>11. g3.init = "ready"
  <2>1. all_facts_hold(g3.facts)
    BY <1>9, <1>10 DEF all_facts_hold
  <2> QED BY <1>8, <2>1 DEF Judged
<1> HIDE DEF g3
<1> DEFINE e == capability(1)
<1>12. /\ e.binding = InitialBinding /\ e.value.maximum_work_units = 1
       /\ e.value.available = TRUE /\ e.value.profile_id = requirements.profile_id
       /\ e.record = record(CapabilityObserver, 1) /\ e.valid_until = 1
       /\ e.record.observed_at = 0 /\ e.record.source = CapabilityObserver
       /\ e.record.sequence = 1
  BY DEF capability, record
<1>13. k = [g3 EXCEPT !.capabilities =
              {[binding |-> e.binding, value |-> e.value,
                record |-> e.record, valid_until |-> e.valid_until]}]
  <2> HIDE DEF e
  <2>1. ~is_candidate_evidence(g3, e)
    BY <1>8, NothingThere DEF is_candidate_evidence, has_candidate, Starting
  <2>2. accepts_capabilities(g3, e)
    <3>1. is_record_well_formed(e.record, CapabilityObserver, {StartedAt})
      BY <1>12, FirstRecord
    <3>2. e.value.maximum_work_units # 0 /\ e.record.observed_at < e.valid_until
      BY <1>12
    <3>3. g3.init # "closed" /\ g3.binding = InitialBinding /\ g3.capabilities = {}
      BY <1>8 DEF Starting
    <3> QED BY <1>12, <3>1, <3>2, <3>3, StartIs DEF accepts_capabilities
  <2> QED BY <2>1, <2>2 DEF observe_execution_capabilities, e
<1> DEFINE look == [binding |-> e.binding, value |-> e.value,
                    record |-> e.record, valid_until |-> e.valid_until]
<1>14. /\ look.value = e.value /\ look.record = e.record
       /\ look.valid_until = e.valid_until
  OBVIOUS
<1>15. k \in Gate
  <2>1. 1 \in 1..6 /\ g3 \in Gate
    BY <1>8 DEF Starting
  <2> DEFINE one == 1
  <2>2. one \in 1..6 /\ k = observe_execution_capabilities(g3, capability(one))
    OBVIOUS
  <2> HIDE DEF one, k
  <2>3. Tells(k, g3)
    BY <2>1, <2>2, CapabilityTells
  <2> QED BY <2>3 DEF Tells, Goes
<1>16. /\ k.capabilities = {look} /\ k.phase = "active" /\ k.init = "ready"
       /\ k.binding = InitialBinding /\ k.receipt = NoReceipt /\ k.facts = g3.facts
       /\ k.last_binding_control_at = 0 /\ k.next_operation_id = 1
  <2>1. k = [g3 EXCEPT !.capabilities = {look}]
    BY <1>13
  <2> HIDE DEF look, k, e
  <2> QED BY <1>8, <1>11, <2>1 DEF Starting, Gate
<1> HIDE DEF look, k, e
<1>17. /\ request.requested_at = 0 /\ request.deadline = {}
       /\ request.requirements = {requirements} /\ requirements.work_units = 1
  BY DEF request, requirements
<1>18. admits(k, request)
  <2>1. supports_execution(k, requirements, 0)
    BY <1>12, <1>14, <1>16, <1>17 DEF supports_execution
  <2>2. \A c \in Concern : not_before(0, fact_times(k.facts[c]))
    BY <1>9, <1>10, <1>16 DEF not_before, fact_times
  <2>3. ~has_receipt(k)
    BY <1>16, NothingThere DEF has_receipt
  <2> QED BY <1>16, <1>17, <2>1, <2>2, <2>3 DEF admits
<1> DEFINE zero == 0
           none == {}
           needs == {requirements}
<1>19. request = [requested_at |-> zero, deadline |-> none, requirements |-> needs]
  BY DEF request
<1>20. zero \in Time /\ none \in Optional(Time) /\ needs \in Optional(Requirements)
  BY RequestIsTyped
<1> HIDE DEF zero, none, needs
<1>21. /\ admits(k, [requested_at |-> zero, deadline |-> none, requirements |-> needs])
       /\ admitted_gate = admit(k, [requested_at |-> zero, deadline |-> none,
                                    requirements |-> needs])
  BY <1>1, <1>18, <1>19
<1>22. /\ admitted_gate \in Gate /\ Grounded(admitted_gate.receipt)
       /\ admitted_gate.receipt.authority.operation_id = k.next_operation_id
       /\ admitted_gate.next_operation_id = following_operation_id(k.next_operation_id)
  BY <1>15, <1>20, <1>21, AdmitDoes
<1>23. following_operation_id(1) = 2
  BY NumbersAre DEF following_operation_id
<1> QED BY <1>16, <1>22, <1>23

LEMMA InitSound == Init => IInv
<1> SUFFICES ASSUME Init PROVE IInv
  OBVIOUS
<1> DEFINE c == new_closure(1)
           o == new_owner
<1>1. /\ <<mode, world.fault>> \in Cases /\ pc \in {"baseline", "opening"}
      /\ gate = admitted_gate /\ owner = o /\ closure = c
      /\ runtime = new_runtime_watch /\ corridor = new_obstacle_watch
      /\ window = new_window /\ truth = new_truth
      /\ world.work = new_work /\ world.drive = [generation |-> 0, applied |-> 0]
      /\ world.robot = "still"
      /\ world = [work |-> world.work, drive |-> world.drive, robot |-> world.robot,
                  fault |-> world.fault]
  BY DEF Init
<1>2. mode \in Mode /\ world.fault \in Fault
  <2>1. Cases \subseteq Mode \X Fault
    BY OwnerAssumption
  <2>2. <<mode, world.fault>> \in Mode \X Fault
    BY <1>1, <2>1
  <2> QED BY <2>2
<1>3. world \in WorldRecord /\ world.drive.generation = 0 /\ world.drive.applied = 0
  <2>1. new_work \in Work
    BY DEF new_work, Work
  <2>2. /\ world.drive \in [generation : 0..2, applied : 0..2]
        /\ world.drive.generation = 0 /\ world.drive.applied = 0
    BY <1>1
  <2>3. world.work \in Work /\ world.robot \in {"still", "moving"}
    BY <1>1, <2>1
  <2> QED BY <1>1, <1>2, <2>2, <2>3 DEF WorldRecord, Work
<1>4. /\ o \in OwnerRecord /\ o.sends = 0 /\ o.refused = FALSE
      /\ o.goal.error = FALSE /\ o.native_sequence = 0 /\ o.output_sequence = 0
      /\ o.settlement_sequence = 0
  <2>1. new_goal \in Goal /\ new_goal.error = FALSE
    BY DEF new_goal, Goal
  <2>2. "" \in Outcome
    BY DEF Outcome
  <2>3. o = [goal |-> new_goal, sends |-> 0, native_sequence |-> 0,
             output_sequence |-> 0, settlement_sequence |-> 0, refused |-> FALSE,
             outcome |-> ""]
    BY DEF new_owner
  <2> HIDE DEF o
  <2>4. /\ o.goal = new_goal /\ o.sends = 0 /\ o.native_sequence = 0
        /\ o.output_sequence = 0 /\ o.settlement_sequence = 0
    BY <2>3
  <2>5. o.refused = FALSE
    BY <2>3
  <2>6. o \in OwnerRecord
    <3> DEFINE zero == 0
               no == FALSE
               nothing == ""
    <3>1. zero \in 0..2 /\ zero \in Nat
      OBVIOUS
    <3>2. no \in BOOLEAN /\ nothing \in Outcome
      BY <2>2
    <3>3. o = [goal |-> new_goal, sends |-> zero, native_sequence |-> zero,
               output_sequence |-> zero, settlement_sequence |-> zero, refused |-> no,
               outcome |-> nothing]
      BY <2>3
    <3> HIDE DEF zero, no, nothing
    <3> QED BY <2>1, <3>1, <3>2, <3>3 DEF OwnerRecord
  <2> QED BY <2>1, <2>4, <2>5, <2>6
<1>5. /\ c \in ClosureRecord /\ c.facts.generation = 1 /\ c.facts.drive = "open"
      /\ ~c.facts.bt_closed
      /\ \A x \in Child : c.facts.link[x] = {} /\ c.facts.ack[x] = {}
  <2> DEFINE one == 1
  <2>1. one \in 1..2 /\ c = new_closure(one)
    OBVIOUS
  <2> HIDE DEF one, c
  <2>2. /\ c \in ClosureRecord /\ c.facts.generation = one /\ c.facts.drive = "open"
        /\ ~c.facts.bt_closed
        /\ \A x \in Child : c.facts.link[x] = {} /\ c.facts.ack[x] = {}
    BY <2>1, NewClosureType
  <2> QED BY <2>2 DEF one
<1> HIDE DEF c, o
<1>6. /\ Here.pc \in {"baseline", "opening"} /\ Here.gate = admitted_gate
      /\ Here.owner = o /\ Here.closure = c /\ Here.runtime = new_runtime_watch
      /\ Here.corridor = new_obstacle_watch /\ Here.window = new_window
  BY <1>1, HereIs
<1>7. Here \in HostRecord
  <2>1. pc \in Place
    BY <1>1 DEF Place
  <2> QED BY <1>1, <1>4, <1>5, <2>1, NewIsTyped, AdmittedGate DEF Here, HostRecord
<1>8. Generation(Here) = 1
  BY <1>5, <1>6 DEF Generation
<1>9. GateSound(Here)
  BY <1>6, <1>8, AdmittedGate DEF GateSound
<1>10. RefusedUnsent(Here) /\ Duty(Here)
  BY <1>4, <1>6, AdmittedGate DEF RefusedUnsent, Duty, Current
<1>11. DriveSound(Here, world)
  BY <1>3, <1>5, <1>6 DEF DriveSound
<1>12. FactsSound(Here, world)
  BY <1>5, <1>6 DEF FactsSound
<1>13. Placed(Here, world)
  BY <1>3, <1>4, <1>6, <1>8 DEF Placed
<1>14. Numbered(Here)
  BY <1>4, <1>6 DEF Numbered
<1>15. RestSound(Here, world)
  BY <1>6 DEF RestSound
<1>16. /\ truth \in TruthRecord /\ truth.gap = FALSE /\ truth.clears = 0
  BY <1>1, WatchAssumption DEF new_truth, TruthRecord
<1>17. GapSound(Here, truth)
  BY <1>16 DEF GapSound
<1>18. CorridorSound(Here, truth)
  <2>1. new_obstacle_watch.scan = {} /\ new_obstacle_watch.clear = <<>>
    BY DEF new_obstacle_watch
  <2>2. Len(<<>>) = 0 /\ Frames \in Nat
    BY WatchAssumption
  <2> QED BY <1>6, <1>16, <2>1, <2>2 DEF CorridorSound
<1> QED BY <1>2, <1>3, <1>7, <1>9, <1>10, <1>11, <1>12, <1>13, <1>14, <1>15, <1>16,
           <1>17, <1>18 DEF IInv, Sound, Solid

-----------------------------------------------------------------------------
(* The theorems *)

\* Every step keeps the invariant, and does no more than one of four things.
LEMMA NextSound ==
  ASSUME IInv, [Next]_vars PROVE IInv' /\ (Kept \/ DispatchAdds \/ Settles \/ Delivers)
<1>1. CASE Owner
  <2>1. CASE Baseline             BY <2>1, BaselineSound
  <2>2. CASE OpenAndRun           BY <2>2, OpenAndRunSound
  <2>3. CASE Poll                 BY <2>3, PollSound
  <2>4. CASE AwaitCancelled       BY <2>4, AwaitCancelledSound
  <2>5. CASE LostWaitEnds         BY <2>5, LostWaitEndsSound
  <2>6. CASE WorkersAreClosed     BY <2>6, WorkersAreClosedSound
  <2>7. CASE CloseBt              BY <2>7, CloseBtSound
  <2>8. CASE DriveEnds            BY <2>8, DriveEndsSound
  <2>9. CASE QuietEnds            BY <2>9, QuietEndsSound
  <2>10. CASE CorridorClear       BY <2>10, CorridorClearSound
  <2>11. CASE PrepareNext         BY <2>11, PrepareNextSound
  <2>12. CASE Settle              BY <2>12, SettleSound
  <2>13. CASE Sealed              BY <2>13, SealedSound
  <2>14. CASE GiveUp              BY <2>14, GiveUpSound
  <2> QED BY <1>1, <2>1, <2>2, <2>3, <2>4, <2>5, <2>6, <2>7, <2>8, <2>9, <2>10,
             <2>11, <2>12, <2>13, <2>14 DEF Owner
<1>2. CASE Callbacks
  <2>1. CASE GoalResponse         BY <2>1, GoalResponseSound
  <2>2. CASE Feedback             BY <2>2, FeedbackSound
  <2>3. CASE Result               BY <2>3, ResultSound
  <2>4. CASE CancelResponse       BY <2>4, CancelResponseSound
  <2>5. CASE ChildFact            BY <2>5, ChildFactSound
  <2>6. CASE ForeignFact          BY <2>6, ForeignFactSound
  <2>7. CASE DriveAck             BY <2>7, DriveAckSound
  <2>8. CASE CloseResponse        BY <2>8, CloseResponseSound
  <2>9. CASE Motion               BY <2>9, MotionSound
  <2>10. CASE StreamMessage       BY <2>10, StreamMessageSound
  <2>11. CASE Scan                BY <2>11, ScanSound
  <2>12. CASE Costmap             BY <2>12, CostmapSound
  <2> QED BY <1>2, <2>1, <2>2, <2>3, <2>4, <2>5, <2>6, <2>7, <2>8, <2>9, <2>10,
             <2>11, <2>12 DEF Callbacks
<1>3. CASE World
  <2>1. CASE ServerAnswers \/ WorkerStarts \/ WorkerEnds \/ GoalEnds
    BY <2>1, WorkHappens
  <2>2. CASE RobotMoves           BY <2>2, RobotMovesSound
  <2>3. CASE RobotRests           BY <2>3, RobotRestsSound
  <2>4. CASE DriveSeals           BY <2>4, DriveSealsSound
  <2>5. CASE Tick                 BY <2>5, TickSound
  <2> QED BY <1>3, <2>1, <2>2, <2>3, <2>4, <2>5 DEF World
<1>4. CASE UNCHANGED vars
  <2>1. /\ mode' = mode /\ gate' = gate /\ owner' = owner /\ world' = world
        /\ truth' = truth /\ Here' = Here
    BY <1>4 DEF vars, Here
  <2>2. IInv'
    BY <2>1 DEF IInv, Sound, CorridorSound
  <2> QED BY <2>1, <2>2 DEF Kept, Withholds
<1> QED BY <1>1, <1>2, <1>3, <1>4 DEF Next

\* The inductive invariant holds: what the owner knows of its goal, of the
\* drive, of the workers and of the corridor is so, wherever it waits.
THEOREM InvariantHolds == Spec => []IInv
<1>1. IInv /\ [Next]_vars => IInv'
  BY NextSound
<1> QED BY InitSound, <1>1, PTL DEF Spec

\* An accepted goal whose authority is revoked was told to stop, whichever came
\* first: the revocation or the acceptance (goal_response_callback).
THEOREM StopsAlwaysReachTheGoal == Spec => []StopsReachTheGoal
<1>1. IInv => StopsReachTheGoal
  <2> SUFFICES ASSUME IInv, is_current, owner.goal.handle, ~owner.goal.error,
                      gate.receipt.disposition = "revoked",
                      gate.receipt.outcome = "pending"
               PROVE  owner.goal.stop_sent
    BY DEF StopsReachTheGoal
  <2>1. Duty(Here) /\ GateSound(Here) /\ Here.gate = gate /\ Here.owner = owner
    BY HereIs DEF IInv, Sound, Solid
  <2>2. Current(Here)
    BY <2>1 DEF Current, is_current
  <2>3. is_revoked(gate.receipt)
    BY <2>1 DEF GateSound, Grounded
  <2> QED BY <2>1, <2>2, <2>3 DEF Duty, Asked, Relayed
<1> QED BY InvariantHolds, <1>1, PTL

\* The acknowledgement of the task before, which its topic retains, never
\* contradicts the closure (observe_drive).
THEOREM RetainedIsAlwaysHarmless == Spec => []RetainedIsHarmless
<1>1. IInv => RetainedIsHarmless
  BY HereIs DEF IInv, Sound, Solid, DriveSound, RetainedIsHarmless
<1> QED BY InvariantHolds, <1>1, PTL

\* A is settled, and B admitted, only when its workers are over and its tree
\* joined, the drive is sealed for it and the robot rests.
THEOREM SettlementIsAlwaysEarned == Spec => SettlementIsEarned
<1>1. IInv /\ [Next]_vars =>
        [gate'.receipt.authority.operation_id # gate.receipt.authority.operation_id
           => /\ \A c \in Child : world.work.workers[c] # "running"
              /\ world.work.joined /\ world.robot = "still"
              /\ world.drive.applied = 1]_vars
  BY NextSound DEF Kept, DispatchAdds, Settles, Delivers
<1> QED BY InvariantHolds, <1>1, PTL DEF Spec, SettlementIsEarned

\* A result is delivered only if the clock and the odometry never stood still
\* for the budget since the goal was sent.
THEOREM OutputIsAlwaysObserved == Spec => OutputIsObserved
<1>1. IInv /\ [Next]_vars =>
        [gate'.receipt.output = "accepted" /\ gate.receipt.output = "pending"
           => ~truth.gap]_vars
  BY NextSound DEF Kept, DispatchAdds, Settles, Delivers, Withholds
<1> QED BY InvariantHolds, <1>1, PTL DEF Spec, OutputIsObserved

\* After an obstacle stopped A, B is sent only on as many clear scans in a row
\* as the window holds, the last one fresh at that moment.
THEOREM ResumeIsAlwaysClear == Spec => ResumeIsClear
<1>1. IInv /\ [Next]_vars =>
        [mode = "resume" /\ owner.sends = 1 /\ owner'.sends = 2
           => truth.clears = Frames /\ truth.unseen < ScanLimit]_vars
  BY NextSound DEF Kept, DispatchAdds, Settles, Delivers
<1> QED BY InvariantHolds, <1>1, PTL DEF Spec, ResumeIsClear
=================================================================================
