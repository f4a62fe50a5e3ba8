------------------------- MODULE ComputeHost_proofs -------------------------
(***************************************************************************)
(* The host of a compute worker, proved for every clock, every deadline, any *)
(* number of frames and all system faults: the gate refuses no report, a     *)
(* settled operation is closed, and the host implements the abstract domain. *)
(***************************************************************************)
EXTENDS ComputeHost, GateProcess_proofs

ShutdownStatus == {"open", "closing", "closed", "unresolved"}

Flags ==
  [has_process : BOOLEAN, result : BOOLEAN, initialized : BOOLEAN,
   stop_reported : BOOLEAN, outcome_reported : BOOLEAN,
   evidence_error : BOOLEAN, shutdown : ShutdownStatus]

HostRecord ==
  [gate : Gate, process : ProcessRecord, child : ChildRecord, host : Flags,
   sequence : Nat]

-----------------------------------------------------------------------------
(* The invariant of a call, at its time t *)

\* No record the gate holds has a larger number than n; the times of those that
\* are not of the operation.
Held(g, n, t) ==
  /\ \A c \in Concern : \A f \in g.facts[c] :
       f.record.sequence <= n /\ f.record.observed_at <= t
  /\ \A f \in g.capabilities \cup g.last_native :
       f.record.sequence <= n /\ f.record.observed_at <= t
  /\ \A k \in EvidenceKind : \A p \in g.receipt.evidence[k] : p.sequence <= n
  /\ \A x \in g.receipt.stop_requested_at : x <= t

\* The disposition is the one the rest of the receipt calls for.
Fresh(r) == r.disposition = authority_disposition(r)

\* A host prepares a candidate only within a call.
Phases(g) ==
  /\ g.init = "closed" <=> g.phase = "closed"
  /\ g.phase # "preparing" /\ ~has_candidate(g)

\* The child, as the owner and as the kernel see it.
Lived(p, c) ==
  /\ p.launched <=> c.status # "absent"
  /\ c.status = "absent" => c = no_child /\ p.exit_status = {}
  /\ c.exit = {} <=> c.status \in {"absent", "alive"}
  /\ p.is_owned => c.status \in {"alive", "exited", "stolen"}
  /\ c.status \in {"alive", "exited"} => p.is_owned
  /\ p.exit_status # {} => c.status = "reaped" /\ p.exit_status = c.exit
  /\ p.event_eof => c.pipe = <<>> /\ c.status \notin {"absent", "alive"}
  /\ p.channels_closed => p.event_eof /\ p.exit_status # {}
  /\ c.status = "alive" => Paced(c)

Base(h, t) ==
  /\ h \in HostRecord /\ t \in 0..LastTime /\ h.sequence >= 1
  /\ GateOK(h.gate, t) /\ Held(h.gate, h.sequence, t)
  /\ Fresh(h.gate.receipt) /\ Phases(h.gate)
  /\ Lived(h.process, h.child)
  /\ h.gate.init = "ready" \/ has_receipt(h.gate) => h.host.initialized

\* The gate took one more record, of this kind, with the number n + 1.
Reported(q, g, t, n, kind) ==
  /\ OnlyReported(q, g, t) /\ Fresh(q.receipt)
  /\ q.facts = g.facts /\ q.capabilities = g.capabilities
  /\ \A f \in q.last_native :
       \/ f \in g.last_native
       \/ f.record.sequence <= n + 1 /\ f.record.observed_at <= t
  /\ \A k \in EvidenceKind \ {kind} : q.receipt.evidence[k] = g.receipt.evidence[k]
  /\ q.receipt.evidence[kind] # {}
  /\ \A p \in q.receipt.evidence[kind] :
       p \in g.receipt.evidence[kind] \/ p.sequence <= n + 1

\* The host has told the gate so, and did nothing else.
Told(r, h, t, kind) ==
  /\ r.sequence = h.sequence + 1 /\ r.process = h.process /\ r.child = h.child
  /\ r.host = h.host
  /\ Reported(r.gate, h.gate, t, h.sequence, kind)

-----------------------------------------------------------------------------
(* Parts *)

LEMMA TimeIs ==
  ASSUME NEW t \in 0..LastTime
  PROVE  /\ t \in Time /\ t \in Nat /\ t + Validity \in Time /\ t < t + Validity
         /\ Time \subseteq Nat /\ LastTime \in Nat
<1>1. 0..LastTime + Validity \subseteq Time /\ Validity \in Nat \ {0} /\ LastTime \in Nat
  BY ComputeHostAssumption
<1> QED BY <1>1, NumberAssumption

\* The record of a report, and that it comes after all the gate holds.
LEMMA RecordOf ==
  ASSUME NEW h \in HostRecord, NEW t \in 0..LastTime, h.sequence <= 10,
         NEW source \in Source, NEW p, p = record(h, source, t)
  PROVE  /\ p \in EvidenceRecord /\ p.source = source /\ p.observed_at = t
         /\ p.sequence = h.sequence + 1 /\ p.sequence # 0 /\ p.observed_at <= t
<1>1. h.sequence \in Nat /\ h.sequence + 1 \in 1..11 /\ t \in Time /\ t \in Nat
  BY TimeIs DEF HostRecord
<1>2. h.sequence + 1 \in Sequence
  BY <1>1, ComputeHostAssumption
<1> QED BY <1>1, <1>2 DEF record, EvidenceRecord

LEMMA RecordIs ==
  ASSUME NEW h, NEW t, Base(h, t), h.sequence <= 10, NEW source \in Source,
         NEW p, p = record(h, source, t)
  PROVE  /\ p \in EvidenceRecord /\ p.source = source /\ p.observed_at = t
         /\ p.sequence = h.sequence + 1 /\ p.sequence # 0 /\ p.observed_at <= t
<1>1. h \in HostRecord /\ t \in 0..LastTime
  BY DEF Base
<1> QED BY <1>1, RecordOf

LEMMA BaseHas ==
  ASSUME NEW h, NEW t, Base(h, t)
  PROVE  /\ t \in Time /\ t \in Nat /\ h.gate \in Gate /\ h.gate.receipt \in Receipt
         /\ GateOK(h.gate, t) /\ Timed(h.gate.receipt, t) /\ Reliable(h.gate.receipt)
         /\ h.process \in ProcessRecord /\ h.child \in ChildRecord
         /\ h.host \in Flags /\ h.sequence \in Nat
  BY TimeIs DEF Base, HostRecord, GateOK, Gate

\* One more record, and what the gate holds is still numbered and timed.
LEMMA ReportedHeld ==
  ASSUME NEW g, NEW q, NEW t \in Nat, NEW n \in Nat, NEW kind \in EvidenceKind,
         g \in Gate, Sequence \subseteq Nat, Held(g, n, t), Reported(q, g, t, n, kind)
  PROVE  Held(q, n + 1, t)
<1>1. g.receipt \in Receipt /\ g.facts \in [Concern -> Optional(Fact)]
      /\ g.capabilities \in Optional(CapabilityFact)
      /\ g.last_native \in Optional([kind : NativeKind, record : EvidenceRecord])
  BY DEF Gate
<1>2. ASSUME NEW c \in Concern, NEW f \in q.facts[c]
      PROVE  f.record.sequence <= n + 1 /\ f.record.observed_at <= t
  <2>1. f \in g.facts[c] /\ f \in Fact
    BY <1>1, <1>2 DEF Reported, Optional
  <2>2. f.record.sequence \in Nat /\ f.record.sequence <= n /\ f.record.observed_at <= t
    BY <2>1 DEF Held, Fact, EvidenceRecord
  <2> QED BY <2>2
<1>3. ASSUME NEW f \in q.capabilities
      PROVE  f.record.sequence <= n + 1 /\ f.record.observed_at <= t
  <2>1. f \in g.capabilities /\ f \in CapabilityFact
    BY <1>1, <1>3 DEF Reported, Optional
  <2>2. f.record.sequence \in Nat /\ f.record.sequence <= n /\ f.record.observed_at <= t
    BY <2>1 DEF Held, CapabilityFact, EvidenceRecord
  <2> QED BY <2>2
<1>4. ASSUME NEW f \in q.last_native
      PROVE  f.record.sequence <= n + 1 /\ f.record.observed_at <= t
  <2>1. CASE f \in g.last_native
    <3>1. f \in [kind : NativeKind, record : EvidenceRecord]
      BY <1>1, <2>1 DEF Optional
    <3>2. f.record.sequence \in Nat /\ f.record.sequence <= n /\ f.record.observed_at <= t
      BY <2>1, <3>1 DEF Held, EvidenceRecord
    <3> QED BY <3>2
  <2> QED BY <1>4, <2>1 DEF Reported
<1>5. ASSUME NEW k \in EvidenceKind, NEW p \in q.receipt.evidence[k]
      PROVE  p.sequence <= n + 1
  <2>1. CASE p \in g.receipt.evidence[k]
    <3>1. p \in EvidenceRecord
      BY <1>1, <2>1 DEF Receipt, Optional
    <3>2. p.sequence \in Nat /\ p.sequence <= n
      BY <2>1, <3>1 DEF Held, EvidenceRecord
    <3> QED BY <3>2
  <2>2. CASE p \notin g.receipt.evidence[k]
    <3>1. k = kind
      BY <1>5, <2>2 DEF Reported
    <3> QED BY <1>5, <2>2, <3>1 DEF Reported
  <2> QED BY <2>1, <2>2
<1>6. \A x \in q.receipt.stop_requested_at : x <= t
  BY DEF Held, Reported, OnlyReported
<1> QED BY <1>2, <1>3, <1>4, <1>5, <1>6 DEF Held

\* A report the gate takes.
LEMMA TellIs ==
  ASSUME NEW h, NEW t, Base(h, t), NEW q, NEW kind \in EvidenceKind,
         Reported(q, h.gate, t, h.sequence, kind), NEW r, r = accept(h, TRUE, q)
  PROVE  Base(r, t) /\ Told(r, h, t, kind) /\ r.gate = q
<1> DEFINE g == h.gate
<1>1. /\ g \in Gate /\ h.sequence \in Nat /\ t \in Nat /\ h.host \in Flags
      /\ h.process \in ProcessRecord /\ h.child \in ChildRecord
  BY BaseHas
<1>2. Held(q, h.sequence + 1, t)
  BY <1>1, ReportedHeld, NumberAssumption DEF Base
<1>3. h \in HostRecord
  BY DEF Base
<1>4. q \in Gate /\ GateOK(q, t) /\ OnlyReported(q, g, t)
  BY DEF Reported, OnlyReported, GateOK
<1>5. r = [h EXCEPT !.sequence = h.sequence + 1, !.gate = q, !.host = h.host]
  <2>1. h.host = [h.host EXCEPT !.evidence_error = h.host.evidence_error \/ ~TRUE]
    BY <1>1 DEF Flags
  <2>2. r = [h EXCEPT !.sequence = h.sequence + 1, !.gate = q,
                      !.host = [h.host EXCEPT !.evidence_error = h.host.evidence_error \/ ~TRUE]]
    BY <1>3 DEF accept, HostRecord
  <2> QED BY <2>1, <2>2
<1>6. /\ r \in HostRecord /\ r.gate = q /\ r.sequence = h.sequence + 1
      /\ r.process = h.process /\ r.child = h.child /\ r.host = h.host
  <2> DEFINE n == h.sequence + 1
             f == h.host
  <2>1. n \in Nat /\ f \in Flags
    BY <1>1
  <2>2. r = [h EXCEPT !.sequence = n, !.gate = q, !.host = f]
    BY <1>5
  <2> HIDE DEF n, f
  <2>3. /\ r \in HostRecord /\ r.gate = q /\ r.sequence = n
        /\ r.process = h.process /\ r.child = h.child /\ r.host = f
    BY <1>3, <1>4, <2>1, <2>2 DEF HostRecord
  <2> QED BY <2>3 DEF n, f
<1>7. Told(r, h, t, kind)
  BY <1>6 DEF Told
<1>8. Phases(q) /\ (has_receipt(q) <=> has_receipt(g)) /\ q.init = g.init
  BY <1>4 DEF Base, Phases, OnlyReported, SameSubject, has_candidate, has_receipt
<1>9. /\ t \in 0..LastTime /\ h.sequence + 1 >= 1 /\ Lived(h.process, h.child)
      /\ Fresh(q.receipt)
      /\ q.init = "ready" \/ has_receipt(q) => h.host.initialized
  BY <1>1, <1>8 DEF Base, Reported
<1> QED BY <1>2, <1>4, <1>6, <1>7, <1>8, <1>9 DEF Base

\* Refreshing leaves what was reported alone.
LEMMA RefreshIs ==
  ASSUME NEW s \in Receipt, NEW r, r = refresh_authority_disposition(s)
  PROVE  /\ r.authority = s.authority /\ r.dispatch = s.dispatch
         /\ r.acceptance = s.acceptance /\ r.outcome = s.outcome
         /\ r.output = s.output /\ r.reason = s.reason /\ r.settlement = s.settlement
         /\ r.dispatched_at = s.dispatched_at /\ r.native_identity = s.native_identity
         /\ r.evidence = s.evidence
         /\ r.disposition = authority_disposition(s)
<1> DEFINE d == authority_disposition(s)
<1>1. r = [s EXCEPT !.disposition = d]
  BY DEF refresh_authority_disposition
<1> HIDE DEF d
<1>2. /\ r.authority = s.authority /\ r.dispatch = s.dispatch
      /\ r.acceptance = s.acceptance /\ r.outcome = s.outcome
      /\ r.output = s.output /\ r.reason = s.reason /\ r.settlement = s.settlement
      /\ r.dispatched_at = s.dispatched_at /\ r.native_identity = s.native_identity
      /\ r.evidence = s.evidence /\ r.disposition = d
  BY <1>1 DEF Receipt
<1> QED BY <1>2 DEF d

\* A refreshed receipt is fresh.
LEMMA RefreshFresh ==
  ASSUME NEW s \in Receipt, NEW r, r = refresh_authority_disposition(s)
  PROVE  Fresh(r)
<1>1. revocations(r) = revocations(s)
  <2> DEFINE d == authority_disposition(s)
  <2>1. r = [s EXCEPT !.disposition = d]
    BY DEF refresh_authority_disposition
  <2> HIDE DEF d
  <2> QED BY <2>1 DEF Receipt, revocations
<1>2. /\ r.outcome = s.outcome /\ r.settlement = s.settlement
      /\ r.dispatch = s.dispatch /\ r.output = s.output /\ r.reason = s.reason
      /\ r.acceptance = s.acceptance /\ r.disposition = authority_disposition(s)
  BY RefreshIs
<1>3. is_revoked(r) <=> is_revoked(s)
  BY <1>1 DEF is_revoked
<1>4. has_resolved_closure(r) <=> has_resolved_closure(s)
  BY <1>2 DEF has_resolved_closure, has_resolved_effects
<1>5. authority_disposition(r) = authority_disposition(s)
  BY <1>2, <1>3, <1>4 DEF authority_disposition
<1> QED BY <1>2, <1>5 DEF Fresh

\* What r says of the work, beside its records.
SameFields(r, s) ==
  /\ r.dispatch = s.dispatch /\ r.acceptance = s.acceptance
  /\ r.outcome = s.outcome /\ r.output = s.output /\ r.reason = s.reason
  /\ r.settlement = s.settlement /\ r.dispatched_at = s.dispatched_at
  /\ r.native_identity = s.native_identity

\* A receipt or its records with something new in them.
WithReceipt(g, s) == [g EXCEPT !.receipt = refresh_authority_disposition(s)]
Noted(evidence, kind, p) == [evidence EXCEPT ![kind] = {p}]

\* A receipt with one more record, that was refreshed.
LEMMA ReceiptTaken ==
  ASSUME NEW g \in Gate, NEW t, NEW n \in Nat, NEW kind \in EvidenceKind,
         NEW p, p.sequence = n + 1, NEW s \in Receipt,
         s.evidence = Noted(g.receipt.evidence, kind, p),
         NEW q, q = WithReceipt(g, s),
         OnlyReported(q, g, t)
  PROVE  /\ Reported(q, g, t, n, kind) /\ SameFields(q.receipt, s)
         /\ q.last_native = g.last_native /\ q.receipt.evidence[kind] = {p}
<1> DEFINE r == refresh_authority_disposition(s)
<1>1. /\ q.receipt = r /\ q.facts = g.facts /\ q.capabilities = g.capabilities
      /\ q.last_native = g.last_native
  BY DEF Gate, WithReceipt
<1> HIDE DEF r
<1>2. r.evidence = s.evidence /\ SameFields(r, s) /\ Fresh(r)
  BY RefreshIs, RefreshFresh DEF r, SameFields
<1>3. g.receipt.evidence \in [EvidenceKind -> Optional(EvidenceRecord)]
  BY DEF Gate, Receipt
<1>4. /\ \A k \in EvidenceKind \ {kind} : r.evidence[k] = g.receipt.evidence[k]
      /\ r.evidence[kind] = {p}
  BY <1>2, <1>3 DEF Noted
<1>5. \A x \in r.evidence[kind] : x.sequence <= n + 1
  BY <1>4
<1> QED BY <1>1, <1>2, <1>4, <1>5 DEF Reported

-----------------------------------------------------------------------------
(* What the gate takes of the host *)

\* The reports of this step are about the operation of the gate's receipt.
Addressed(h) ==
  has_receipt(h.gate) /\ h.gate.receipt.authority.binding = h.gate.binding

LEMMA AddressedIs ==
  ASSUME NEW h, Addressed(h)
  PROVE  current_authority_matches(h.gate, authority(h))
  BY DEF Addressed, current_authority_matches, authority

LEMMA SourcesAre ==
  /\ SettlementSource \in Source /\ ResultSinkObserver \in Source
  /\ NativeSource \in Source /\ StopSource \in Source /\ CapabilityObserver \in Source
  /\ BindingObserver \in Source /\ WorkerObserver \in Source
  BY DEF Source

\* A report leaves the operation the one it was.
LEMMA ToldAddressed ==
  ASSUME NEW h, NEW r, NEW t, NEW kind, Told(r, h, t, kind), Addressed(h)
  PROVE  Addressed(r) /\ authority(r) = authority(h)
  BY DEF Told, Reported, OnlyReported, SameSubject, Addressed, has_receipt, authority

\* The gate takes a report of the host: the receipt becomes s, refreshed.
Taking(h, t, kind, p, s, r) ==
  /\ Base(h, t) /\ kind \in EvidenceKind /\ p.sequence = h.sequence + 1
  /\ s \in Receipt /\ s.evidence = Noted(h.gate.receipt.evidence, kind, p)
  /\ OnlyReported(WithReceipt(h.gate, s), h.gate, t)
  /\ r = accept(h, TRUE, WithReceipt(h.gate, s))

LEMMA TakenTold ==
  ASSUME NEW h, NEW t, NEW kind, NEW p, NEW s, NEW r, Taking(h, t, kind, p, s, r)
  PROVE  /\ Base(r, t) /\ Told(r, h, t, kind)
         /\ SameFields(r.gate.receipt, s) /\ r.gate.last_native = h.gate.last_native
         /\ r.gate.receipt.evidence[kind] = {p}
<1>0. /\ Base(h, t) /\ kind \in EvidenceKind /\ p.sequence = h.sequence + 1
      /\ s \in Receipt /\ s.evidence = Noted(h.gate.receipt.evidence, kind, p)
      /\ OnlyReported(WithReceipt(h.gate, s), h.gate, t)
      /\ r = accept(h, TRUE, WithReceipt(h.gate, s))
  BY DEF Taking
<1>1. PICK g, n, q : g = h.gate /\ n = h.sequence /\ q = WithReceipt(h.gate, s)
  OBVIOUS
<1>2. g \in Gate /\ n \in Nat
  BY <1>0, <1>1, BaseHas
<1>3. g \in Gate
  BY <1>2
<1>4. n \in Nat
  BY <1>2
<1>5. p.sequence = n + 1
  BY <1>0, <1>1
<1>6. s.evidence = Noted(g.receipt.evidence, kind, p)
  BY <1>0, <1>1
<1>7. q = WithReceipt(g, s)
  BY <1>1
<1>8. OnlyReported(q, g, t)
  BY <1>0, <1>1
<1>9. s \in Receipt
  BY <1>0
<1>10. kind \in EvidenceKind
  BY <1>0
<1>11. /\ Reported(q, g, t, n, kind) /\ SameFields(q.receipt, s)
       /\ q.last_native = g.last_native /\ q.receipt.evidence[kind] = {p}
  BY ONLY <1>3, <1>4, <1>5, <1>6, <1>7, <1>8, <1>9, <1>10, ReceiptTaken
<1>12. Reported(q, h.gate, t, h.sequence, kind)
  BY <1>1, <1>11
<1>13. Base(h, t)
  BY <1>0
<1>14. r = accept(h, TRUE, q)
  BY <1>0, <1>1
<1>15. Base(r, t) /\ Told(r, h, t, kind) /\ r.gate = q
  BY ONLY <1>10, <1>12, <1>13, <1>14, TellIs
<1> QED BY <1>1, <1>11, <1>15

LEMMA NotSubmittedTold ==
  ASSUME NEW h, NEW t, Base(h, t), h.sequence <= 10, Addressed(h),
         NEW z, z = h.gate.receipt,
         \/ z.dispatch = "pending"
         \/ z.dispatch = "submitted" /\ z.dispatched_at # {},
         \A k \in EvidenceKind : z.evidence[k] = {},
         NEW r, r = not_submitted(h, t)
  PROVE  /\ Base(r, t) /\ Told(r, h, t, "non_submission")
         /\ r.gate.receipt.dispatch = "not_submitted"
         /\ r.gate.receipt.outcome = "not_executed"
         /\ r.gate.receipt.output = z.output
         /\ r.gate.receipt.settlement = z.settlement
<1>0. PICK g, a, p, e, q, s :
        /\ g = h.gate /\ a = authority(h) /\ p = record(h, SettlementSource, t)
        /\ e = [authority |-> a, record |-> p] /\ q = observe_non_submission(g, e)
        /\ s = [z EXCEPT !.dispatch = "not_submitted", !.outcome = "not_executed",
                         !.evidence["non_submission"] = {p}]
  OBVIOUS
<1>1. /\ p \in EvidenceRecord /\ p.source = SettlementSource /\ p.observed_at = t
      /\ p.sequence = h.sequence + 1 /\ p.sequence # 0 /\ p.observed_at <= t
  BY <1>0, RecordIs, SourcesAre
<1>2. /\ g \in Gate /\ z \in Receipt /\ GateOK(g, t) /\ Timed(z, t) /\ h.sequence \in Nat
  BY <1>0, BaseHas
<1>3. current_authority_matches(g, a) /\ a = z.authority
  BY <1>0, AddressedIs DEF authority
<1>4. e.record = p /\ e.authority = a
  BY <1>0
<1>5. accepts_non_submission(g, e)
  <2>1. {"accepted", "rejected", "started", "succeeded", "failed"} \subseteq EvidenceKind
    BY DEF EvidenceKind, NativeKind
  <2>2. is_record_well_formed(e.record, SettlementSource, {e.authority.admitted_at})
    BY <1>1, <1>2, <1>3, <1>4 DEF is_record_well_formed, Timed
  <2>3. z.dispatch = "submitted" => \E d \in z.dispatched_at : d <= e.record.observed_at
    BY <1>1, <1>2, <1>4 DEF Timed
  <2> QED BY <1>0, <1>3, <1>4, <2>1, <2>2, <2>3 DEF accepts_non_submission
<1>6. q = WithReceipt(g, s)
  BY <1>0, <1>4, <1>5 DEF observe_non_submission, WithReceipt
<1>7. r = accept(h, TRUE, q)
  BY <1>0, <1>5 DEF not_submitted
<1>8. OnlyReported(q, g, t)
  BY <1>0, <1>1, <1>2, NonSubmissionReport
<1>9. PICK x : x = [z EXCEPT !.dispatch = "not_submitted", !.outcome = "not_executed"]
  OBVIOUS
<1>10. /\ x \in Receipt /\ x.evidence = z.evidence
       /\ x.dispatch = "not_submitted" /\ x.outcome = "not_executed"
       /\ x.output = z.output /\ x.settlement = z.settlement
  BY <1>2, <1>9 DEF Receipt
<1>11. s = [x EXCEPT !.evidence["non_submission"] = {p}] /\ "non_submission" \in EvidenceKind
  BY <1>0, <1>9 DEF EvidenceKind
<1>12. /\ s \in Receipt /\ s.evidence = Noted(z.evidence, "non_submission", p)
       /\ s.dispatch = "not_submitted" /\ s.outcome = "not_executed"
       /\ s.output = z.output /\ s.settlement = z.settlement
  <2>1. s \in Receipt
    BY <1>1, <1>10, <1>11, EvidenceType
  <2> QED BY <1>10, <1>11, <2>1 DEF Receipt, Noted
<1>13. Base(r, t) /\ Told(r, h, t, "non_submission") /\ SameFields(r.gate.receipt, s)
  <2>1. OnlyReported(WithReceipt(h.gate, s), h.gate, t)
    BY <1>0, <1>6, <1>8
  <2>2. r = accept(h, TRUE, WithReceipt(h.gate, s))
    BY <1>0, <1>6, <1>7
  <2>3. Taking(h, t, "non_submission", p, s, r)
    BY <1>1, <1>11, <1>12, <2>1, <2>2 DEF Taking
  <2> QED BY <2>3, TakenTold
<1> QED BY <1>12, <1>13 DEF SameFields

\* The next record follows all the receipt holds, in number and in time.
LEMMA RecordFollows ==
  ASSUME NEW h, NEW t, Base(h, t), NEW p, p.sequence = h.sequence + 1
  PROVE  follows_same_source_records(p, h.gate.receipt)
<1>1. h.gate.receipt \in Receipt /\ h.sequence \in Nat
  BY BaseHas
<1>2. ASSUME NEW k \in EvidenceKind, NEW x \in h.gate.receipt.evidence[k]
      PROVE  x.sequence < p.sequence
  <2>1. x \in EvidenceRecord
    BY <1>1, <1>2 DEF Receipt, Optional
  <2>2. x.sequence \in Nat /\ x.sequence <= h.sequence
    BY <1>2, <2>1, NumberAssumption DEF Base, Held, EvidenceRecord
  <2> QED BY <1>1, <2>2
<1> QED BY <1>2 DEF follows_same_source_records

\* What a missing output needs was seen before.
LEMMA PrerequisiteSeen ==
  ASSUME NEW r, NEW t, Timed(r, t), NEW reason,
         NEW p \in non_delivery_prerequisite(r, reason)
  PROVE  p.observed_at <= t
<1>1. {"non_submission", "rejected", "failed", "cancelled", "succeeded"} \subseteq EvidenceKind
  BY DEF EvidenceKind, NativeKind
<1>2. \E k \in EvidenceKind : p \in r.evidence[k]
  BY <1>1 DEF non_delivery_prerequisite
<1> QED BY <1>2 DEF Timed

LEMMA NotDeliveredTold ==
  ASSUME NEW h, NEW t, Base(h, t), h.sequence <= 10, Addressed(h),
         NEW z, z = h.gate.receipt, NEW why \in {"no_output", "authority_revoked"},
         z.output = "pending", non_delivery_prerequisite(z, why) # {},
         why = "authority_revoked" => is_revoked(z),
         NEW r, r = not_delivered(h, why, t)
  PROVE  /\ Base(r, t) /\ Told(r, h, t, "non_delivery")
         /\ r.gate.receipt.output = "not_delivered" /\ r.gate.receipt.reason = {why}
         /\ r.gate.receipt.dispatch = z.dispatch
         /\ r.gate.receipt.acceptance = z.acceptance
         /\ r.gate.receipt.outcome = z.outcome
         /\ r.gate.receipt.settlement = z.settlement
         /\ r.gate.receipt.native_identity = z.native_identity
         /\ r.gate.receipt.dispatched_at = z.dispatched_at
<1>0. PICK g, a, source, p, e, q, x, s :
        /\ g = h.gate /\ a = authority(h)
        /\ source = (IF why = "no_output" THEN SettlementSource ELSE ResultSinkObserver)
        /\ p = record(h, source, t)
        /\ e = [authority |-> a, reason |-> why, record |-> p]
        /\ q = observe_output_not_delivered(g, e)
        /\ x = [z EXCEPT !.output = "not_delivered", !.reason = {why}]
        /\ s = [x EXCEPT !.evidence["non_delivery"] = {p}]
  OBVIOUS
<1>1. /\ p \in EvidenceRecord /\ p.source = source /\ p.observed_at = t
      /\ p.sequence = h.sequence + 1 /\ p.sequence # 0 /\ p.observed_at <= t
  BY <1>0, RecordIs, SourcesAre
<1>2. /\ g \in Gate /\ z \in Receipt /\ GateOK(g, t) /\ Timed(z, t) /\ h.sequence \in Nat
  BY <1>0, BaseHas
<1>3. current_authority_matches(g, a) /\ a = z.authority
  BY <1>0, AddressedIs DEF authority
<1>4. e.record = p /\ e.authority = a /\ e.reason = why
  BY <1>0
<1>5. accepts_non_delivery(g, e)
  <2>1. \E b \in non_delivery_prerequisite(z, why) :
          is_record_well_formed(p, source, {b.observed_at})
    BY <1>1, <1>2, PrerequisiteSeen DEF is_record_well_formed
  <2>2. why = "authority_revoked" => revocation_precedes(z, p.observed_at)
    BY <1>1, <1>2 DEF Timed, is_revoked, revocation_precedes
  <2>3. follows_same_source_records(p, z)
    BY <1>1, RecordFollows
  <2>4. source = IF why = "no_output" THEN SettlementSource ELSE ResultSinkObserver
    BY <1>0
  <2>5. z = g.receipt
    BY <1>0
  <2> QED BY <1>3, <1>4, <2>1, <2>2, <2>3, <2>4, <2>5 DEF accepts_non_delivery
<1>6. x \in Receipt /\ x.evidence = z.evidence
  <2>1. {why} \in Optional(NonDeliveryReason)
    BY OptionalSome DEF NonDeliveryReason
  <2> QED BY <1>0, <1>2, <2>1 DEF Receipt
<1>7. "non_delivery" \in EvidenceKind /\ why \in NonDeliveryReason
  BY DEF EvidenceKind, NonDeliveryReason
<1>8. s \in Receipt
  BY <1>0, <1>1, <1>6, <1>7, EvidenceType
<1>9. s.evidence = Noted(z.evidence, "non_delivery", p) /\ SameFields(s, x)
  BY <1>0, <1>6, <1>7, <1>8 DEF Receipt, Noted, SameFields
<1>10. q = WithReceipt(g, s)
  <2>1. s = [z EXCEPT !.output = "not_delivered", !.reason = {why},
                      !.evidence["non_delivery"] = {p}]
    BY <1>0, <1>2 DEF Receipt
  <2> QED BY <1>0, <1>4, <1>5, <2>1 DEF observe_output_not_delivered, WithReceipt
<1>11. OnlyReported(WithReceipt(h.gate, s), h.gate, t)
  BY <1>0, <1>1, <1>2, <1>7, <1>10, NonDeliveryReport
<1>12. r = accept(h, TRUE, WithReceipt(h.gate, s))
  BY <1>0, <1>5, <1>10 DEF not_delivered
<1>13. Taking(h, t, "non_delivery", p, s, r)
  BY <1>1, <1>7, <1>8, <1>9, <1>11, <1>12 DEF Taking
<1>14. /\ Base(r, t) /\ Told(r, h, t, "non_delivery") /\ SameFields(r.gate.receipt, s)
  BY <1>13, TakenTold
<1>15. /\ x.output = "not_delivered" /\ x.reason = {why} /\ x.dispatch = z.dispatch
       /\ x.acceptance = z.acceptance /\ x.outcome = z.outcome
       /\ x.settlement = z.settlement
       /\ x.native_identity = z.native_identity /\ x.dispatched_at = z.dispatched_at
  BY <1>0, <1>2 DEF Receipt
<1> QED BY <1>0, <1>9, <1>14, <1>15 DEF SameFields

LEMMA SettledTold ==
  ASSUME NEW h, NEW t, Base(h, t), h.sequence <= 10, Addressed(h),
         NEW z, z = h.gate.receipt, z.settlement = "pending", z.output # "pending",
         has_resolved_effects(z), NEW r, r = settle(h, t)
  PROVE  /\ Base(r, t) /\ Told(r, h, t, "settlement")
         /\ r.gate.receipt.settlement = "settled"
         /\ r.gate.receipt.dispatch = z.dispatch
         /\ r.gate.receipt.acceptance = z.acceptance
         /\ r.gate.receipt.outcome = z.outcome
         /\ r.gate.receipt.output = z.output /\ r.gate.receipt.reason = z.reason
<1>0. PICK g, a, p, e, q, x, s :
        /\ g = h.gate /\ a = authority(h) /\ p = record(h, SettlementSource, t)
        /\ e = [authority |-> a, permits_same_domain_admission |-> TRUE, record |-> p]
        /\ q = observe_settlement(g, e)
        /\ x = [z EXCEPT !.settlement = "settled"]
        /\ s = [x EXCEPT !.evidence["settlement"] = {p}]
  OBVIOUS
<1>1. /\ p \in EvidenceRecord /\ p.source = SettlementSource /\ p.observed_at = t
      /\ p.sequence = h.sequence + 1 /\ p.sequence # 0 /\ p.observed_at <= t
  BY <1>0, RecordIs, SourcesAre
<1>2. /\ g \in Gate /\ z \in Receipt /\ GateOK(g, t) /\ Timed(z, t) /\ h.sequence \in Nat
      /\ t \in Nat
  BY <1>0, BaseHas
<1>3. current_authority_matches(g, a) /\ a = z.authority
  BY <1>0, AddressedIs DEF authority
<1>4. e.record = p /\ e.authority = a /\ e.permits_same_domain_admission
  BY <1>0
<1>5. accepts_settlement(g, e)
  <2>1. is_record_well_formed(p, SettlementSource, {a.admitted_at})
    BY <1>1, <1>2, <1>3 DEF is_record_well_formed, Timed
  <2>2. not_before(p.observed_at, effect_times(z))
    BY <1>1, <1>2, TimedCalls
  <2>3. follows_same_source_records(p, z)
    BY <1>1, RecordFollows
  <2>4. z = g.receipt
    BY <1>0
  <2> QED BY <1>3, <1>4, <2>1, <2>2, <2>3, <2>4 DEF accepts_settlement
<1>6. x \in Receipt /\ x.evidence = z.evidence
  BY <1>0, <1>2 DEF Receipt
<1>7. "settlement" \in EvidenceKind
  BY DEF EvidenceKind
<1>8. s \in Receipt
  BY <1>0, <1>1, <1>6, <1>7, EvidenceType
<1>9. s.evidence = Noted(z.evidence, "settlement", p) /\ SameFields(s, x)
  BY <1>0, <1>6, <1>7, <1>8 DEF Receipt, Noted, SameFields
<1>10. q = WithReceipt(g, s)
  <2>1. s = [z EXCEPT !.settlement = "settled", !.evidence["settlement"] = {p}]
    BY <1>0, <1>2 DEF Receipt
  <2> QED BY <1>0, <1>4, <1>5, <2>1 DEF observe_settlement, WithReceipt
<1>11. OnlyReported(WithReceipt(h.gate, s), h.gate, t)
  BY <1>0, <1>1, <1>2, <1>10, SettlementReport
<1>12. r = accept(h, TRUE, WithReceipt(h.gate, s))
  BY <1>0, <1>5, <1>10 DEF settle
<1>13. Taking(h, t, "settlement", p, s, r)
  BY <1>1, <1>7, <1>8, <1>9, <1>11, <1>12 DEF Taking
<1>14. Base(r, t) /\ Told(r, h, t, "settlement") /\ SameFields(r.gate.receipt, s)
  BY <1>13, TakenTold
<1>15. /\ x.output = z.output /\ x.reason = z.reason /\ x.dispatch = z.dispatch
       /\ x.acceptance = z.acceptance /\ x.outcome = z.outcome
       /\ x.settlement = "settled"
  BY <1>0, <1>2 DEF Receipt
<1> QED BY <1>9, <1>14, <1>15 DEF SameFields

\* The host stores the result, and says so.
LEMMA OutputTold ==
  ASSUME NEW h, NEW t, Base(h, t), h.sequence <= 10, Addressed(h),
         NEW z, z = h.gate.receipt, can_deliver_result(h.gate, authority(h)),
         ~has_reached_deadline(z, t), NEW e,
         e = [authority |-> authority(h), record |-> record(h, ResultSinkObserver, t)],
         NEW r, r = accept(h, accepts_output(h.gate, e), observe_output_accepted(h.gate, e))
  PROVE  /\ Base(r, t) /\ Told(r, h, t, "output")
         /\ r.gate.receipt.output = "accepted" /\ r.gate.receipt.reason = z.reason
         /\ r.gate.receipt.dispatch = z.dispatch
         /\ r.gate.receipt.acceptance = z.acceptance
         /\ r.gate.receipt.outcome = z.outcome
         /\ r.gate.receipt.settlement = z.settlement
         /\ r.gate.receipt.native_identity = z.native_identity
         /\ r.gate.receipt.dispatched_at = z.dispatched_at
<1>0. PICK g, a, p, q, x, s :
        /\ g = h.gate /\ a = authority(h) /\ p = record(h, ResultSinkObserver, t)
        /\ q = observe_output_accepted(g, e)
        /\ x = [z EXCEPT !.output = "accepted"]
        /\ s = [x EXCEPT !.evidence["output"] = {p}]
  OBVIOUS
<1>1. /\ p \in EvidenceRecord /\ p.source = ResultSinkObserver /\ p.observed_at = t
      /\ p.sequence = h.sequence + 1 /\ p.sequence # 0 /\ p.observed_at <= t
  BY <1>0, RecordIs, SourcesAre
<1>2. /\ g \in Gate /\ z \in Receipt /\ GateOK(g, t) /\ Timed(z, t) /\ Reliable(z)
      /\ h.sequence \in Nat /\ t \in Nat
  BY <1>0, BaseHas
<1>3. current_authority_matches(g, a) /\ a = z.authority
  BY <1>0, AddressedIs DEF authority
<1>4. e.record = p /\ e.authority = a /\ e = [authority |-> a, record |-> p]
  BY <1>0
<1>5. accepts_output(g, e)
  <2>1. is_record_well_formed(p, ResultSinkObserver, {a.admitted_at})
    BY <1>1, <1>2, <1>3 DEF is_record_well_formed, Timed
  <2>2. "succeeded" \in EvidenceKind /\ z.outcome = "succeeded"
    BY DEF EvidenceKind, NativeKind, can_deliver_result
  <2>3. \E b \in z.evidence["succeeded"] : b.observed_at <= p.observed_at
    BY <1>1, <1>2, <2>2 DEF Reliable, Timed
  <2>4. z = g.receipt /\ can_deliver_result(g, a) /\ ~has_reached_deadline(z, p.observed_at)
    BY <1>0, <1>1
  <2> QED BY <1>3, <1>4, <2>1, <2>3, <2>4 DEF accepts_output
<1>6. x \in Receipt /\ x.evidence = z.evidence
  BY <1>0, <1>2 DEF Receipt
<1>7. "output" \in EvidenceKind
  BY DEF EvidenceKind
<1>8. s \in Receipt
  BY <1>0, <1>1, <1>6, <1>7, EvidenceType
<1>9. s.evidence = Noted(z.evidence, "output", p) /\ SameFields(s, x)
  BY <1>0, <1>6, <1>7, <1>8 DEF Receipt, Noted, SameFields
<1>10. q = WithReceipt(g, s)
  <2>1. s = [z EXCEPT !.output = "accepted", !.evidence["output"] = {p}]
    BY <1>0, <1>2 DEF Receipt
  <2> QED BY <1>0, <1>4, <1>5, <2>1 DEF observe_output_accepted, WithReceipt
<1>11. OnlyReported(WithReceipt(h.gate, s), h.gate, t)
  <2>1. can_deliver_result(g, a) /\ ~has_reached_deadline(g.receipt, t)
    BY <1>0
  <2>2. q = observe_output_accepted(g, [authority |-> a, record |-> p])
    BY <1>0, <1>4
  <2> QED BY <1>0, <1>1, <1>2, <1>10, <2>1, <2>2, OutputReport
<1>12. r = accept(h, TRUE, WithReceipt(h.gate, s))
  BY <1>0, <1>5, <1>10
<1>13. Taking(h, t, "output", p, s, r)
  BY <1>1, <1>7, <1>8, <1>9, <1>11, <1>12 DEF Taking
<1>14. Base(r, t) /\ Told(r, h, t, "output") /\ SameFields(r.gate.receipt, s)
  BY <1>13, TakenTold
<1>15. /\ x.output = "accepted" /\ x.reason = z.reason /\ x.dispatch = z.dispatch
       /\ x.acceptance = z.acceptance /\ x.outcome = z.outcome
       /\ x.settlement = z.settlement
       /\ x.native_identity = z.native_identity /\ x.dispatched_at = z.dispatched_at
  BY <1>0, <1>2 DEF Receipt
<1> QED BY <1>9, <1>14, <1>15 DEF SameFields

\* A fresh receipt stays as it is when it is refreshed.
LEMMA FreshIs ==
  ASSUME NEW s \in Receipt, Fresh(s)
  PROVE  refresh_authority_disposition(s) = s
<1>1. PICK d : d = authority_disposition(s)
  OBVIOUS
<1>2. [s EXCEPT !.disposition = d] = s
  BY <1>1 DEF Receipt, Fresh
<1> QED BY <1>1, <1>2 DEF refresh_authority_disposition

LEMMA StopTold ==
  ASSUME NEW h, NEW t, Base(h, t), h.sequence <= 10, Addressed(h),
         NEW z, z = h.gate.receipt, z.stop_requested_at # {},
         z.evidence["stop"] = {}, z.disposition # "released",
         NEW answer \in StopResponse, NEW e,
         e = [authority |-> authority(h), acknowledgement |-> answer,
              record |-> record(h, StopSource, t)],
         NEW r, r = accept(h, accepts_stop_acknowledgement(h.gate, e),
                           observe_stop_acknowledgement(h.gate, e))
  PROVE  /\ Base(r, t) /\ Told(r, h, t, "stop")
         /\ SameFields(r.gate.receipt, z)
<1>0. PICK g, a, p, q, x, s :
        /\ g = h.gate /\ a = authority(h) /\ p = record(h, StopSource, t)
        /\ q = observe_stop_acknowledgement(g, e)
        /\ x = [z EXCEPT !.stop_acknowledgement = answer]
        /\ s = [x EXCEPT !.evidence["stop"] = {p}]
  OBVIOUS
<1>1. /\ p \in EvidenceRecord /\ p.source = StopSource /\ p.observed_at = t
      /\ p.sequence = h.sequence + 1 /\ p.sequence # 0 /\ p.observed_at <= t
  BY <1>0, RecordIs, SourcesAre
<1>2. /\ g \in Gate /\ z \in Receipt /\ GateOK(g, t) /\ Timed(z, t) /\ h.sequence \in Nat
  BY <1>0, BaseHas
<1>3. current_authority_matches(g, a) /\ a = z.authority
  BY <1>0, AddressedIs DEF authority
<1>4. /\ e.record = p /\ e.authority = a /\ e.acknowledgement = answer
      /\ e = [authority |-> a, acknowledgement |-> answer, record |-> p]
  BY <1>0
<1>5. accepts_stop_acknowledgement(g, e)
  <2>1. is_record_well_formed(p, StopSource, z.stop_requested_at)
    BY <1>1 DEF is_record_well_formed, Base, Held
  <2>2. z = g.receipt
    BY <1>0
  <2> QED BY <1>3, <1>4, <2>1, <2>2 DEF accepts_stop_acknowledgement
<1>6. x \in Receipt /\ x.evidence = z.evidence /\ SameFields(x, z)
      /\ x.disposition = z.disposition /\ revocations(x) = revocations(z)
  BY <1>0, <1>2 DEF Receipt, SameFields, revocations
<1>7. "stop" \in EvidenceKind
  BY DEF EvidenceKind
<1>8. s \in Receipt
  BY <1>0, <1>1, <1>6, <1>7, EvidenceType
<1>9. /\ s.evidence = Noted(z.evidence, "stop", p) /\ SameFields(s, z)
      /\ s.disposition = z.disposition /\ revocations(s) = revocations(z)
  BY <1>0, <1>6, <1>7, <1>8 DEF Receipt, Noted, SameFields, revocations
<1>10. Fresh(s)
  <2>1. authority_disposition(s) = authority_disposition(z)
    BY <1>9 DEF SameFields, authority_disposition, has_resolved_closure,
                has_resolved_effects, is_revoked
  <2> QED BY <1>9, <2>1 DEF Base, Fresh
<1>11. q = WithReceipt(g, s)
  <2>1. s = [z EXCEPT !.stop_acknowledgement = answer, !.evidence["stop"] = {p}]
    BY <1>0, <1>2 DEF Receipt
  <2>2. s = refresh_authority_disposition(s)
    BY <1>8, <1>10, FreshIs
  <2>3. q = [g EXCEPT !.receipt = s]
    BY <1>0, <1>2, <1>4, <1>5, <2>1 DEF observe_stop_acknowledgement, Gate
  <2> QED BY <2>2, <2>3 DEF WithReceipt
<1>12. OnlyReported(WithReceipt(h.gate, s), h.gate, t)
  <2>1. q = observe_stop_acknowledgement(g, [authority |-> a, acknowledgement |-> answer, record |-> p])
    BY <1>0, <1>4
  <2> QED BY <1>0, <1>1, <1>2, <1>11, <2>1, StopReport
<1>13. r = accept(h, TRUE, WithReceipt(h.gate, s))
  BY <1>0, <1>5, <1>11
<1>14. Taking(h, t, "stop", p, s, r)
  BY <1>1, <1>7, <1>8, <1>9, <1>12, <1>13 DEF Taking
<1>15. Base(r, t) /\ Told(r, h, t, "stop") /\ SameFields(r.gate.receipt, s)
  BY <1>14, TakenTold
<1> QED BY <1>9, <1>15 DEF SameFields

\* The outcome a first native event leads to.
LEMMA FirstOutcome ==
  ASSUME NEW z, z.outcome = "pending", \A k \in Terminal : z.evidence[k] = {},
         NEW kind \in {"accepted", "started"} \cup Terminal, NEW p,
         z.evidence \in [EvidenceKind -> Optional(EvidenceRecord)]
  PROVE  native_outcome(z, kind, Noted(z.evidence, kind, p)) =
           IF kind \in Terminal THEN kind ELSE "pending"
<1> DEFINE w == Noted(z.evidence, kind, p)
<1>1. Terminal \subseteq EvidenceKind /\ {"accepted", "started"} \cap Terminal = {}
      /\ "rejected" \notin Terminal /\ kind \in EvidenceKind
  BY DEF Terminal, EvidenceKind, NativeKind
<1>2. \A k \in Terminal : w[k] = IF k = kind THEN {p} ELSE {}
  BY <1>1 DEF Noted
<1>3. seen_terminals(w) = IF kind \in Terminal THEN {kind} ELSE {}
  BY <1>2 DEF seen_terminals
<1>4. CASE kind \in Terminal
  <2>1. kind = CHOOSE k \in Terminal : w[k] # {}
    BY <1>2, <1>4
  <2>2. ~\E k, l \in seen_terminals(w) : k # l
    BY <1>3, <1>4
  <2>3. seen_terminals(w) # {}
    BY <1>3, <1>4
  <2> QED BY <1>4, <2>1, <2>2, <2>3 DEF native_outcome
<1>5. CASE kind \notin Terminal
  BY <1>1, <1>3, <1>5 DEF native_outcome
<1> QED BY <1>4, <1>5

\* What the work has told so far allows this native event.
Expects(z, kind) ==
  /\ z.dispatch = "submitted" /\ z.outcome = "pending" /\ z.evidence[kind] = {}
  /\ IF kind = "accepted"
       THEN z.acceptance = "pending" /\ z.native_identity = {}
       ELSE z.acceptance = "accepted"
            /\ z.native_identity = {z.authority.operation_id}

LEMMA NativeTold ==
  ASSUME NEW h, NEW t, Base(h, t), h.sequence <= 10, Addressed(h),
         NEW z, z = h.gate.receipt, NEW kind \in {"accepted", "started"} \cup Terminal,
         Expects(z, kind), NEW r, r = native(h, kind, t)
  PROVE  /\ Base(r, t) /\ Told(r, h, t, kind)
         /\ r.gate.receipt.outcome = (IF kind \in Terminal THEN kind ELSE "pending")
         /\ r.gate.receipt.acceptance = "accepted"
         /\ r.gate.receipt.native_identity = {z.authority.operation_id}
         /\ r.gate.receipt.dispatch = "submitted"
         /\ r.gate.receipt.dispatched_at = z.dispatched_at
         /\ r.gate.receipt.output = z.output /\ r.gate.receipt.reason = z.reason
         /\ r.gate.receipt.settlement = z.settlement
<1>0. PICK g, a, id, p, e, q, w, s :
        /\ g = h.gate /\ a = authority(h) /\ id = a.operation_id
        /\ p = record(h, NativeSource, t)
        /\ e = [authority |-> a, kind |-> kind, native_identity |-> id, record |-> p]
        /\ q = observe_native(g, e) /\ w = Noted(z.evidence, kind, p)
        /\ s = [z EXCEPT !.evidence = w, !.native_identity = {id},
                         !.acceptance = IF kind = "accepted" THEN kind ELSE @,
                         !.outcome = native_outcome(z, kind, w)]
  OBVIOUS
<1>1. /\ p \in EvidenceRecord /\ p.source = NativeSource /\ p.observed_at = t
      /\ p.sequence = h.sequence + 1 /\ p.sequence # 0 /\ p.observed_at <= t
  BY <1>0, RecordIs, SourcesAre
<1>2. /\ g \in Gate /\ z \in Receipt /\ GateOK(g, t) /\ Timed(z, t) /\ Reliable(z)
      /\ h.sequence \in Nat /\ t \in Nat
  BY <1>0, BaseHas
<1>3. current_authority_matches(g, a) /\ a = z.authority /\ id = z.authority.operation_id
  BY <1>0, AddressedIs DEF authority
<1>4. e.record = p /\ e.authority = a /\ e.kind = kind /\ e.native_identity = id
  BY <1>0
<1>5. /\ kind \in EvidenceKind /\ kind \in NativeKind /\ kind # "rejected"
      /\ kind \in Terminal => kind # "accepted"
  BY DEF Terminal, EvidenceKind, NativeKind
<1>6. id \in NativeIdentity
  <2>1. z.authority \in Authority /\ z.authority.operation_id # 0
    BY <1>2 DEF Receipt, Addressed, has_receipt
  <2>2. id \in 1..LastOperationId
    BY <1>3, <2>1, NumberAssumption DEF Authority
  <2> QED BY <2>2, ComputeHostAssumption
<1>7. accepts_native(g, e)
  <2>1. is_record_well_formed(p, NativeSource, z.dispatched_at)
    BY <1>1, <1>2 DEF is_record_well_formed, Timed
  <2>2. \A last \in g.last_native :
          /\ last.record.sequence < p.sequence
          /\ last.record.observed_at <= p.observed_at
    <3> SUFFICES ASSUME NEW last \in g.last_native
                 PROVE  /\ last.record.sequence < p.sequence
                        /\ last.record.observed_at <= p.observed_at
      OBVIOUS
    <3>1. last \in [kind : NativeKind, record : EvidenceRecord]
      BY <1>2 DEF Gate, Optional
    <3>2. last.record.sequence \in Nat
      BY <3>1, NumberAssumption DEF EvidenceRecord
    <3>3. last.record.sequence <= h.sequence /\ last.record.observed_at <= t
      BY <1>0 DEF Base, Held
    <3> QED BY <1>1, <1>2, <3>2, <3>3
  <2>3. z = g.receipt
    BY <1>0
  <2> QED BY <1>3, <1>4, <1>5, <2>1, <2>2, <2>3 DEF accepts_native, Expects
<1>8. z.evidence \in [EvidenceKind -> Optional(EvidenceRecord)]
  BY <1>2 DEF Receipt
<1>9. native_outcome(z, kind, w) = IF kind \in Terminal THEN kind ELSE "pending"
  <2>1. z.outcome = "pending" /\ \A k \in Terminal : z.evidence[k] = {}
    BY <1>2 DEF Expects, Reliable
  <2> QED BY <1>0, <1>8, <2>1, FirstOutcome
<1>10. apply_native(z, e) = refresh_authority_disposition(s)
  <2>1. z.evidence[kind] = {}
    BY DEF Expects
  <2>2. w = IF z.evidence[e.kind] = {} THEN [z.evidence EXCEPT ![e.kind] = {e.record}]
            ELSE z.evidence
    BY <1>0, <1>4, <2>1 DEF Noted
  <2>3. s = [z EXCEPT !.evidence = w, !.native_identity = {e.native_identity},
                      !.acceptance = IF e.kind \in {"accepted", "rejected"}
                                       THEN e.kind ELSE @,
                      !.outcome = native_outcome(z, e.kind, w)]
    BY <1>0, <1>4, <1>5
  <2> QED BY <2>2, <2>3 DEF apply_native
<1>11. q = [g EXCEPT !.receipt = refresh_authority_disposition(s),
                     !.last_native = {[kind |-> kind, record |-> p]}]
  BY <1>0, <1>4, <1>7, <1>10 DEF observe_native
<1>12. /\ s \in Receipt /\ s.evidence = w
       /\ s.outcome = (IF kind \in Terminal THEN kind ELSE "pending")
       /\ s.acceptance = "accepted" /\ s.native_identity = {id}
       /\ s.dispatch = "submitted" /\ s.dispatched_at = z.dispatched_at
       /\ s.output = z.output /\ s.reason = z.reason /\ s.settlement = z.settlement
  <2>1. w \in [EvidenceKind -> Optional(EvidenceRecord)]
    BY <1>0, <1>1, <1>8, OptionalSome DEF Noted
  <2>2. {id} \in Optional(NativeIdentity)
    BY <1>6, OptionalSome
  <2>3. PICK o : o = IF kind \in Terminal THEN kind ELSE "pending"
    OBVIOUS
  <2>4. s = [z EXCEPT !.evidence = w, !.native_identity = {id},
                      !.acceptance = "accepted", !.outcome = o]
    BY <1>0, <1>2, <1>9, <2>3 DEF Expects
  <2>5. o \in {"pending", "not_executed", "unknown"} \cup Terminal
    BY <2>3
  <2>6. /\ s \in Receipt /\ s.evidence = w /\ s.outcome = o
        /\ s.acceptance = "accepted" /\ s.native_identity = {id}
        /\ s.dispatch = z.dispatch /\ s.dispatched_at = z.dispatched_at
        /\ s.output = z.output /\ s.reason = z.reason /\ s.settlement = z.settlement
    <3>1. PICK i : i = {id}
      OBVIOUS
    <3>2. i \in Optional(NativeIdentity)
      BY <2>2, <3>1
    <3>3. s = [z EXCEPT !.evidence = w, !.native_identity = i,
                        !.acceptance = "accepted", !.outcome = o]
      BY <2>4, <3>1
    <3>4. /\ s.evidence = w /\ s.outcome = o
          /\ s.acceptance = "accepted" /\ s.native_identity = i
          /\ s.dispatch = z.dispatch /\ s.dispatched_at = z.dispatched_at
          /\ s.output = z.output /\ s.reason = z.reason /\ s.settlement = z.settlement
      BY <1>2, <3>3 DEF Receipt
    <3>5. PICK y : y = [z EXCEPT !.evidence = w, !.native_identity = i]
      OBVIOUS
    <3>6. y \in Receipt
      BY <1>2, <2>1, <3>2, <3>5 DEF Receipt
    <3>7. s = [y EXCEPT !.acceptance = "accepted", !.outcome = o]
      BY <3>3, <3>5
    <3>8. s \in Receipt
      BY <2>5, <3>6, <3>7 DEF Receipt
    <3> QED BY <3>1, <3>4, <3>8
  <2> QED BY <2>3, <2>6 DEF Expects
<1>13. PICK u : u = refresh_authority_disposition(s)
  OBVIOUS
<1>14. SameFields(u, s) /\ Fresh(u) /\ u.evidence = w
  BY <1>12, <1>13, RefreshIs, RefreshFresh DEF SameFields
<1>15. /\ q.receipt = u /\ q.facts = g.facts /\ q.capabilities = g.capabilities
       /\ q.last_native = {[kind |-> kind, record |-> p]}
  BY <1>2, <1>11, <1>13 DEF Gate
<1>16. OnlyReported(q, g, t)
  <2>1. q = observe_native(g, [authority |-> a, kind |-> kind, native_identity |-> id, record |-> p])
    BY <1>0
  <2> QED BY <1>1, <1>2, <1>5, <1>6, <2>1, NativeReport
<1>17. Reported(q, g, t, h.sequence, kind)
  <2>1. \A f \in q.last_native :
          f.record.sequence <= h.sequence + 1 /\ f.record.observed_at <= t
    BY <1>1, <1>2, <1>15
  <2>2. /\ \A k \in EvidenceKind \ {kind} : q.receipt.evidence[k] = g.receipt.evidence[k]
        /\ q.receipt.evidence[kind] = {p}
    BY <1>0, <1>5, <1>8, <1>14, <1>15 DEF Noted
  <2>3. \A b \in q.receipt.evidence[kind] : b.sequence <= h.sequence + 1
    BY <1>1, <1>2, <2>2
  <2> QED BY <1>14, <1>15, <1>16, <2>1, <2>2, <2>3 DEF Reported
<1>18. Base(r, t) /\ Told(r, h, t, kind) /\ r.gate = q
  <2>1. Reported(q, h.gate, t, h.sequence, kind)
    BY <1>0, <1>17
  <2>2. r = accept(h, TRUE, q)
    BY <1>0, <1>7 DEF native
  <2>3. kind \in EvidenceKind
    BY <1>5
  <2> QED BY ONLY Base(h, t), <2>1, <2>2, <2>3, TellIs
<1> QED BY <1>3, <1>12, <1>14, <1>15, <1>18 DEF SameFields

\* What accepting a report does to the host.
Accepting(r, h, q) ==
  h \in HostRecord /\ q \in Gate /\ r = accept(h, TRUE, q)

LEMMA AcceptIs ==
  ASSUME NEW h, NEW q, NEW r, Accepting(r, h, q)
  PROVE  /\ r.gate = q /\ r.sequence = h.sequence + 1
         /\ r.process = h.process /\ r.child = h.child /\ r.host = h.host
         /\ r \in HostRecord
<1>0. h \in HostRecord /\ q \in Gate /\ r = accept(h, TRUE, q)
  BY DEF Accepting
<1>1. h.host \in Flags /\ h.sequence \in Nat
  BY <1>0 DEF HostRecord
<1>2. PICK n, f : n = h.sequence + 1 /\ f = h.host
  OBVIOUS
<1>3. r = [h EXCEPT !.sequence = n, !.gate = q, !.host = f]
  <2>1. h.host = [h.host EXCEPT !.evidence_error = h.host.evidence_error \/ ~TRUE]
    BY <1>1 DEF Flags
  <2>2. r = [h EXCEPT !.sequence = h.sequence + 1, !.gate = q,
                      !.host = [h.host EXCEPT !.evidence_error = h.host.evidence_error \/ ~TRUE]]
    BY <1>0 DEF accept, HostRecord
  <2> QED BY <1>2, <2>1, <2>2
<1>4. n \in Nat /\ f \in Flags
  BY <1>1, <1>2
<1>5. /\ r.gate = q /\ r.sequence = n
      /\ r.process = h.process /\ r.child = h.child /\ r.host = f
      /\ r \in HostRecord
  BY <1>0, <1>3, <1>4 DEF HostRecord
<1> QED BY <1>2, <1>5

\* Times pass.
LEMMA BaseLater ==
  ASSUME NEW h, NEW t, Base(h, t), NEW u \in 0..LastTime, t <= u
  PROVE  Base(h, u)
<1>1. u \in Nat /\ t \in Nat /\ LastTime \in Nat /\ Time \subseteq Nat
  BY TimeIs, BaseHas
<1>2. GateOK(h.gate, u)
  BY <1>1, TimedLater DEF Base
<1>3. Held(h.gate, h.sequence, u)
  <2>1. h.gate \in Gate
    BY BaseHas
  <2>2. /\ \A c \in Concern : \A f \in h.gate.facts[c] : f.record.observed_at \in Nat
        /\ \A f \in h.gate.capabilities \cup h.gate.last_native :
             f.record.observed_at \in Nat
        /\ \A x \in h.gate.receipt.stop_requested_at : x \in Nat
    <3>1. \A x \in h.gate.receipt.stop_requested_at : x \in Nat
      BY <1>1, <2>1 DEF Gate, Receipt, Optional
    <3>2. \A c \in Concern : \A f \in h.gate.facts[c] : f \in Fact
      BY <2>1 DEF Gate, Optional
    <3>3. /\ \A f \in h.gate.capabilities : f \in CapabilityFact
          /\ \A f \in h.gate.last_native : f \in [kind : NativeKind, record : EvidenceRecord]
      BY <2>1 DEF Gate, Optional
    <3> QED BY <1>1, <3>1, <3>2, <3>3 DEF Fact, CapabilityFact, EvidenceRecord
  <2>3. \A x \in Nat : x <= t => x <= u
    BY <1>1
  <2> QED BY <2>2, <2>3 DEF Base, Held
<1> QED BY <1>1, <1>2, <1>3 DEF Base

\* The host with other flags, another process or another child.
LEMMA BaseIf ==
  ASSUME NEW h, NEW t, Base(h, t), NEW r \in HostRecord, r.gate = h.gate,
         r.sequence = h.sequence, Lived(r.process, r.child),
         h.host.initialized => r.host.initialized
  PROVE  Base(r, t)
BY DEF Base

\* Numbers only grow.
LEMMA HeldMore ==
  ASSUME NEW g \in Gate, NEW n \in Nat, NEW t, Held(g, n, t)
  PROVE  Held(g, n + 1, t)
<1>1. /\ \A c \in Concern : \A f \in g.facts[c] : f \in Fact
      /\ \A f \in g.capabilities : f \in CapabilityFact
      /\ \A f \in g.last_native : f \in [kind : NativeKind, record : EvidenceRecord]
      /\ \A k \in EvidenceKind : \A p \in g.receipt.evidence[k] : p \in EvidenceRecord
  BY DEF Gate, Receipt, Optional
<1>2. \A x \in Nat : x <= n => x <= n + 1
  OBVIOUS
<1>3. /\ \A c \in Concern : \A f \in g.facts[c] : f.record.sequence \in Nat
      /\ \A f \in g.capabilities \cup g.last_native : f.record.sequence \in Nat
      /\ \A k \in EvidenceKind : \A p \in g.receipt.evidence[k] : p.sequence \in Nat
  BY <1>1, NumberAssumption DEF Fact, CapabilityFact, EvidenceRecord
<1> QED BY <1>2, <1>3 DEF Held

\* Nothing but what the gate knows about the provider is new.
Kept(r, h) ==
  /\ r.process = h.process /\ r.child = h.child /\ r.host = h.host
  /\ SameReceipt(r.gate, h.gate) /\ r.gate.binding = h.gate.binding
  /\ r.gate.phase = h.gate.phase

\* Where the gate knows more about the provider, and nothing else.
LEMMA BaseKept ==
  ASSUME NEW h, NEW t, Base(h, t), NEW r \in HostRecord, Kept(r, h),
         r.sequence = h.sequence + 1, Held(r.gate, r.sequence, t),
         r.gate.init = h.gate.init, r.gate.candidate = h.gate.candidate
  PROVE  Base(r, t)
<1>1. r.gate \in Gate /\ GateOK(r.gate, t)
  BY SameReceiptOK DEF HostRecord, Base, Kept
<1>2. h.sequence \in Nat
  BY BaseHas
<1> QED BY <1>1, <1>2 DEF Base, Kept, SameReceipt, Phases, has_candidate, has_receipt

LEMMA CapabilitiesTold ==
  ASSUME NEW h, NEW t, Base(h, t), h.sequence <= 10, h.gate.phase = "active",
         NEW able \in BOOLEAN, NEW e,
         e = [binding |-> h.gate.binding,
              value |-> [profile_id |-> Requirement.profile_id,
                         maximum_work_units |-> Requirement.work_units,
                         available |-> able],
              record |-> record(h, CapabilityObserver, t),
              valid_until |-> t + Validity],
         NEW r, r = accept(h, accepts_capabilities(h.gate, e),
                           observe_execution_capabilities(h.gate, e))
  PROVE  Base(r, t) /\ Kept(r, h) /\ r.sequence = h.sequence + 1
<1>1. PICK g, v, p, b, u, q, f :
        /\ g = h.gate /\ p = record(h, CapabilityObserver, t) /\ b = g.binding
        /\ v = [profile_id |-> Requirement.profile_id,
                maximum_work_units |-> Requirement.work_units, available |-> able]
        /\ u = t + Validity /\ q = observe_execution_capabilities(g, e)
        /\ f = [binding |-> b, value |-> v, record |-> p, valid_until |-> u]
  OBVIOUS
<1>2. /\ p \in EvidenceRecord /\ p.source = CapabilityObserver /\ p.observed_at = t
      /\ p.sequence = h.sequence + 1 /\ p.sequence # 0 /\ p.observed_at <= t
  BY <1>1, RecordIs, SourcesAre
<1>3. /\ g \in Gate /\ GateOK(g, t) /\ h.sequence \in Nat /\ t \in Nat /\ h \in HostRecord
  BY <1>1, BaseHas DEF Base
<1>4. u \in Time /\ t < u /\ StartedAt <= t
  BY <1>1, TimeIs, ComputeHostAssumption DEF Base
<1>5. v \in Capabilities /\ v.maximum_work_units # 0 /\ b \in Binding
  BY <1>1, <1>3, ComputeHostAssumption, ComputeConfigAssumption
     DEF Capabilities, Requirements, Gate
<1>6. /\ e = [binding |-> b, value |-> v, record |-> p, valid_until |-> u]
      /\ e.binding = b /\ e.value = v /\ e.record = p /\ e.valid_until = u
  BY <1>1
<1>7. \A c \in g.capabilities :
        c.record.observed_at <= p.observed_at /\ c.record.sequence < p.sequence
  <2> SUFFICES ASSUME NEW c \in g.capabilities
               PROVE  c.record.observed_at <= p.observed_at /\ c.record.sequence < p.sequence
    OBVIOUS
  <2>1. c \in CapabilityFact
    BY <1>3 DEF Gate, Optional
  <2>2. c.record.sequence \in Nat
    BY <2>1, NumberAssumption DEF CapabilityFact, EvidenceRecord
  <2>3. c.record.sequence <= h.sequence /\ c.record.observed_at <= t
    BY <1>1 DEF Base, Held
  <2> QED BY <1>2, <1>3, <2>2, <2>3
<1>8. accepts_capabilities(g, e)
  <2>1. g.init # "closed"
    BY <1>1 DEF Base, Phases
  <2>2. is_record_well_formed(p, CapabilityObserver, {StartedAt})
    BY <1>2, <1>4 DEF is_record_well_formed
  <2>3. p.observed_at < u /\ CapabilityObserver # ""
    BY <1>2, <1>4, ComputeConfigAssumption
  <2> QED BY <1>1, <1>5, <1>6, <1>7, <2>1, <2>2, <2>3 DEF accepts_capabilities
<1>9. ~is_candidate_evidence(g, e)
  BY <1>1 DEF Base, Phases, is_candidate_evidence
<1>10. q = [g EXCEPT !.capabilities = {f}]
  BY <1>1, <1>6, <1>8, <1>9 DEF observe_execution_capabilities
<1>11. q \in Gate
  BY <1>1, <1>2, <1>3, <1>4, <1>5, <1>6, CapabilitiesType
<1>12. PICK F : F = {f}
  OBVIOUS
<1>13. /\ q.facts = g.facts /\ q.capabilities = F /\ q.last_native = g.last_native
       /\ q.receipt = g.receipt /\ q.next_operation_id = g.next_operation_id
       /\ q.binding = g.binding /\ q.phase = g.phase /\ q.init = g.init
       /\ q.candidate = g.candidate
  <2>1. q = [g EXCEPT !.capabilities = F]
    BY <1>10, <1>12
  <2> QED BY <1>3, <2>1 DEF Gate
<1>14. r = accept(h, TRUE, q)
  BY <1>1, <1>8
<1>15. /\ r.gate = q /\ r.sequence = h.sequence + 1 /\ r \in HostRecord
       /\ r.process = h.process /\ r.child = h.child /\ r.host = h.host
  <2>1. Accepting(r, h, q)
    BY <1>3, <1>11, <1>14 DEF Accepting
  <2> QED BY <2>1, AcceptIs
<1>16. Held(q, h.sequence + 1, t)
  <2>1. f.record.sequence <= h.sequence + 1 /\ f.record.observed_at <= t
    BY <1>1, <1>2, <1>3
  <2>2. Held(g, h.sequence + 1, t)
    BY <1>1, <1>3, HeldMore DEF Base
  <2> QED BY <1>12, <1>13, <2>1, <2>2 DEF Held
<1>17. Kept(r, h)
  BY <1>1, <1>13, <1>15 DEF Kept, SameReceipt
<1>18. Held(r.gate, r.sequence, t)
  BY <1>15, <1>16
<1>19. Base(r, t)
  BY <1>1, <1>13, <1>15, <1>17, <1>18, BaseKept
<1> QED BY <1>15, <1>17, <1>19

\* A host that has not yet admitted anything.
Starting(h, t) ==
  /\ h \in HostRecord /\ t \in 0..LastTime /\ h.sequence >= 1
  /\ GateOK(h.gate, t) /\ Held(h.gate, h.sequence, t)
  /\ Fresh(h.gate.receipt) /\ Phases(h.gate)
  /\ Lived(h.process, h.child)
  /\ ~has_receipt(h.gate) /\ h.gate.phase = "active"

\* The gate knows that c is v.
Knows(q, g, c, v) ==
  /\ \A k \in Concern \ {c} : q.facts[k] = g.facts[k]
  /\ q.facts[c] # {} /\ \A f \in q.facts[c] : f.value = v
  /\ q.init = "ready" <=> all_facts_hold(q.facts)

\* What the gate has of the operation and of the binding is the same.
KeptGate(q, g) ==
  /\ SameReceipt(q, g) /\ q.binding = g.binding /\ q.phase = g.phase
  /\ q.last_native = g.last_native /\ q.capabilities = g.capabilities
  /\ q.candidate = g.candidate

LEMMA StartupTold ==
  ASSUME NEW h, NEW t, Starting(h, t), h.sequence <= 10, NEW c \in Concern,
         NEW v \in BOOLEAN, NEW e,
         e = [concern |-> c, binding |-> h.gate.binding, value |-> v,
              record |-> record(h, observer_of(c), t)],
         NEW r, r = accept(h, accepts_startup(h.gate, e), observe_startup(h.gate, e))
  PROVE  /\ Starting(r, t) /\ Kept(r, h) /\ r.sequence = h.sequence + 1
         /\ Knows(r.gate, h.gate, c, v)
<1>1. PICK g, p, b, q, f, facts :
        /\ g = h.gate /\ p = record(h, observer_of(c), t) /\ b = g.binding
        /\ f = [value |-> v, record |-> p]
        /\ facts = [g.facts EXCEPT ![c] = {f}]
        /\ q = observe_startup(g, e)
  OBVIOUS
<1>2. observer_of(c) \in Source
  BY DEF observer_of, Concern, Source
<1>3. /\ p \in EvidenceRecord /\ p.source = observer_of(c) /\ p.observed_at = t
      /\ p.sequence = h.sequence + 1 /\ p.sequence # 0 /\ p.observed_at <= t
  BY <1>1, <1>2, RecordOf DEF Starting
<1>4. /\ g \in Gate /\ GateOK(g, t) /\ h.sequence \in Nat /\ t \in Nat /\ h \in HostRecord
      /\ StartedAt <= t
  BY <1>1, TimeIs, ComputeHostAssumption DEF Starting, HostRecord
<1>5. /\ e = [concern |-> c, binding |-> b, value |-> v, record |-> p]
      /\ e.concern = c /\ e.binding = b /\ e.value = v /\ e.record = p
  BY <1>1
<1>6. g.facts \in [Concern -> Optional(Fact)]
  BY <1>4 DEF Gate
<1>7. \A x \in g.facts[c] :
        x.record.sequence < p.sequence /\ x.record.observed_at <= p.observed_at
  <2> SUFFICES ASSUME NEW x \in g.facts[c]
               PROVE  x.record.observed_at <= p.observed_at /\ x.record.sequence < p.sequence
    OBVIOUS
  <2>1. x \in Fact
    BY <1>6 DEF Optional
  <2>2. x.record.sequence \in Nat
    BY <2>1, NumberAssumption DEF Fact, EvidenceRecord
  <2>3. x.record.sequence <= h.sequence /\ x.record.observed_at <= t
    BY <1>1 DEF Starting, Held
  <2> QED BY <1>3, <1>4, <2>2, <2>3
<1>8. accepts_startup(g, e)
  <2>1. g.init # "closed" /\ g.phase = "active" /\ ~has_receipt(g)
    BY <1>1 DEF Starting, Phases
  <2>2. is_record_well_formed(p, observer_of(c), {StartedAt})
    BY <1>3, <1>4 DEF is_record_well_formed
  <2> QED BY <1>1, <1>5, <1>7, <2>1, <2>2 DEF accepts_startup
<1>9. PICK init : init = IF all_facts_hold(facts) THEN "ready" ELSE "recovery_required"
  OBVIOUS
<1>10. q = [g EXCEPT !.facts = facts, !.init = init]
  BY <1>1, <1>5, <1>8, <1>9 DEF observe_startup
<1>11. q \in Gate
  BY <1>1, <1>3, <1>4, <1>5, StartupType
<1>12. q.facts = facts /\ q.init = init /\ KeptGate(q, g)
  BY <1>4, <1>10 DEF Gate, KeptGate, SameReceipt
<1>13. Accepting(r, h, q)
  BY <1>1, <1>4, <1>8, <1>11 DEF Accepting
<1>14. /\ r.gate = q /\ r.sequence = h.sequence + 1 /\ r \in HostRecord
       /\ r.process = h.process /\ r.child = h.child /\ r.host = h.host
  BY <1>13, AcceptIs
<1>15. Held(q, h.sequence + 1, t)
  <2>1. f.record.sequence <= h.sequence + 1 /\ f.record.observed_at <= t
    BY <1>1, <1>3, <1>4
  <2>2. Held(g, h.sequence + 1, t)
    BY <1>1, <1>4, HeldMore DEF Starting
  <2>3. \A k \in Concern : \A x \in facts[k] : x \in g.facts[k] \/ x = f
    BY <1>1, <1>6
  <2>4. ASSUME NEW k \in Concern, NEW x \in q.facts[k]
        PROVE  x.record.sequence <= h.sequence + 1 /\ x.record.observed_at <= t
    BY <1>12, <2>1, <2>2, <2>3, <2>4 DEF Held
  <2> QED BY <1>12, <2>2, <2>4 DEF Held, KeptGate, SameReceipt
<1>16. Knows(q, g, c, v)
  <2>1. facts[c] = {f} /\ \A k \in Concern \ {c} : facts[k] = g.facts[k]
    BY <1>1, <1>6
  <2>2. f.value = v
    BY <1>1
  <2>3. q.init = "ready" <=> all_facts_hold(q.facts)
    BY <1>9, <1>12
  <2>4. \A k \in Concern \ {c} : q.facts[k] = g.facts[k]
    BY <1>12, <2>1
  <2>5. q.facts[c] = {f}
    BY <1>12, <2>1
  <2> QED BY <2>2, <2>3, <2>4, <2>5 DEF Knows
<1>17. GateOK(q, t)
  BY <1>4, <1>11, <1>12, SameReceiptOK DEF KeptGate
<1>18. Kept(r, h)
  BY <1>1, <1>12, <1>14 DEF Kept, KeptGate
<1>19. Starting(r, t)
  <2>1. Phases(q) /\ ~has_receipt(q) /\ q.phase = "active"
    BY <1>1, <1>9, <1>12 DEF Starting, Phases, KeptGate, SameReceipt, has_receipt,
       has_candidate
  <2> QED BY <1>1, <1>4, <1>12, <1>14, <1>15, <1>17, <2>1
          DEF Starting, KeptGate, SameReceipt
<1> QED BY <1>1, <1>14, <1>16, <1>18, <1>19

\* Nothing was reported about the operation.
Untold(z) ==
  /\ \A k \in EvidenceKind : z.evidence[k] = {}
  /\ z.acceptance = "pending" /\ z.outcome = "pending" /\ z.output = "pending"
  /\ z.settlement = "pending" /\ z.native_identity = {}

\* At most n reports about the same operation, and nothing else.
Reporting(r, h, n) ==
  /\ r.process = h.process /\ r.child = h.child
  /\ r.host.initialized = h.host.initialized /\ r.host.shutdown = h.host.shutdown
  /\ r.sequence <= h.sequence + n
  /\ r.gate.phase = h.gate.phase /\ r.gate.binding = h.gate.binding
  /\ r.gate.receipt.authority = h.gate.receipt.authority

LEMMA ToldReporting ==
  ASSUME NEW h, NEW r, NEW t, NEW kind, Told(r, h, t, kind), h.sequence \in Nat
  PROVE  Reporting(r, h, 1) /\ r.host = h.host
BY DEF Told, Reported, OnlyReported, SameSubject, Reporting

LEMMA ReportingThen ==
  ASSUME NEW h, NEW x, NEW r, NEW m \in Nat, NEW n \in Nat, h.sequence \in Nat,
         x.sequence \in Nat, r.sequence \in Nat, Reporting(x, h, m), Reporting(r, x, n)
  PROVE  Reporting(r, h, m + n)
BY DEF Reporting

\* The outcome of settle_unsubmitted.
Unsubmitted(r, confirmed) ==
  /\ has_receipt(r.gate) /\ r.gate.receipt.dispatch = "not_submitted"
  /\ r.gate.receipt.outcome = "not_executed"
  /\ IF confirmed
       THEN r.gate.receipt.settlement = "settled" /\ has_resolved_effects(r.gate.receipt)
       ELSE r.gate.receipt.settlement = "pending" /\ r.host.evidence_error

LEMMA SettlesUnsubmitted ==
  ASSUME NEW h, NEW t, Base(h, t), h.sequence <= 8, Addressed(h), Untold(h.gate.receipt),
         \/ h.gate.receipt.dispatch = "pending"
         \/ h.gate.receipt.dispatch = "submitted" /\ h.gate.receipt.dispatched_at # {},
         NEW confirmed \in BOOLEAN, NEW r, r = settle_unsubmitted(h, t, confirmed)
  PROVE  /\ Base(r, t) /\ Reporting(r, h, 3) /\ Unsubmitted(r, confirmed)
         /\ confirmed => r.host = h.host
<1>1. PICK z, x, y : /\ z = h.gate.receipt /\ x = not_submitted(h, t)
                     /\ y = not_delivered(x, "no_output", t)
  OBVIOUS
<1>2. h.sequence \in Nat
  BY BaseHas
<1>3. /\ Base(x, t) /\ Told(x, h, t, "non_submission")
      /\ x.gate.receipt.dispatch = "not_submitted"
      /\ x.gate.receipt.outcome = "not_executed"
      /\ x.gate.receipt.output = "pending" /\ x.gate.receipt.settlement = "pending"
  <2>1. /\ z.dispatch = "pending" \/ (z.dispatch = "submitted" /\ z.dispatched_at # {})
        /\ \A k \in EvidenceKind : z.evidence[k] = {}
        /\ z.output = "pending" /\ z.settlement = "pending" /\ h.sequence <= 10
    <3>1. Untold(z)
      BY <1>1
    <3>2. z.dispatch = "pending" \/ (z.dispatch = "submitted" /\ z.dispatched_at # {})
      BY <1>1
    <3>3. h.sequence <= 10
      BY <1>2
    <3> QED BY <3>1, <3>2, <3>3 DEF Untold
  <2> QED BY <1>1, <2>1, NotSubmittedTold
<1>4. Addressed(x) /\ x.sequence = h.sequence + 1 /\ x.host = h.host
  BY <1>3, ToldAddressed DEF Told
<1>5. Reporting(x, h, 1) /\ x.sequence \in Nat
  BY <1>2, <1>3, ToldReporting, BaseHas
<1>6. PICK w : w = x.gate.receipt
  OBVIOUS
<1>7. w.evidence["non_submission"] # {}
  BY <1>3, <1>6 DEF Told, Reported
<1>8. /\ Base(y, t) /\ Told(y, x, t, "non_delivery")
      /\ y.gate.receipt.output = "not_delivered" /\ y.gate.receipt.reason = {"no_output"}
      /\ y.gate.receipt.dispatch = "not_submitted"
      /\ y.gate.receipt.outcome = "not_executed"
      /\ y.gate.receipt.settlement = "pending"
  <2>1. non_delivery_prerequisite(w, "no_output") # {}
    BY <1>3, <1>6, <1>7 DEF non_delivery_prerequisite
  <2>2. x.sequence <= 10 /\ w.output = "pending"
    BY <1>2, <1>3, <1>4, <1>6
  <2> QED BY <1>1, <1>3, <1>4, <1>6, <2>1, <2>2, NotDeliveredTold
<1>9. Addressed(y) /\ y.sequence = x.sequence + 1 /\ y.host = x.host
  BY <1>4, <1>8, ToldAddressed DEF Told
<1>10. Reporting(y, x, 1) /\ y.sequence \in Nat
  BY <1>5, <1>8, ToldReporting, BaseHas
<1>11. Reporting(y, h, 2)
  <2>1. Reporting(y, h, 1 + 1)
    BY <1>2, <1>5, <1>10, ReportingThen
  <2> QED BY <2>1
<1>12. CASE confirmed
  <2>1. r = settle(y, t)
    BY <1>1, <1>12 DEF settle_unsubmitted, then
  <2>2. PICK v : v = y.gate.receipt
    OBVIOUS
  <2>3. has_resolved_effects(v) /\ v.settlement = "pending" /\ v.output # "pending"
    BY <1>8, <2>2 DEF has_resolved_effects
  <2>4. y.sequence <= 10
    BY <1>2, <1>4, <1>9
  <2>5. /\ Base(r, t) /\ Told(r, y, t, "settlement")
        /\ r.gate.receipt.settlement = "settled" /\ r.gate.receipt.dispatch = v.dispatch
        /\ r.gate.receipt.outcome = v.outcome
        /\ r.gate.receipt.output = v.output /\ r.gate.receipt.reason = v.reason
    BY <1>8, <1>9, <2>1, <2>2, <2>3, <2>4, SettledTold
  <2>6. Reporting(r, y, 1) /\ r.host = y.host /\ r.sequence \in Nat /\ Addressed(r)
    BY <1>9, <1>10, <2>5, ToldReporting, BaseHas, ToldAddressed
  <2>7. Reporting(r, h, 2 + 1)
    BY <1>2, <1>10, <1>11, <2>6, ReportingThen
  <2>8. Unsubmitted(r, confirmed)
    BY <1>8, <1>12, <2>2, <2>5, <2>6 DEF Unsubmitted, has_resolved_effects, Addressed
  <2> QED BY <1>4, <1>9, <2>5, <2>6, <2>7, <2>8
<1>13. CASE ~confirmed
  <2>1. r = [y EXCEPT !.host.evidence_error = TRUE]
    BY <1>1, <1>13 DEF settle_unsubmitted, then
  <2>2. y \in HostRecord /\ y.host \in Flags /\ Lived(y.process, y.child)
    BY <1>8 DEF Base, HostRecord
  <2>3. PICK f : f = [y.host EXCEPT !.evidence_error = TRUE]
    OBVIOUS
  <2>4. /\ f \in Flags /\ f.evidence_error /\ f.initialized = y.host.initialized
        /\ f.shutdown = y.host.shutdown
    BY <2>2, <2>3 DEF Flags
  <2>5. /\ r \in HostRecord /\ r.host = f /\ r.gate = y.gate /\ r.process = y.process
        /\ r.child = y.child /\ r.sequence = y.sequence
    <3>1. r = [y EXCEPT !.host = f]
      BY <2>1, <2>2, <2>3 DEF HostRecord
    <3> QED BY <2>2, <2>4, <3>1 DEF HostRecord
  <2>6. Base(r, t)
    BY <1>8, <2>2, <2>4, <2>5, BaseIf
  <2>7. Reporting(r, h, 3)
    BY <1>2, <1>10, <1>11, <2>4, <2>5 DEF Reporting
  <2>8. Unsubmitted(r, confirmed)
    BY <1>8, <1>9, <1>13, <2>4, <2>5 DEF Unsubmitted, Addressed
  <2> QED BY <1>13, <2>6, <2>7, <2>8
<1> QED BY <1>12, <1>13

\* What revoking leaves alone.
LEMMA RevokeIs ==
  ASSUME NEW p \in Receipt, NEW t \in Time, NEW r, r = revoke(p, t)
  PROVE  SameFields(r, p) /\ r.evidence = p.evidence /\ Fresh(r)
<1>1. PICK x : x = IF should_request_native_stop(p)
                     THEN [p EXCEPT !.stop_requested_at = {t},
                                    !.stop_acknowledgement = "pending"]
                     ELSE p
  OBVIOUS
<1>2. x \in Receipt /\ SameFields(x, p) /\ x.evidence = p.evidence
  <2>1. PICK s : s = {t}
    OBVIOUS
  <2>2. s \in Optional(Time)
    BY <2>1, OptionalSome
  <2>3. x = IF should_request_native_stop(p)
              THEN [p EXCEPT !.stop_requested_at = s, !.stop_acknowledgement = "pending"]
              ELSE p
    BY <1>1, <2>1
  <2> QED BY <2>2, <2>3 DEF Receipt, SameFields
<1>3. r = refresh_authority_disposition(x)
  BY <1>1 DEF revoke
<1> QED BY <1>2, <1>3, RefreshIs, RefreshFresh DEF SameFields

\* Everything but the receipt.
SameRest(q, g) ==
  /\ q.facts = g.facts /\ q.capabilities = g.capabilities
  /\ q.last_native = g.last_native /\ q.binding = g.binding

\* The authority of the operation is taken away.
Revoking(q, g, t) ==
  /\ Revoked(q, g, t) /\ SameFields(q.receipt, g.receipt)
  /\ q.receipt.evidence = g.receipt.evidence /\ Fresh(q.receipt) /\ SameRest(q, g)

LEMMA CancelIs ==
  ASSUME NEW t \in Time, NEW g, GateOK(g, t), NEW a, applies_cancel(g, a, t),
         NEW q, q = request_cancel(g, a, t)
  PROVE  Revoking(q, g, t) /\ q.phase = g.phase /\ q.init = g.init
         /\ q.candidate = g.candidate
<1>1. Revoked(q, g, t) /\ q.phase = g.phase /\ q.init = g.init /\ q.candidate = g.candidate
  BY CancelRevokes
<1>2. PICK z, p, r, s : z = g.receipt /\ s = {t} /\ p = [z EXCEPT !.cancelled_at = s]
                        /\ r = revoke(p, t)
  OBVIOUS
<1>3. g \in Gate /\ z \in Receipt /\ s \in Optional(Time)
  BY <1>2, OptionalSome DEF GateOK, Gate
<1>4. p \in Receipt /\ SameFields(p, z) /\ p.evidence = z.evidence
  BY <1>2, <1>3 DEF Receipt, SameFields
<1>5. q = [g EXCEPT !.receipt = r]
  BY <1>2 DEF request_cancel
<1>6. q.receipt = r /\ SameRest(q, g)
  BY <1>3, <1>5 DEF Gate, SameRest
<1>7. SameFields(r, p) /\ r.evidence = p.evidence /\ Fresh(r)
  BY <1>2, <1>4, RevokeIs
<1>8. SameFields(q.receipt, g.receipt) /\ q.receipt.evidence = g.receipt.evidence
      /\ Fresh(q.receipt)
  BY <1>2, <1>4, <1>6, <1>7 DEF SameFields
<1> QED BY <1>1, <1>6, <1>8 DEF Revoking

LEMMA ExpiryIs ==
  ASSUME NEW t \in Time, NEW g, GateOK(g, t), NEW a, applies_expiry(g, a, t),
         NEW q, q = observe_time(g, a, t)
  PROVE  Revoking(q, g, t) /\ q.phase = g.phase /\ q.init = g.init
         /\ q.candidate = g.candidate
<1>1. Revoked(q, g, t) /\ q.phase = g.phase /\ q.init = g.init /\ q.candidate = g.candidate
  BY ExpiryRevokes
<1>2. PICK z, p, r, s : z = g.receipt /\ s = {t} /\ p = [z EXCEPT !.expired_at = s]
                        /\ r = revoke(p, t)
  OBVIOUS
<1>3. g \in Gate /\ z \in Receipt /\ s \in Optional(Time)
  BY <1>2, OptionalSome DEF GateOK, Gate
<1>4. p \in Receipt /\ SameFields(p, z) /\ p.evidence = z.evidence
  BY <1>2, <1>3 DEF Receipt, SameFields
<1>5. q = [g EXCEPT !.receipt = r]
  BY <1>2 DEF observe_time
<1>6. q.receipt = r /\ SameRest(q, g)
  BY <1>3, <1>5 DEF Gate, SameRest
<1>7. SameFields(r, p) /\ r.evidence = p.evidence /\ Fresh(r)
  BY <1>2, <1>4, RevokeIs
<1>8. SameFields(q.receipt, g.receipt) /\ q.receipt.evidence = g.receipt.evidence
      /\ Fresh(q.receipt)
  BY <1>2, <1>4, <1>6, <1>7 DEF SameFields
<1> QED BY <1>1, <1>6, <1>8 DEF Revoking

LEMMA WithdrawIs ==
  ASSUME NEW t \in Time, NEW g, GateOK(g, t), NEW b, withdraws_binding(g, b, t),
         ~has_candidate(g), NEW q, q = withdraw_binding(g, b, t)
  PROVE  /\ GateOK(q, t) /\ q.phase = "withdrawn" /\ q.init = "recovery_required"
         /\ ~has_candidate(q) /\ SameRest(q, g)
         /\ IF withdraws_current(g) THEN Revoking(q, g, t) ELSE SameReceipt(q, g)
<1>1. PICK z, p, r, s, w :
        /\ z = g.receipt /\ s = {t} /\ p = [z EXCEPT !.withdrawn_at = s]
        /\ w = {t} /\ r = IF withdraws_current(g) THEN revoke(p, t) ELSE z
  OBVIOUS
<1>2. g \in Gate /\ z \in Receipt /\ s \in Optional(Time)
  BY <1>1, OptionalSome DEF GateOK, Gate
<1>3. p \in Receipt /\ SameFields(p, z) /\ p.evidence = z.evidence
  BY <1>1, <1>2 DEF Receipt, SameFields
<1>4. q = [g EXCEPT !.last_binding_control_at = t, !.init = "recovery_required",
              !.phase = "withdrawn", !.candidate = NoCandidate, !.withdrawn_at = w,
              !.receipt = r]
  BY <1>1 DEF withdraw_binding
<1>5. /\ q.receipt = r /\ q.phase = "withdrawn" /\ q.init = "recovery_required"
      /\ q.candidate = NoCandidate /\ SameRest(q, g)
      /\ q.next_operation_id = g.next_operation_id
  BY <1>2, <1>4 DEF Gate, SameRest
<1>6. ~has_candidate(q)
  <2>1. NoCandidate.binding = NoBinding
    BY DEF NoCandidate, new_candidate
  <2>2. NoBinding.generation = 0
    BY BindingAssumption DEF NoBinding
  <2> QED BY <1>5, <2>1, <2>2 DEF has_candidate
<1>7. GateOK(q, t) /\ (withdraws_current(g) => Revoked(q, g, t))
  BY WithdrawRevokes
<1>8. CASE withdraws_current(g)
  <2>1. SameFields(r, p) /\ r.evidence = p.evidence /\ Fresh(r)
    BY <1>1, <1>3, <1>8, RevokeIs
  <2>2. SameFields(q.receipt, g.receipt) /\ q.receipt.evidence = g.receipt.evidence
        /\ Fresh(q.receipt)
    BY <1>1, <1>3, <1>5, <2>1 DEF SameFields
  <2> QED BY <1>5, <1>6, <1>7, <1>8, <2>2 DEF Revoking
<1>9. CASE ~withdraws_current(g)
  BY <1>1, <1>5, <1>6, <1>7, <1>9 DEF SameReceipt
<1> QED BY <1>8, <1>9

LEMMA HostHas ==
  ASSUME NEW h, NEW t, Base(h, t) PROVE Has(h) /\ h \in HostRecord /\ t \in Int
BY BaseHas DEF Base, HostRecord, Has

\* How far the process is.
SameCourse(q, p) ==
  /\ q.launched = p.launched /\ q.channels_closed = p.channels_closed
  /\ q.event_eof = p.event_eof /\ q.exit_status = p.exit_status
  /\ q.started = p.started /\ q.ownership_lost = p.ownership_lost
  /\ q.channel_cleanup_unknown = p.channel_cleanup_unknown

LEMMA StopLives ==
  ASSUME NEW h, NEW t, Base(h, t), h.process.launched, NEW r, r = request_stop(h, t)
  PROVE  /\ Base(r, t) /\ r.gate = h.gate /\ r.host = h.host /\ r.sequence = h.sequence
         /\ SameCourse(r.process, h.process)
<1>1. Has(h) /\ h \in HostRecord /\ t \in Int
  BY HostHas
<1>2. /\ Has(r) /\ Beside(r, h) /\ SameFrames(r, h)
      /\ SameOwnership(r.process, h.process)
      /\ r.child.status = h.child.status /\ r.child.exit = h.child.exit
      /\ r.process.is_open = h.process.is_open
      /\ r.process.channels_closed = h.process.channels_closed
      /\ r.process.channel_cleanup_unknown = h.process.channel_cleanup_unknown
  BY <1>1, RequestStopEffect
<1>3. r \in HostRecord
  BY <1>1, <1>2 DEF HostRecord, Has, Beside, request_stop
<1>4. r.gate = h.gate /\ r.host = h.host /\ r.sequence = h.sequence
  BY <1>1, <1>2 DEF HostRecord, Beside
<1>5. SameCourse(r.process, h.process)
  BY <1>2 DEF SameCourse, SameFrames, SameRecord, SameOwnership
<1>6. Lived(r.process, r.child)
  <2>1. Lived(h.process, h.child)
    BY DEF Base
  <2> QED BY <1>2, <2>1 DEF Lived, SameFrames, SameRecord, SameOwnership, Paced
<1> QED BY <1>3, <1>4, <1>5, <1>6, BaseIf

\* apply_stop leaves the gate alone, and asks a process only if it is told to.
LEMMA AppliesStop ==
  ASSUME NEW h, NEW t, Base(h, t), NEW stop \in BOOLEAN, NEW r, r = apply_stop(h, stop, t)
  PROVE  /\ Base(r, t) /\ r.gate = h.gate /\ r.host = h.host /\ r.sequence = h.sequence
         /\ SameCourse(r.process, h.process)
         /\ ~stop \/ ~h.process.launched => r = h
<1>1. CASE stop /\ h.process.launched
  BY <1>1, StopLives DEF apply_stop
<1>2. CASE ~(stop /\ h.process.launched)
  BY <1>2 DEF apply_stop, SameCourse
<1> QED BY <1>1, <1>2

-----------------------------------------------------------------------------
(* Where an operation can be *)

Nothing(h) ==
  ~has_receipt(h.gate) /\ ~h.process.launched /\ ~h.host.evidence_error

Prepared(h) ==
  /\ Addressed(h) /\ h.gate.receipt.dispatch = "pending" /\ Untold(h.gate.receipt)
  /\ h.process = new_process /\ h.child = no_child
  /\ ~h.host.stop_reported /\ ~h.host.outcome_reported /\ ~h.host.evidence_error

\* The worker was launched, and the operation is not settled.
Running(h) ==
  LET r == h.gate.receipt
      p == h.process
  IN  /\ Addressed(h) /\ r.dispatch = "submitted" /\ r.acceptance = "accepted"
      /\ r.native_identity = {r.authority.operation_id} /\ r.settlement = "pending"
      /\ p.launched /\ ~p.channels_closed /\ ~h.host.evidence_error
      /\ stop_requested(p) => r.stop_requested_at # {}
      /\ ~h.host.stop_reported => r.evidence["stop"] = {}
      /\ h.gate.phase = "withdrawn" => is_revoked(r)

Pending(h) ==
  LET r == h.gate.receipt
  IN  /\ Running(h) /\ r.outcome = "pending" /\ r.output = "pending"
      /\ ~h.host.outcome_reported

\* The outcome is the way the worker ended.
Agrees(r, p) ==
  /\ r.outcome = "succeeded" => p.exit_status = {"completed"}
  /\ r.outcome = "cancelled" => p.exit_status = {"cancelled"}

Ended(h) ==
  LET r == h.gate.receipt
      p == h.process
  IN  /\ Running(h) /\ h.host.outcome_reported /\ has_resolved_effects(r)
      /\ p.event_eof /\ p.exit_status # {} /\ Agrees(r, p)
      /\ p.started => r.evidence["started"] # {}

Closed(h) ==
  LET r == h.gate.receipt
      p == h.process
  IN  /\ has_receipt(h.gate) /\ r.settlement = "settled" /\ has_resolved_effects(r)
      /\ ~h.host.evidence_error
      /\ IF r.dispatch = "submitted" THEN p.channels_closed /\ Agrees(r, p)
         ELSE ~p.launched

\* The launch failed and its cleanup is unknown.
Failed(h) ==
  LET r == h.gate.receipt
  IN  /\ has_receipt(h.gate) /\ r.dispatch = "not_submitted"
      /\ r.outcome = "not_executed" /\ r.settlement = "pending"
      /\ ~h.process.launched /\ h.process.channel_cleanup_unknown
      /\ h.host.evidence_error

Operation(h) ==
  Nothing(h) \/ Prepared(h) \/ Pending(h) \/ Ended(h) \/ Closed(h) \/ Failed(h)

\* Only an operation that was not dispatched yet is undispatched.
LEMMA UndispatchedIs ==
  ASSUME NEW h, Operation(h)
  PROVE  is_undispatched(h) <=> Prepared(h)
BY DEF is_undispatched, Operation, Nothing, Prepared, Pending, Ended, Running, Closed,
       Failed, Addressed, has_resolved_effects

\* A settled operation is released.
LEMMA ClosedReleased ==
  ASSUME NEW h, NEW t, Base(h, t), Closed(h)
  PROVE  /\ h.gate.receipt.disposition = "released" /\ current_is_releasable(h.gate)
         /\ ~should_request_native_stop(h.gate.receipt)
BY DEF Base, Fresh, Closed, authority_disposition, has_resolved_closure,
       has_resolved_effects, current_is_releasable, should_request_native_stop

\* An unsettled one is not.
LEMMA UnsettledHeld ==
  ASSUME NEW h, NEW t, Base(h, t), h.gate.receipt.settlement = "pending"
  PROVE  h.gate.receipt.disposition # "released" /\ ~current_is_releasable(h.gate)
BY DEF Base, Fresh, authority_disposition, has_resolved_closure, current_is_releasable

\* The operation is where it was.
Stays(r, h) ==
  /\ Nothing(h) => Nothing(r)
  /\ Prepared(h) => Prepared(r)
  /\ Running(h) => Running(r)
  /\ Pending(h) => Pending(r)
  /\ Ended(h) => Ended(r)
  /\ Closed(h) => Closed(r)
  /\ Failed(h) => Failed(r)

LEMMA StaysThen ==
  ASSUME NEW h, NEW x, NEW r, Stays(x, h), Stays(r, x)
  PROVE  Stays(r, h)
BY DEF Stays

LEMMA StaysOperation ==
  ASSUME NEW h, NEW r, Stays(r, h), Operation(h)
  PROVE  Operation(r)
BY DEF Stays, Operation

\* Only the gate is another one.
Regated(r, h) ==
  /\ r.process = h.process /\ r.child = h.child /\ r.host = h.host
  /\ r.sequence = h.sequence

LEMMA RegatedIs ==
  ASSUME NEW h \in HostRecord, NEW q \in Gate, NEW r, r = [h EXCEPT !.gate = q]
  PROVE  r \in HostRecord /\ Regated(r, h) /\ r.gate = q
BY DEF HostRecord, Regated

\* The rest of Base, for a host whose gate is another one.
LEMMA BaseGate ==
  ASSUME NEW h, NEW t, Base(h, t), NEW r \in HostRecord, Regated(r, h),
         GateOK(r.gate, t), Held(r.gate, h.sequence, t), Fresh(r.gate.receipt),
         Phases(r.gate), r.gate.init = "ready" => h.gate.init = "ready",
         has_receipt(r.gate) => has_receipt(h.gate)
  PROVE  Base(r, t)
BY DEF Base, Regated

LEMMA RevokedHeld ==
  ASSUME NEW g, NEW n, NEW t \in Nat, Held(g, n, t), NEW q, Revoking(q, g, t)
  PROVE  Held(q, n, t)
<1>1. q.receipt.stop_requested_at = {t}
      \/ q.receipt.stop_requested_at = g.receipt.stop_requested_at
  BY DEF Revoking, Revoked
<1>2. \A x \in q.receipt.stop_requested_at : x <= t
  BY <1>1 DEF Held
<1> QED BY <1>2 DEF Held, Revoking, SameRest

\* Revoking moves no operation.
LEMMA RevokedStays ==
  ASSUME NEW h, NEW t, NEW r, r.process = h.process, r.child = h.child,
         r.host = h.host, Revoking(r.gate, h.gate, t)
  PROVE  Stays(r, h)
<1>1. /\ r.gate.receipt.authority = h.gate.receipt.authority
      /\ r.gate.binding = h.gate.binding /\ is_revoked(r.gate.receipt)
      /\ SameFields(r.gate.receipt, h.gate.receipt)
      /\ r.gate.receipt.evidence = h.gate.receipt.evidence
      /\ h.gate.receipt.stop_requested_at # {} => r.gate.receipt.stop_requested_at # {}
  BY DEF Revoking, Revoked, should_request_native_stop
<1>2. /\ has_receipt(r.gate) <=> has_receipt(h.gate)
      /\ Addressed(r) <=> Addressed(h)
      /\ Untold(r.gate.receipt) <=> Untold(h.gate.receipt)
      /\ has_resolved_effects(r.gate.receipt) <=> has_resolved_effects(h.gate.receipt)
  BY <1>1 DEF has_receipt, Addressed, Untold, SameFields, has_resolved_effects
<1>3. Nothing(h) => Nothing(r)
  BY <1>2 DEF Nothing
<1>4. Prepared(h) => Prepared(r)
  BY <1>1, <1>2 DEF Prepared, SameFields
<1>5. Running(h) => Running(r)
  BY <1>1, <1>2 DEF Running, SameFields
<1>6. Pending(h) => Pending(r)
  BY <1>1, <1>5 DEF Pending, SameFields
<1>7. Ended(h) => Ended(r)
  BY <1>1, <1>2, <1>5 DEF Ended, SameFields, Agrees
<1>8. Closed(h) => Closed(r)
  BY <1>1, <1>2 DEF Closed, SameFields, Agrees
<1>9. Failed(h) => Failed(r)
  BY <1>1, <1>2 DEF Failed, SameFields
<1> QED BY <1>3, <1>4, <1>5, <1>6, <1>7, <1>8, <1>9 DEF Stays

\* Asking the process to stop moves no operation either.
LEMMA StoppedStays ==
  ASSUME NEW h, NEW t, Base(h, t), NEW stop \in BOOLEAN,
         stop => h.gate.receipt.stop_requested_at # {},
         NEW r, r = apply_stop(h, stop, t)
  PROVE  Stays(r, h)
<1>1. /\ r.gate = h.gate /\ r.host = h.host /\ SameCourse(r.process, h.process)
      /\ ~stop \/ ~h.process.launched => r = h
  BY AppliesStop
<1>2. CASE ~stop \/ ~h.process.launched
  BY <1>1, <1>2 DEF Stays
<1>3. CASE stop /\ h.process.launched
  <2>1. ~Nothing(h) /\ ~Failed(h) /\ ~Prepared(h)
    BY <1>3 DEF Nothing, Failed, Prepared, new_process
  <2>2. Running(h) => Running(r)
    BY <1>1, <1>3 DEF Running, SameCourse, Addressed
  <2>3. Pending(h) => Pending(r)
    BY <1>1, <2>2 DEF Pending
  <2>4. Ended(h) => Ended(r)
    BY <1>1, <2>2 DEF Ended, SameCourse, Agrees
  <2>5. Closed(h) => Closed(r)
    BY <1>1 DEF Closed, SameCourse, Agrees
  <2> QED BY <2>1, <2>2, <2>3, <2>4, <2>5 DEF Stays
<1> QED BY <1>2, <1>3

\* A control of the host: an operation that was not dispatched may end by it.
Controlled(r, h, t, n) ==
  /\ Base(r, t)
  /\ Stays(r, h) \/ (Prepared(h) /\ Closed(r))
  /\ r.host = h.host /\ SameCourse(r.process, h.process)
  /\ r.sequence <= h.sequence + n /\ r.gate.binding = h.gate.binding

LEMMA ControlledIs ==
  ASSUME NEW h, NEW r, NEW t, NEW n, Controlled(r, h, t, n)
  PROVE  /\ Operation(h) => Operation(r)
         /\ Running(h) => Running(r)
<1>1. Operation(h) => Operation(r)
  BY StaysOperation DEF Controlled, Operation
<1>2. ~(Running(h) /\ Prepared(h))
  BY DEF Running, Prepared
<1> QED BY <1>1, <1>2 DEF Controlled, Stays

LEMMA PreparedAlone ==
  ASSUME NEW h, Prepared(h)
  PROVE  ~Nothing(h) /\ ~Pending(h) /\ ~Ended(h) /\ ~Closed(h) /\ ~Failed(h)
BY DEF Prepared, Nothing, Pending, Ended, Running, Closed, Failed, Untold, Addressed

LEMMA ControlledThen ==
  ASSUME NEW h, NEW x, NEW r, NEW t, NEW m \in Nat, NEW n \in Nat, NEW k \in Nat,
         k = m + n, Base(h, t), Operation(h), Controlled(x, h, t, m),
         Controlled(r, x, t, n)
  PROVE  Controlled(r, h, t, k)
<1>1. h.sequence \in Nat /\ x.sequence \in Nat /\ r.sequence \in Nat
  BY BaseHas DEF Controlled
<1>2. r.sequence <= h.sequence + k
  BY <1>1 DEF Controlled
<1>3. Stays(r, h) \/ (Prepared(h) /\ Closed(r))
  <2>1. CASE Stays(x, h) /\ Stays(r, x)
    BY <2>1, StaysThen
  <2>2. CASE Prepared(h) /\ Closed(x) /\ Stays(r, x)
    BY <2>2 DEF Stays
  <2>3. CASE Prepared(x) /\ Closed(r)
    BY <2>3, PreparedAlone DEF Controlled, Stays, Operation
  <2> QED BY <2>1, <2>2, <2>3 DEF Controlled
<1>4. SameCourse(r.process, h.process)
  BY DEF Controlled, SameCourse
<1> QED BY <1>2, <1>3, <1>4 DEF Controlled

LEMMA ControlledSelf ==
  ASSUME NEW h, NEW t, Base(h, t), NEW n \in Nat
  PROVE  Controlled(h, h, t, n)
BY BaseHas DEF Controlled, Stays, SameCourse

LEMMA SettlesPrepared ==
  ASSUME NEW h, NEW t, Base(h, t), Prepared(h), h.sequence <= 8,
         NEW r, r = settle_unsubmitted(h, t, TRUE)
  PROVE  Controlled(r, h, t, 3)
<1>1. /\ Addressed(h) /\ Untold(h.gate.receipt) /\ h.gate.receipt.dispatch = "pending"
      /\ ~h.process.launched /\ ~h.host.evidence_error
  BY DEF Prepared, new_process
<1>2. /\ Base(r, t) /\ Reporting(r, h, 3) /\ Unsubmitted(r, TRUE) /\ r.host = h.host
  BY <1>1, SettlesUnsubmitted
<1>3. Closed(r)
  BY <1>1, <1>2 DEF Closed, Unsubmitted, Reporting
<1> QED BY <1>2, <1>3 DEF Controlled, Reporting, SameCourse

\* The authority is revoked by q, and the process asked to stop.
LEMMA RevokedControl ==
  ASSUME NEW h, NEW t, Base(h, t), NEW q, Revoking(q, h.gate, t), Phases(q),
         q.init = "ready" => h.gate.init = "ready",
         NEW x, x = [h EXCEPT !.gate = q],
         NEW stop \in BOOLEAN, stop => should_request_native_stop(h.gate.receipt),
         NEW r, r = apply_stop(x, stop, t)
  PROVE  Controlled(r, h, t, 0) /\ r.gate = q
<1>1. h \in HostRecord /\ q \in Gate /\ t \in Nat
  BY BaseHas DEF Base, Revoking, Revoked, GateOK
<1>2. x \in HostRecord /\ Regated(x, h) /\ x.gate = q
  BY <1>1, RegatedIs
<1>3. Base(x, t)
  <2>1. Held(h.gate, h.sequence, t)
    BY DEF Base
  <2>2. Held(q, h.sequence, t)
    BY <1>1, <2>1, RevokedHeld
  <2>3. GateOK(q, t) /\ Fresh(q.receipt) /\ (has_receipt(q) => has_receipt(h.gate))
    BY DEF Revoking, Revoked, has_receipt
  <2> QED BY <1>2, <2>2, <2>3, BaseGate
<1>4. Stays(x, h)
  BY <1>2, RevokedStays DEF Regated
<1>5. stop => x.gate.receipt.stop_requested_at # {}
  BY <1>2 DEF Revoking, Revoked
<1>6. /\ Base(r, t) /\ r.gate = x.gate /\ r.host = x.host /\ r.sequence = x.sequence
      /\ SameCourse(r.process, x.process) /\ Stays(r, x)
  <2>1. /\ Base(r, t) /\ r.gate = x.gate /\ r.host = x.host /\ r.sequence = x.sequence
        /\ SameCourse(r.process, x.process)
    BY ONLY <1>3, stop \in BOOLEAN, r = apply_stop(x, stop, t), AppliesStop
  <2>2. Stays(r, x)
    BY ONLY <1>3, <1>5, stop \in BOOLEAN, r = apply_stop(x, stop, t), StoppedStays
  <2> QED BY <2>1, <2>2
<1>7. Stays(r, h)
  BY <1>4, <1>6, StaysThen
<1>8. h.sequence \in Nat /\ q.binding = h.gate.binding
  BY BaseHas DEF Revoking, SameRest
<1> QED BY <1>2, <1>6, <1>7, <1>8 DEF Controlled, Regated

\* The deadline.
LEMMA Expires ==
  ASSUME NEW h, NEW t, Base(h, t), NEW r, r = expire(h, t)
  PROVE  /\ Controlled(r, h, t, 0) /\ Stays(r, h) /\ r.gate.phase = h.gate.phase
         /\ r.gate.receipt.authority = h.gate.receipt.authority
         /\ SameFields(r.gate.receipt, h.gate.receipt)
         /\ r.gate.receipt.evidence = h.gate.receipt.evidence
         /\ Addressed(h) /\ h.gate.receipt.output = "pending"
              /\ ~is_revoked(r.gate.receipt) => ~has_reached_deadline(r.gate.receipt, t)
<1>1. PICK a : a = authority(h)
  OBVIOUS
<1>2. CASE ~(has_receipt(h.gate) /\ applies_expiry(h.gate, a, t))
  <2>1. r = h
    BY <1>1, <1>2 DEF expire
  <2>2. Controlled(r, h, t, 0) /\ Stays(r, h)
    BY <2>1, ControlledSelf DEF Stays
  <2>3. Addressed(h) => current_authority_matches(h.gate, a) /\ has_receipt(h.gate)
    BY <1>1, AddressedIs DEF Addressed
  <2>4. t \in Time /\ GateOK(h.gate, t)
    BY BaseHas
  <2>5. Addressed(h) /\ h.gate.receipt.output = "pending"
          /\ ~is_revoked(h.gate.receipt) => ~has_reached_deadline(h.gate.receipt, t)
    BY <1>2, <2>3, <2>4, ExpiryIsFound
  <2> QED BY <2>1, <2>2, <2>5 DEF SameFields
<1>3. CASE has_receipt(h.gate) /\ applies_expiry(h.gate, a, t)
  <2>1. PICK q : q = observe_time(h.gate, a, t)
    OBVIOUS
  <2>2. PICK x : x = [h EXCEPT !.gate = q]
    OBVIOUS
  <2>3. PICK stop : stop = should_request_native_stop(h.gate.receipt)
    OBVIOUS
  <2>4. t \in Time /\ GateOK(h.gate, t)
    BY BaseHas
  <2>5. Revoking(q, h.gate, t) /\ q.phase = h.gate.phase /\ q.init = h.gate.init
        /\ q.candidate = h.gate.candidate
    BY <1>3, <2>1, <2>4, ExpiryIs
  <2>6. Phases(q)
    BY <2>5 DEF Base, Phases, has_candidate
  <2>7. stop \in BOOLEAN
    BY <2>3 DEF should_request_native_stop
  <2>8. r = apply_stop(x, stop, t)
    <3>1. x = [h EXCEPT !.gate = observe_time(@, authority(h), t)]
      BY <1>1, <2>1, <2>2
    <3> QED BY <1>1, <1>3, <2>3, <3>1 DEF expire, then
  <2>9. Controlled(r, h, t, 0) /\ r.gate = q
    BY <2>2, <2>3, <2>5, <2>6, <2>7, <2>8, RevokedControl
  <2>10. Stays(r, h)
    <3>1. ~(Prepared(h) /\ Closed(r))
      BY <2>5, <2>9 DEF Revoking, SameFields, Closed, Prepared, Untold
    <3> QED BY <2>9, <3>1 DEF Controlled
  <2>11. is_revoked(q.receipt) /\ q.receipt.authority = h.gate.receipt.authority
    BY <2>5 DEF Revoking, Revoked
  <2> QED BY <2>5, <2>9, <2>10, <2>11 DEF Revoking
<1> QED BY <1>2, <1>3

\* What a control does last: an operation that was not dispatched is settled.
LEMMA SettlesUndispatched ==
  ASSUME NEW h, NEW t, Base(h, t), Operation(h), h.sequence <= 8, NEW y,
         Controlled(y, h, t, 0), NEW r,
         r = IF is_undispatched(y) THEN settle_unsubmitted(y, t, TRUE) ELSE y
  PROVE  Controlled(r, h, t, 3)
<1>1. Base(y, t) /\ Operation(y) /\ y.sequence <= h.sequence /\ h.sequence \in Nat
      /\ y.sequence \in Nat
  BY ControlledIs, BaseHas DEF Controlled
<1>2. Controlled(r, y, t, 3)
  <2>1. CASE is_undispatched(y)
    <3>1. Prepared(y) /\ r = settle_unsubmitted(y, t, TRUE) /\ y.sequence <= 8
      BY <1>1, <2>1, UndispatchedIs
    <3> QED BY ONLY <1>1, <3>1, SettlesPrepared
  <2>2. CASE ~is_undispatched(y)
    BY <1>1, <2>2, ControlledSelf
  <2> QED BY <2>1, <2>2
<1> QED BY ONLY <1>2, Base(h, t), Operation(h), Controlled(y, h, t, 0), ControlledThen

\* The caller cancels the operation.
LEMMA Cancels ==
  ASSUME NEW h, NEW t, Base(h, t), Operation(h), h.sequence <= 8,
         NEW r, r = cancel(h, t)
  PROVE  Controlled(r, h, t, 3)
<1>1. PICK a, q, x, stop, y :
        /\ a = authority(h) /\ q = request_cancel(h.gate, a, t)
        /\ x = [h EXCEPT !.gate = q]
        /\ stop = should_request_native_stop(h.gate.receipt)
        /\ y = apply_stop(x, stop, t)
  OBVIOUS
<1>2. CASE ~applies_cancel(h.gate, a, t)
  BY <1>1, <1>2, ControlledSelf DEF cancel
<1>3. CASE applies_cancel(h.gate, a, t)
  <2>1. t \in Time /\ GateOK(h.gate, t)
    BY BaseHas
  <2>2. Revoking(q, h.gate, t) /\ q.phase = h.gate.phase /\ q.init = h.gate.init
        /\ q.candidate = h.gate.candidate
    BY <1>1, <1>3, <2>1, CancelIs
  <2>3. Phases(q)
    BY <2>2 DEF Base, Phases, has_candidate
  <2>4. stop \in BOOLEAN
    BY <1>1 DEF should_request_native_stop
  <2>5. r = IF is_undispatched(y) THEN settle_unsubmitted(y, t, TRUE) ELSE y
    <3>1. x = [h EXCEPT !.gate = request_cancel(@, authority(h), t)]
      BY <1>1
    <3>2. r = then(then(x, LAMBDA z : apply_stop(z, stop, t)),
                   LAMBDA z : IF is_undispatched(z) THEN settle_unsubmitted(z, t, TRUE)
                              ELSE z)
      BY <1>1, <1>3, <3>1 DEF cancel
    <3>3. y = then(x, LAMBDA z : apply_stop(z, stop, t))
      BY <1>1 DEF then
    <3> QED BY <3>2, <3>3 DEF then
  <2>6. Controlled(y, h, t, 0)
    BY <1>1, <2>2, <2>3, <2>4, RevokedControl
  <2> QED BY <2>5, <2>6, SettlesUndispatched
<1> QED BY <1>2, <1>3

\* The binding is withdrawn, and the work on it revoked.
LEMMA WithdrawsBinding ==
  ASSUME NEW h, NEW t, Base(h, t), Operation(h), h.sequence <= 8,
         NEW b, b = h.gate.binding, NEW r, r = withdraw_host_binding(h, b, t)
  PROVE  Controlled(r, h, t, 3)
<1>1. PICK q, x, stop, y :
        /\ q = withdraw_binding(h.gate, b, t)
        /\ x = [h EXCEPT !.gate = q]
        /\ stop = (withdraws_current(h.gate)
                     /\ should_request_native_stop(h.gate.receipt))
        /\ y = apply_stop(x, stop, t)
  OBVIOUS
<1>2. CASE ~withdraws_binding(h.gate, b, t)
  BY <1>2, ControlledSelf DEF withdraw_host_binding
<1>3. CASE withdraws_binding(h.gate, b, t)
  <2>1. t \in Time /\ t \in Nat /\ GateOK(h.gate, t) /\ h \in HostRecord
        /\ ~has_candidate(h.gate)
    BY BaseHas DEF Base, Phases
  <2>2. /\ GateOK(q, t) /\ q.phase = "withdrawn" /\ q.init = "recovery_required"
        /\ ~has_candidate(q) /\ SameRest(q, h.gate)
        /\ IF withdraws_current(h.gate) THEN Revoking(q, h.gate, t)
           ELSE SameReceipt(q, h.gate)
    BY <1>1, <1>3, <2>1, WithdrawIs
  <2>3. Phases(q)
    BY <2>2 DEF Phases
  <2>4. stop \in BOOLEAN
    BY <1>1 DEF should_request_native_stop
  <2>5. r = IF is_undispatched(y) THEN settle_unsubmitted(y, t, TRUE) ELSE y
    <3>1. x = [h EXCEPT !.gate = withdraw_binding(@, b, t)]
      BY <1>1
    <3>2. r = then(then(x, LAMBDA z : apply_stop(z,
                     /\ withdraws_current(h.gate)
                     /\ should_request_native_stop(h.gate.receipt), t)),
                   LAMBDA z : IF is_undispatched(z) THEN settle_unsubmitted(z, t, TRUE)
                              ELSE z)
      BY <1>1, <1>3, <3>1 DEF withdraw_host_binding
    <3>3. y = then(x, LAMBDA z : apply_stop(z,
                     /\ withdraws_current(h.gate)
                     /\ should_request_native_stop(h.gate.receipt), t))
      BY <1>1 DEF then
    <3> QED BY <3>2, <3>3 DEF then
  <2>6. CASE withdraws_current(h.gate)
    <3>1. Controlled(y, h, t, 0)
      BY <1>1, <2>2, <2>3, <2>4, <2>6, RevokedControl
    <3> QED BY <2>5, <3>1, SettlesUndispatched
  <2>7. CASE ~withdraws_current(h.gate)
    <3>1. y = x
      BY <1>1, <2>7 DEF apply_stop
    <3>2. x \in HostRecord /\ Regated(x, h) /\ x.gate = q
      BY <1>1, <2>1, <2>2, RegatedIs DEF GateOK
    <3>3. q.receipt = h.gate.receipt /\ SameRest(q, h.gate)
      BY <2>2, <2>7 DEF SameReceipt
    <3>4. Base(x, t)
      <4>1. Held(q, h.sequence, t) /\ Fresh(q.receipt)
        BY <3>3 DEF Base, Held, SameRest
      <4>2. has_receipt(q) => has_receipt(h.gate)
        BY <3>3 DEF has_receipt
      <4> QED BY <2>2, <2>3, <3>2, <4>1, <4>2, BaseGate
    <3>5. ~Running(h)
      <4>1. Running(h) => withdraws_current(h.gate)
        <5>1. Running(h) => /\ has_receipt(h.gate)
                            /\ h.gate.receipt.authority.binding = h.gate.binding
                            /\ h.gate.receipt.settlement = "pending"
          BY DEF Running, Addressed
        <5> QED BY <2>1, <5>1, UnsettledHeld
                DEF withdraws_current, current_authority_matches
      <4> QED BY <2>7, <4>1
    <3>6. Stays(x, h)
      BY <3>2, <3>3, <3>5 DEF Stays, Regated, SameRest, Nothing, Prepared, Pending, Ended,
         Closed, Failed, Addressed, has_receipt
    <3>7. Controlled(y, h, t, 0)
      BY <2>1, <3>1, <3>2, <3>3, <3>4, <3>6, BaseHas
         DEF Controlled, Regated, SameRest, SameCourse
    <3> QED BY <2>5, <3>7, SettlesUndispatched
  <2> QED BY <2>6, <2>7
<1> QED BY <1>2, <1>3

\* Where only the knowledge of the provider is new, no operation moves.
LEMMA KeptStays ==
  ASSUME NEW h, NEW r, Kept(r, h)
  PROVE  Stays(r, h)
BY DEF Kept, SameReceipt, Stays, Nothing, Prepared, Pending, Ended, Running, Closed, Failed,
       Addressed, has_receipt

\* The executable is looked at.
LEMMA ObservesCapabilities ==
  ASSUME NEW h, NEW t, Base(h, t), Operation(h), h.sequence <= 7,
         launchable \in BOOLEAN, NEW r, r = observe_capabilities(h, t)
  PROVE  Controlled(r, h, t, 4)
<1>1. CASE h.gate.phase # "active"
  BY <1>1, ControlledSelf DEF observe_capabilities
<1>2. CASE h.gate.phase = "active"
  <2>1. PICK e : e = [binding |-> h.gate.binding,
                      value |-> [profile_id |-> Requirement.profile_id,
                                 maximum_work_units |-> Requirement.work_units,
                                 available |-> launchable],
                      record |-> record(h, CapabilityObserver, t),
                      valid_until |-> t + Validity]
    OBVIOUS
  <2>2. PICK x : x = accept(h, accepts_capabilities(h.gate, e),
                            observe_execution_capabilities(h.gate, e))
    OBVIOUS
  <2>3. Base(x, t) /\ Kept(x, h) /\ x.sequence = h.sequence + 1
    <3>1. h.sequence <= 10
      BY BaseHas
    <3> QED BY ONLY Base(h, t), launchable \in BOOLEAN, <1>2, <2>1, <2>2, <3>1,
                    CapabilitiesTold
  <2>4. Controlled(x, h, t, 1)
    BY <2>3, KeptStays, BaseHas DEF Controlled, Kept, SameCourse
  <2>5. r = IF x.host.initialized /\ ~launchable
              THEN withdraw_host_binding(x, x.gate.binding, t) ELSE x
    BY <1>2, <2>1, <2>2 DEF observe_capabilities, then
  <2>6. Controlled(r, x, t, 3)
    <3>1. Operation(x) /\ x.sequence <= 8
      BY <2>3, <2>4, ControlledIs, BaseHas
    <3> QED BY <2>3, <2>5, <3>1, WithdrawsBinding, ControlledSelf
  <2> QED BY <2>4, <2>6, ControlledThen
<1> QED BY <1>1, <1>2

\* Only the flags of the host are others.
Reflagged(r, h, f) ==
  /\ r.gate = h.gate /\ r.process = h.process /\ r.child = h.child
  /\ r.sequence = h.sequence /\ r.host = f

LEMMA FlagsSet ==
  ASSUME NEW h, NEW t, Base(h, t), NEW f \in Flags,
         h.host.initialized => f.initialized, NEW r, r = [h EXCEPT !.host = f]
  PROVE  Base(r, t) /\ Reflagged(r, h, f)
<1>1. h \in HostRecord
  BY DEF Base
<1>2. r \in HostRecord /\ Reflagged(r, h, f)
  BY <1>1 DEF HostRecord, Reflagged
<1>3. Lived(r.process, r.child)
  BY <1>2 DEF Base, Reflagged
<1> QED BY <1>2, <1>3, BaseIf DEF Reflagged

\* A report that leaves the fields of a running operation leaves it running.
LEMMA ToldRunning ==
  ASSUME NEW h, NEW r, NEW t, NEW kind, Told(r, h, t, kind), Running(h), kind # "stop",
         r.gate.receipt.dispatch = "submitted", r.gate.receipt.acceptance = "accepted",
         r.gate.receipt.native_identity = h.gate.receipt.native_identity,
         r.gate.receipt.settlement = "pending"
  PROVE  Running(r)
<1>1. /\ r.process = h.process /\ r.host = h.host
      /\ r.gate.receipt.authority = h.gate.receipt.authority
      /\ r.gate.phase = h.gate.phase
      /\ revocations(r.gate.receipt) = revocations(h.gate.receipt)
      /\ r.gate.receipt.stop_requested_at = h.gate.receipt.stop_requested_at
  BY DEF Told, Reported, OnlyReported, SameSubject
<1>2. Addressed(r)
  BY ToldAddressed DEF Running
<1>3. r.gate.receipt.evidence["stop"] = h.gate.receipt.evidence["stop"]
  BY DEF Told, Reported, EvidenceKind
<1> QED BY <1>1, <1>2, <1>3 DEF Running, is_revoked

\* The worker said that it started.
LEMMA StartTold ==
  ASSUME NEW h, NEW t, Base(h, t), h.sequence <= 10, Pending(h),
         h.gate.receipt.evidence["started"] = {}, NEW r, r = native(h, "started", t)
  PROVE  /\ Base(r, t) /\ Pending(r) /\ Told(r, h, t, "started")
         /\ r.gate.receipt.evidence["started"] # {}
<1>1. PICK z : z = h.gate.receipt
  OBVIOUS
<1>2. Expects(z, "started") /\ Addressed(h) /\ Running(h)
  BY <1>1 DEF Expects, Pending, Running
<1>3. PICK kind : kind = "started"
  OBVIOUS
<1>4. kind \in {"accepted", "started"} \cup Terminal /\ kind \notin Terminal
      /\ Expects(z, kind) /\ r = native(h, kind, t)
  BY <1>2, <1>3 DEF Terminal
<1>5. /\ Base(r, t) /\ Told(r, h, t, kind)
      /\ r.gate.receipt.outcome = (IF kind \in Terminal THEN kind ELSE "pending")
      /\ r.gate.receipt.acceptance = "accepted"
      /\ r.gate.receipt.native_identity = {z.authority.operation_id}
      /\ r.gate.receipt.dispatch = "submitted"
      /\ r.gate.receipt.output = z.output
      /\ r.gate.receipt.settlement = z.settlement
  BY ONLY Base(h, t), h.sequence <= 10, <1>1, <1>2, <1>4, NativeTold
<1>6. Running(r)
  <2>1. /\ r.gate.receipt.native_identity = h.gate.receipt.native_identity
        /\ r.gate.receipt.settlement = "pending" /\ kind # "stop"
    BY <1>1, <1>2, <1>3, <1>5 DEF Running
  <2> QED BY ONLY <1>2, <1>5, <2>1, ToldRunning
<1> QED BY <1>1, <1>3, <1>4, <1>5, <1>6 DEF Pending, Told, Reported

\* The host reports the answer to the stop.
Answering(h, t, answer, e, x, r) ==
  /\ Base(h, t) /\ h.sequence <= 10 /\ Running(h) /\ ~h.host.stop_reported
  /\ stop_requested(h.process) /\ answer \in StopResponse
  /\ e = [authority |-> authority(h), acknowledgement |-> answer,
          record |-> record(h, StopSource, t)]
  /\ x = accept(h, accepts_stop_acknowledgement(h.gate, e),
                observe_stop_acknowledgement(h.gate, e))
  /\ r = [x EXCEPT !.host.stop_reported = TRUE]

LEMMA AnswerTold ==
  ASSUME NEW h, NEW t, NEW answer, NEW e, NEW x, NEW r, Answering(h, t, answer, e, x, r)
  PROVE  /\ Base(r, t) /\ Stays(r, h) /\ r.process = h.process
         /\ r.sequence = h.sequence + 1
         /\ r.gate.receipt.evidence["started"] = h.gate.receipt.evidence["started"]
<1>0. /\ Base(h, t) /\ h.sequence <= 10 /\ Running(h) /\ ~h.host.stop_reported
      /\ stop_requested(h.process) /\ answer \in StopResponse
      /\ e = [authority |-> authority(h), acknowledgement |-> answer,
              record |-> record(h, StopSource, t)]
      /\ x = accept(h, accepts_stop_acknowledgement(h.gate, e),
                    observe_stop_acknowledgement(h.gate, e))
      /\ r = [x EXCEPT !.host.stop_reported = TRUE]
  BY DEF Answering
<1>1. PICK z : z = h.gate.receipt
  OBVIOUS
<1>2. /\ Addressed(h) /\ z.stop_requested_at # {} /\ z.evidence["stop"] = {}
      /\ z.disposition # "released"
  BY <1>0, <1>1, UnsettledHeld DEF Running
<1>3. Base(x, t) /\ Told(x, h, t, "stop") /\ SameFields(x.gate.receipt, z)
  BY <1>0, <1>1, <1>2, StopTold
<1>4. PICK f : f = [x.host EXCEPT !.stop_reported = TRUE]
  OBVIOUS
<1>5. f \in Flags /\ (x.host.initialized => f.initialized) /\ f.stop_reported
      /\ f.outcome_reported = x.host.outcome_reported
      /\ f.evidence_error = x.host.evidence_error
  BY <1>3, <1>4, BaseHas DEF Flags
<1>6. r = [x EXCEPT !.host = f]
  BY <1>0, <1>4
<1>7. Base(r, t) /\ Reflagged(r, x, f)
  BY <1>3, <1>5, <1>6, FlagsSet
<1>8. /\ r.process = h.process /\ r.sequence = h.sequence + 1 /\ x.host = h.host
      /\ r.gate.receipt.authority = z.authority /\ r.gate.phase = h.gate.phase
      /\ revocations(r.gate.receipt) = revocations(z)
      /\ r.gate.receipt.stop_requested_at = z.stop_requested_at
      /\ SameFields(r.gate.receipt, z)
      /\ \A k \in EvidenceKind \ {"stop"} :
           r.gate.receipt.evidence[k] = z.evidence[k]
  BY <1>1, <1>3, <1>7 DEF Reflagged, Told, Reported, OnlyReported, SameSubject
<1>9. r.gate.receipt.evidence["started"] = z.evidence["started"]
  BY <1>8 DEF EvidenceKind, NativeKind
<1>10. Addressed(r)
  <2>1. Addressed(x)
    BY <1>2, <1>3, ToldAddressed
  <2> QED BY <1>7, <2>1 DEF Addressed, Reflagged
<1>11. Running(r)
  <2>1. /\ r.gate.receipt.dispatch = "submitted"
        /\ r.gate.receipt.acceptance = "accepted"
        /\ r.gate.receipt.native_identity = z.native_identity
        /\ r.gate.receipt.settlement = "pending"
    BY <1>0, <1>1, <1>8 DEF Running, SameFields
  <2>2. r.host = f
    BY <1>7 DEF Reflagged
  <2>3. ~r.host.evidence_error /\ r.host.stop_reported
    BY <1>0, <1>3, <1>5, <1>8, <2>2, <1>7 DEF Running
  <2>4. is_revoked(r.gate.receipt) <=> is_revoked(z)
    BY <1>8 DEF is_revoked
  <2> QED BY <1>0, <1>1, <1>2, <1>8, <1>10, <2>1, <2>3, <2>4 DEF Running
<1>12. Pending(h) => Pending(r)
  BY <1>1, <1>5, <1>7, <1>8, <1>11 DEF Pending, SameFields, Reflagged
<1>13. Ended(h) => Ended(r)
  <2>1. has_resolved_effects(z) => has_resolved_effects(r.gate.receipt)
    BY <1>8 DEF SameFields, has_resolved_effects
  <2> QED BY <1>1, <1>5, <1>7, <1>8, <1>9, <1>11, <2>1
          DEF Ended, SameFields, Reflagged, Agrees
<1>14. ~Nothing(h) /\ ~Prepared(h) /\ ~Closed(h) /\ ~Failed(h)
  BY <1>0 DEF Running, Nothing, Prepared, Closed, Failed, Addressed
<1> QED BY <1>1, <1>7, <1>8, <1>9, <1>11, <1>12, <1>13, <1>14 DEF Stays

\* What the host reports of the frames it has read.
LEMMA ObservesEvents ==
  ASSUME NEW h, NEW t, Base(h, t), h.sequence <= 8, Pending(h) \/ Ended(h),
         NEW r, r = observe_process_events(h, t)
  PROVE  /\ Base(r, t) /\ r.sequence <= h.sequence + 2 /\ r.process = h.process
         /\ Pending(h) => Pending(r)
         /\ Ended(h) => Ended(r)
         /\ r.process.started => r.gate.receipt.evidence["started"] # {}
<1>1. PICK p, answer, x :
        /\ p = h.process
        /\ answer = (IF ~p.stop_delivered THEN "unavailable"
                     ELSE IF p.stop_ignored THEN "refused" ELSE "acknowledged")
        /\ x = (IF p.started /\ h.gate.receipt.evidence["started"] = {}
                  THEN native(h, "started", t) ELSE h)
  OBVIOUS
<1>2. h.sequence \in Nat /\ Running(h)
  BY BaseHas DEF Pending, Ended
<1>3. /\ Base(x, t) /\ x.sequence \in h.sequence..h.sequence + 1
      /\ x.process = p /\ x.host = h.host
      /\ Pending(h) => Pending(x)
      /\ Ended(h) => Ended(x)
      /\ p.started => x.gate.receipt.evidence["started"] # {}
  <2>1. CASE p.started /\ h.gate.receipt.evidence["started"] = {}
    <3>1. Pending(h) /\ ~Ended(h) /\ h.sequence <= 10 /\ x = native(h, "started", t)
      BY <1>1, <1>2, <2>1 DEF Ended
    <3>2. /\ Base(x, t) /\ Pending(x) /\ Told(x, h, t, "started")
          /\ x.gate.receipt.evidence["started"] # {}
      BY ONLY Base(h, t), <2>1, <3>1, StartTold
    <3> QED BY <1>1, <1>2, <3>1, <3>2 DEF Told
  <2>2. CASE ~(p.started /\ h.gate.receipt.evidence["started"] = {})
    BY <1>1, <1>2, <2>2
  <2> QED BY <2>1, <2>2
<1>4. PICK e : e = [authority |-> authority(x), acknowledgement |-> answer,
                    record |-> record(x, StopSource, t)]
  OBVIOUS
<1>5. PICK w : w = accept(x, accepts_stop_acknowledgement(x.gate, e),
                          observe_stop_acknowledgement(x.gate, e))
  OBVIOUS
<1>6. PICK answered : answered = (/\ ~h.host.stop_reported /\ stop_requested(p)
                                  /\ ~p.stop_delivered \/ p.stop_acknowledged
                                       \/ p.stop_ignored)
  OBVIOUS
<1>7. r = IF ~answered THEN x ELSE [w EXCEPT !.host.stop_reported = TRUE]
  <2>1. x = (IF h.process.started /\ h.gate.receipt.evidence["started"] = {}
               THEN native(h, "started", t) ELSE h)
    BY <1>1
  <2>2. e = [authority |-> authority(x),
             acknowledgement |->
               IF ~h.process.stop_delivered THEN "unavailable"
               ELSE IF h.process.stop_ignored THEN "refused" ELSE "acknowledged",
             record |-> record(x, StopSource, t)]
    BY <1>1, <1>4
  <2>3. answered <=> /\ ~h.host.stop_reported /\ stop_requested(h.process)
                     /\ ~h.process.stop_delivered \/ h.process.stop_acknowledged
                          \/ h.process.stop_ignored
    BY <1>1, <1>6
  <2>4. r = IF ~(/\ ~h.host.stop_reported /\ stop_requested(h.process)
                 /\ ~h.process.stop_delivered \/ h.process.stop_acknowledged
                      \/ h.process.stop_ignored)
              THEN x ELSE [w EXCEPT !.host.stop_reported = TRUE]
    <3>1. PICK Answer : Answer =
            IF ~h.process.stop_delivered THEN "unavailable"
            ELSE IF h.process.stop_ignored THEN "refused" ELSE "acknowledged"
      OBVIOUS
    <3>2. r = then(x, LAMBDA y :
            IF ~(/\ ~h.host.stop_reported /\ stop_requested(h.process)
                 /\ ~h.process.stop_delivered \/ h.process.stop_acknowledged
                      \/ h.process.stop_ignored)
              THEN y
              ELSE [accept(y, accepts_stop_acknowledgement(y.gate,
                      [authority |-> authority(y), acknowledgement |-> Answer,
                       record |-> record(y, StopSource, t)]),
                    observe_stop_acknowledgement(y.gate,
                      [authority |-> authority(y), acknowledgement |-> Answer,
                       record |-> record(y, StopSource, t)]))
                     EXCEPT !.host.stop_reported = TRUE])
      BY ONLY <2>1, <3>1, r = observe_process_events(h, t) DEF observe_process_events
    <3> QED BY ONLY <1>5, <2>2, <3>1, <3>2 DEF then
  <2> QED BY ONLY <2>3, <2>4
<1>8. answer \in StopResponse
  BY <1>1 DEF StopResponse
<1>9. CASE ~answered
  BY <1>1, <1>2, <1>3, <1>7, <1>9
<1>10. CASE answered
  <2>1. /\ Running(x) /\ ~x.host.stop_reported /\ stop_requested(x.process)
        /\ x.sequence <= 10 /\ r = [w EXCEPT !.host.stop_reported = TRUE]
    <3>1. Running(x)
      BY <1>3 DEF Pending, Ended
    <3>2. ~h.host.stop_reported /\ stop_requested(p)
      BY <1>6, <1>10
    <3> QED BY <1>2, <1>3, <1>7, <1>10, <3>1, <3>2
  <2>2. /\ Base(r, t) /\ Stays(r, x) /\ r.process = x.process
        /\ r.sequence = x.sequence + 1
        /\ r.gate.receipt.evidence["started"] = x.gate.receipt.evidence["started"]
    <3>1. Answering(x, t, answer, e, w, r)
      BY ONLY <1>3, <1>4, <1>5, <1>8, <2>1 DEF Answering
    <3> QED BY ONLY <3>1, AnswerTold
  <2> QED BY <1>1, <1>2, <1>3, <2>2 DEF Stays
<1> QED BY <1>9, <1>10

LEMMA OutcomeIs ==
  ASSUME NEW p, NEW k, k = outcome(p)
  PROVE  /\ k \in Terminal
         /\ k = "succeeded" => p.exit_status = {"completed"}
         /\ k = "cancelled" => p.exit_status = {"cancelled"}
BY DEF outcome, Terminal

\* The outcome is known, and not yet what became of the output.
Known(y, kind) ==
  /\ Running(y) /\ y.gate.receipt.outcome = kind /\ y.gate.receipt.output = "pending"
  /\ y.gate.receipt.evidence[kind] # {}

\* What became of the output was reported.
Resolved(z, y, t, kind) ==
  /\ Base(z, t) /\ Running(z) /\ has_resolved_effects(z.gate.receipt)
  /\ z.gate.receipt.outcome = kind /\ SameCourse(z.process, y.process)
  /\ z.gate.receipt.evidence["started"] = y.gate.receipt.evidence["started"]
  /\ z.sequence <= y.sequence + 1

LEMMA OutcomeTold ==
  ASSUME NEW h, NEW t, Base(h, t), h.sequence <= 10, Pending(h), NEW kind \in Terminal,
         NEW r, r = native(h, kind, t)
  PROVE  /\ Base(r, t) /\ Known(r, kind) /\ Told(r, h, t, kind)
<1>1. PICK z : z = h.gate.receipt
  OBVIOUS
<1>2. Running(h) /\ Addressed(h) /\ z.output = "pending" /\ z.outcome = "pending"
  BY <1>1 DEF Pending, Running
<1>3. kind # "stop" /\ kind # "accepted" /\ kind \in {"accepted", "started"} \cup Terminal
  BY DEF Terminal
<1>4. Expects(z, kind)
  BY <1>1, <1>2, <1>3, BaseHas DEF Expects, Running, Reliable
<1>5. /\ Base(r, t) /\ Told(r, h, t, kind)
      /\ r.gate.receipt.outcome = (IF kind \in Terminal THEN kind ELSE "pending")
      /\ r.gate.receipt.acceptance = "accepted"
      /\ r.gate.receipt.native_identity = {z.authority.operation_id}
      /\ r.gate.receipt.dispatch = "submitted"
      /\ r.gate.receipt.output = z.output
      /\ r.gate.receipt.settlement = z.settlement
  BY ONLY Base(h, t), h.sequence <= 10, r = native(h, kind, t), <1>1, <1>2, <1>3, <1>4,
          NativeTold
<1>6. Running(r)
  <2>1. /\ r.gate.receipt.native_identity = h.gate.receipt.native_identity
        /\ r.gate.receipt.settlement = "pending"
    BY <1>1, <1>2, <1>5 DEF Running
  <2> QED BY ONLY <1>2, <1>3, <1>5, <2>1, ToldRunning
<1> QED BY <1>2, <1>5, <1>6 DEF Known, Told, Reported

\* A report that leaves the outcome and settles what became of the output.
LEMMA ToldResolved ==
  ASSUME NEW y, NEW t, NEW kind, Known(y, kind), NEW z, Base(z, t),
         NEW what \in {"output", "non_delivery"}, Told(z, y, t, what),
         z.gate.receipt.dispatch = y.gate.receipt.dispatch,
         z.gate.receipt.acceptance = y.gate.receipt.acceptance,
         z.gate.receipt.outcome = y.gate.receipt.outcome,
         z.gate.receipt.settlement = y.gate.receipt.settlement,
         z.gate.receipt.native_identity = y.gate.receipt.native_identity,
         IF kind = "succeeded"
           THEN \/ z.gate.receipt.output = "accepted"
                \/ /\ z.gate.receipt.output = "not_delivered"
                   /\ z.gate.receipt.reason = {"authority_revoked"}
           ELSE /\ kind \in {"failed", "cancelled"}
                /\ z.gate.receipt.output = "not_delivered"
                /\ z.gate.receipt.reason = {"no_output"}
  PROVE  Resolved(z, y, t, kind) /\ z.host = y.host
<1>1. Running(y) /\ y.gate.receipt.outcome = kind
  BY DEF Known
<1>2. /\ z.gate.receipt.dispatch = "submitted"
      /\ z.gate.receipt.acceptance = "accepted"
      /\ z.gate.receipt.settlement = "pending"
  BY <1>1 DEF Running
<1>3. Running(z)
  BY <1>1, <1>2, ToldRunning
<1>4. has_resolved_effects(z.gate.receipt)
  BY <1>1, <1>2 DEF has_resolved_effects
<1>5. /\ z.process = y.process /\ z.host = y.host /\ z.sequence = y.sequence + 1
      /\ z.gate.receipt.evidence["started"] = y.gate.receipt.evidence["started"]
  BY DEF Told, Reported, EvidenceKind, NativeKind
<1>6. z.sequence <= y.sequence + 1
  BY <1>5, BaseHas
<1> QED BY <1>1, <1>3, <1>4, <1>5, <1>6 DEF Resolved, SameCourse

LEMMA NoOutput ==
  ASSUME NEW y, NEW t, Base(y, t), y.sequence <= 10, NEW kind \in {"failed", "cancelled"},
         Known(y, kind), NEW z, z = not_delivered(y, "no_output", t)
  PROVE  Resolved(z, y, t, kind) /\ z.host = y.host
<1>1. PICK x, why : x = y.gate.receipt /\ why = "no_output"
  OBVIOUS
<1>2. /\ Addressed(y) /\ x.output = "pending" /\ non_delivery_prerequisite(x, why) # {}
      /\ why \in {"no_output", "authority_revoked"}
      /\ (why = "authority_revoked" => is_revoked(x))
      /\ z = not_delivered(y, why, t)
  BY <1>1 DEF Known, Running, non_delivery_prerequisite
<1>3. /\ Base(z, t) /\ Told(z, y, t, "non_delivery")
      /\ z.gate.receipt.output = "not_delivered" /\ z.gate.receipt.reason = {why}
      /\ z.gate.receipt.dispatch = x.dispatch
      /\ z.gate.receipt.acceptance = x.acceptance
      /\ z.gate.receipt.outcome = x.outcome
      /\ z.gate.receipt.settlement = x.settlement
      /\ z.gate.receipt.native_identity = x.native_identity
  BY ONLY Base(y, t), y.sequence <= 10, <1>1, <1>2, NotDeliveredTold
<1> QED BY <1>1, <1>3, ToldResolved

\* The host stores the result if it still may, and says what it did.
Delivering(v, u, z) ==
  /\ Base(v, u) /\ v.sequence <= 10 /\ Known(v, "succeeded")
  /\ ~is_revoked(v.gate.receipt) => ~has_reached_deadline(v.gate.receipt, u)
  /\ z = IF ~v.host.evidence_error /\ can_deliver_result(v.gate, authority(v))
           THEN [accept(v,
                   accepts_output(v.gate, [authority |-> authority(v),
                                           record |-> record(v, ResultSinkObserver, u)]),
                   observe_output_accepted(v.gate,
                     [authority |-> authority(v),
                      record |-> record(v, ResultSinkObserver, u)]))
                   EXCEPT !.host.result = TRUE]
           ELSE not_delivered(v, "authority_revoked", u)

LEMMA Delivered ==
  ASSUME NEW v, NEW u, NEW z, Delivering(v, u, z)
  PROVE  Resolved(z, v, u, "succeeded")
<1>1. PICK x, e : /\ x = v.gate.receipt
                  /\ e = [authority |-> authority(v),
                          record |-> record(v, ResultSinkObserver, u)]
  OBVIOUS
<1>2. /\ Base(v, u) /\ v.sequence <= 10 /\ Known(v, "succeeded") /\ Addressed(v)
      /\ ~is_revoked(x) => ~has_reached_deadline(x, u)
      /\ ~v.host.evidence_error /\ x.outcome = "succeeded" /\ x.output = "pending"
      /\ x.acceptance = "accepted"
      /\ x.evidence["succeeded"] # {}
      /\ v.gate.phase = "withdrawn" => is_revoked(x)
  BY <1>1 DEF Delivering, Known, Running
<1>3. CASE can_deliver_result(v.gate, authority(v))
  <2>1. PICK w : w = accept(v, accepts_output(v.gate, e), observe_output_accepted(v.gate, e))
    OBVIOUS
  <2>2. z = [w EXCEPT !.host.result = TRUE]
    BY <1>1, <1>2, <1>3, <2>1 DEF Delivering
  <2>3. ~has_reached_deadline(x, u)
    BY <1>1, <1>2, <1>3 DEF can_deliver_result
  <2>4. /\ Base(w, u) /\ Told(w, v, u, "output")
        /\ w.gate.receipt.output = "accepted"
        /\ w.gate.receipt.dispatch = x.dispatch
        /\ w.gate.receipt.acceptance = x.acceptance
        /\ w.gate.receipt.outcome = x.outcome
        /\ w.gate.receipt.settlement = x.settlement
        /\ w.gate.receipt.native_identity = x.native_identity
    BY ONLY <1>1, <1>2, <1>3, <2>1, <2>3, OutputTold
  <2>5. Resolved(w, v, u, "succeeded") /\ w.host = v.host
    BY <1>1, <1>2, <2>4, ToldResolved
  <2>6. PICK f : f = [w.host EXCEPT !.result = TRUE]
    OBVIOUS
  <2>7. f \in Flags /\ f.initialized = w.host.initialized
        /\ f.stop_reported = w.host.stop_reported
        /\ f.evidence_error = w.host.evidence_error
    BY <2>4, <2>6, BaseHas DEF Flags
  <2>8. z = [w EXCEPT !.host = f]
    BY <2>2, <2>6
  <2>9. Base(z, u) /\ Reflagged(z, w, f)
    BY <2>4, <2>7, <2>8, FlagsSet
  <2>10. Running(z)
    BY <2>5, <2>7, <2>9 DEF Resolved, Running, Reflagged, Addressed
  <2> QED BY <2>5, <2>9, <2>10 DEF Resolved, Reflagged
<1>4. CASE ~can_deliver_result(v.gate, authority(v))
  <2>1. PICK why : why = "authority_revoked"
    OBVIOUS
  <2>2. v.gate.phase # "preparing"
    BY <1>2 DEF Base, Phases
  <2>3. is_revoked(x)
    BY <1>1, <1>2, <1>4, <2>2, AddressedIs DEF can_deliver_result
  <2>4. /\ non_delivery_prerequisite(x, why) # {}
        /\ why \in {"no_output", "authority_revoked"}
        /\ (why = "authority_revoked" => is_revoked(x))
        /\ z = not_delivered(v, why, u)
    BY <1>2, <1>4, <2>1, <2>3 DEF Delivering, non_delivery_prerequisite
  <2>5. /\ Base(z, u) /\ Told(z, v, u, "non_delivery")
        /\ z.gate.receipt.output = "not_delivered" /\ z.gate.receipt.reason = {why}
        /\ z.gate.receipt.dispatch = x.dispatch
        /\ z.gate.receipt.acceptance = x.acceptance
        /\ z.gate.receipt.outcome = x.outcome
        /\ z.gate.receipt.settlement = x.settlement
        /\ z.gate.receipt.native_identity = x.native_identity
    BY ONLY <1>1, <1>2, <2>4, NotDeliveredTold
  <2> QED BY <1>1, <1>2, <2>1, <2>5, ToldResolved
<1> QED BY <1>3, <1>4

LEMMA Delivers ==
  ASSUME NEW y, NEW u, Base(y, u), y.sequence <= 10, Known(y, "succeeded"),
         NEW z, z = deliver(y, u)
  PROVE  Resolved(z, y, u, "succeeded")
<1>1. PICK v : v = expire(y, u)
  OBVIOUS
<1>2. /\ Controlled(v, y, u, 0) /\ Stays(v, y)
      /\ v.gate.receipt.authority = y.gate.receipt.authority
      /\ SameFields(v.gate.receipt, y.gate.receipt)
      /\ v.gate.receipt.evidence = y.gate.receipt.evidence
      /\ Addressed(y) /\ y.gate.receipt.output = "pending"
           /\ ~is_revoked(v.gate.receipt) => ~has_reached_deadline(v.gate.receipt, u)
  BY <1>1, Expires
<1>3. y.sequence \in Nat /\ v.sequence \in Nat /\ v.sequence <= y.sequence
      /\ SameCourse(v.process, y.process) /\ Base(v, u)
  BY <1>2, BaseHas DEF Controlled
<1>4. Known(v, "succeeded")
  BY <1>2 DEF Known, SameFields, Stays
<1>5. ~is_revoked(v.gate.receipt) => ~has_reached_deadline(v.gate.receipt, u)
  BY <1>2 DEF Known, Running
<1>6. z = IF ~v.host.evidence_error /\ can_deliver_result(v.gate, authority(v))
           THEN [accept(v,
                   accepts_output(v.gate, [authority |-> authority(v),
                                           record |-> record(v, ResultSinkObserver, u)]),
                   observe_output_accepted(v.gate,
                     [authority |-> authority(v),
                      record |-> record(v, ResultSinkObserver, u)]))
                   EXCEPT !.host.result = TRUE]
           ELSE not_delivered(v, "authority_revoked", u)
  BY ONLY <1>1, z = deliver(y, u) DEF deliver, then
<1>7. Delivering(v, u, z)
  BY <1>3, <1>4, <1>5, <1>6 DEF Delivering
<1>8. Resolved(z, v, u, "succeeded")
  BY <1>7, Delivered
<1>9. z.sequence <= y.sequence + 1
  BY <1>3, <1>8, BaseHas DEF Resolved
<1> QED BY <1>2, <1>3, <1>8, <1>9 DEF Resolved, SameCourse

LEMMA ReportsOutcome ==
  ASSUME NEW h, NEW t, Base(h, t), h.sequence <= 9, Pending(h),
         h.process.event_eof, h.process.exit_status # {},
         h.process.started => h.gate.receipt.evidence["started"] # {},
         NEW u \in 0..LastTime, t <= u, NEW r, r = report_outcome(h, t, u)
  PROVE  Base(r, u) /\ Ended(r) /\ r.sequence <= h.sequence + 2
<1>1. PICK x, k, y : x = expire(h, t) /\ k = outcome(x.process) /\ y = native(x, k, t)
  OBVIOUS
<1>2. PICK z : z = IF k = "succeeded" THEN deliver(y, u) ELSE not_delivered(y, "no_output", t)
  OBVIOUS
<1>3. /\ Controlled(x, h, t, 0) /\ Stays(x, h)
      /\ x.gate.receipt.evidence = h.gate.receipt.evidence
  BY <1>1, Expires
<1>4. /\ Base(x, t) /\ Pending(x) /\ x.sequence <= h.sequence
      /\ SameCourse(x.process, h.process) /\ h.sequence \in Nat /\ x.sequence \in Nat
      /\ x.sequence <= 10
  BY <1>3, BaseHas DEF Controlled, Stays
<1>5. /\ k \in Terminal
      /\ k = "succeeded" => x.process.exit_status = {"completed"}
      /\ k = "cancelled" => x.process.exit_status = {"cancelled"}
  BY <1>1, OutcomeIs
<1>6. Base(y, t) /\ Known(y, k) /\ Told(y, x, t, k)
  BY <1>1, <1>4, <1>5, OutcomeTold
<1>7. /\ y.process = x.process /\ y.sequence = x.sequence + 1 /\ y.sequence <= 10
      /\ y.gate.receipt.evidence["started"] = x.gate.receipt.evidence["started"]
  BY <1>4, <1>5, <1>6 DEF Told, Reported, EvidenceKind, NativeKind, Terminal
<1>8. Resolved(z, y, u, k)
  <2>1. CASE k = "succeeded"
    <3>1. Base(y, u)
      BY <1>6, BaseLater
    <3> QED BY <1>2, <1>6, <1>7, <2>1, <3>1, Delivers
  <2>2. CASE k # "succeeded"
    <3>1. k \in {"failed", "cancelled"} /\ z = not_delivered(y, "no_output", t)
      BY <1>2, <1>5, <2>2 DEF Terminal
    <3>2. Resolved(z, y, t, k)
      BY <1>6, <1>7, <3>1, NoOutput
    <3> QED BY <3>2, BaseLater DEF Resolved
  <2> QED BY <2>1, <2>2
<1>9. r = [z EXCEPT !.host.outcome_reported = TRUE]
  <2>1. then(h, LAMBDA s : expire(s, t)) = x
    BY <1>1 DEF then
  <2>2. r = then(then(x, LAMBDA s : native(s, outcome(s.process), t)), LAMBDA s :
              [(IF outcome(s.process) = "succeeded" THEN deliver(s, u)
                ELSE not_delivered(s, "no_output", t)) EXCEPT !.host.outcome_reported = TRUE])
    BY ONLY <1>1, r = report_outcome(h, t, u) DEF report_outcome
  <2>3. then(x, LAMBDA s : native(s, outcome(s.process), t)) = y
    BY <1>1 DEF then
  <2>4. outcome(y.process) = k
    BY <1>1, <1>7
  <2> QED BY ONLY <1>2, <2>2, <2>3, <2>4 DEF then
<1>10. PICK f : f = [z.host EXCEPT !.outcome_reported = TRUE]
  OBVIOUS
<1>11. /\ f \in Flags /\ f.initialized = z.host.initialized
       /\ f.stop_reported = z.host.stop_reported
       /\ f.evidence_error = z.host.evidence_error /\ f.outcome_reported
  BY <1>8, <1>10, BaseHas DEF Flags, Resolved
<1>12. r = [z EXCEPT !.host = f]
  BY <1>9, <1>10
<1>13. Base(r, u) /\ Reflagged(r, z, f)
  BY <1>8, <1>11, <1>12, FlagsSet DEF Resolved
<1>14. Running(r)
  BY <1>8, <1>11, <1>13 DEF Resolved, Running, Reflagged, Addressed
<1>15. /\ SameCourse(r.process, h.process)
       /\ r.gate.receipt.outcome = k /\ has_resolved_effects(r.gate.receipt)
       /\ r.gate.receipt.evidence["started"] = h.gate.receipt.evidence["started"]
  <2>1. SameCourse(z.process, x.process)
    BY <1>7, <1>8 DEF Resolved
  <2>2. SameCourse(r.process, h.process)
    BY <1>4, <1>13, <2>1 DEF Reflagged, SameCourse
  <2>3. r.gate.receipt.outcome = k /\ has_resolved_effects(r.gate.receipt)
    BY <1>8, <1>13 DEF Resolved, Reflagged
  <2>4. r.gate.receipt.evidence["started"] = h.gate.receipt.evidence["started"]
    BY <1>3, <1>7, <1>8, <1>13 DEF Resolved, Reflagged
  <2> QED BY <2>2, <2>3, <2>4
<1>16. Agrees(r.gate.receipt, r.process)
  BY <1>4, <1>5, <1>15 DEF Agrees, SameCourse
<1>17. r.sequence <= h.sequence + 2
  BY <1>4, <1>7, <1>8, <1>13, BaseHas DEF Resolved, Reflagged
<1>18. Ended(r)
  BY <1>11, <1>13, <1>14, <1>15, <1>16 DEF Ended, SameCourse, Reflagged
<1> QED BY <1>13, <1>17, <1>18

\* The channels are closed, unless that fails.
LEMMA ClosesChannels ==
  ASSUME NEW h, NEW t, Base(h, t), Ended(h), NEW fails \in BOOLEAN,
         NEW r, r = close_channels(h, fails)
  PROVE  /\ Base(r, t) /\ r.gate = h.gate /\ r.host = h.host /\ r.sequence = h.sequence
         /\ Agrees(r.gate.receipt, r.process)
         /\ ~r.process.channels_closed => Ended(r)
<1>1. Has(h) /\ h \in HostRecord
  BY HostHas
<1>2. /\ Has(r) /\ Beside(r, h) /\ SameFrames(r, h)
      /\ SameOwnership(r.process, h.process) /\ r.child = h.child
      /\ r.process.stop_requested_at = h.process.stop_requested_at
      /\ ~can_close(h.process) => r = h
      /\ can_close(h.process) => r.process.channels_closed = ~fails
  BY <1>1, CloseChannelsEffect
<1>3. r \in HostRecord
  BY <1>1, <1>2 DEF HostRecord, Has, Beside, close_channels
<1>4. r.gate = h.gate /\ r.host = h.host /\ r.sequence = h.sequence
  BY <1>1, <1>2 DEF HostRecord, Beside
<1>5. /\ r.process.launched = h.process.launched
      /\ r.process.exit_status = h.process.exit_status
      /\ r.process.event_eof = h.process.event_eof
      /\ r.process.is_owned = h.process.is_owned
      /\ r.process.started = h.process.started
  BY <1>2 DEF SameFrames, SameRecord, SameOwnership
<1>6. h.process.event_eof /\ h.process.exit_status # {}
  BY DEF Ended
<1>7. Lived(r.process, r.child)
  <2>1. Lived(h.process, h.child)
    BY DEF Base
  <2> QED BY <1>2, <1>5, <1>6, <2>1 DEF Lived
<1>8. Base(r, t)
  BY <1>3, <1>4, <1>7, BaseIf
<1>9. Agrees(r.gate.receipt, r.process)
  BY <1>4, <1>5 DEF Ended, Agrees
<1>10. ~r.process.channels_closed => Ended(r)
  BY <1>2, <1>4, <1>5, <1>9 DEF Ended, Running, Addressed, stop_requested
<1> QED BY <1>4, <1>8, <1>9, <1>10

LEMMA ClosesAndSettles ==
  ASSUME NEW h, NEW t, Base(h, t), h.sequence <= 10, Ended(h), NEW fails \in BOOLEAN,
         NEW r, r = close_and_settle(h, t, fails)
  PROVE  Base(r, t) /\ (Ended(r) \/ Closed(r)) /\ r.sequence <= h.sequence + 1
<1>1. PICK x : x = close_channels(h, fails)
  OBVIOUS
<1>2. /\ Base(x, t) /\ x.gate = h.gate /\ x.host = h.host /\ x.sequence = h.sequence
      /\ Agrees(x.gate.receipt, x.process)
      /\ ~x.process.channels_closed => Ended(x)
  BY <1>1, ClosesChannels
<1>3. r = IF /\ x.process.channels_closed
             /\ ~x.host.evidence_error /\ x.gate.receipt.settlement = "pending"
            THEN settle(x, t) ELSE x
  BY ONLY <1>1, r = close_and_settle(h, t, fails) DEF close_and_settle, then
<1>4. h.sequence \in Nat
  BY BaseHas
<1>5. CASE ~x.process.channels_closed
  BY <1>2, <1>3, <1>4, <1>5
<1>6. CASE x.process.channels_closed
  <2>1. PICK z : z = x.gate.receipt
    OBVIOUS
  <2>2. /\ ~x.host.evidence_error /\ z.settlement = "pending" /\ Addressed(x)
        /\ has_resolved_effects(z) /\ z.dispatch = "submitted" /\ has_receipt(x.gate)
    BY <1>2, <2>1 DEF Ended, Running, Addressed
  <2>3. z.output # "pending"
    BY <2>2 DEF has_resolved_effects
  <2>4. r = settle(x, t) /\ x.sequence <= 10
    BY <1>2, <1>3, <1>6, <2>1, <2>2
  <2>5. /\ Base(r, t) /\ Told(r, x, t, "settlement")
        /\ r.gate.receipt.settlement = "settled"
        /\ r.gate.receipt.dispatch = z.dispatch
        /\ r.gate.receipt.acceptance = z.acceptance
        /\ r.gate.receipt.outcome = z.outcome
        /\ r.gate.receipt.output = z.output /\ r.gate.receipt.reason = z.reason
    BY ONLY <1>2, <2>1, <2>2, <2>3, <2>4, SettledTold
  <2>6. /\ r.process = x.process /\ r.host = x.host /\ r.sequence = x.sequence + 1
        /\ has_receipt(r.gate)
    BY <2>2, <2>5 DEF Told, Reported, OnlyReported, SameSubject, has_receipt
  <2>7. has_resolved_effects(r.gate.receipt)
    BY <2>2, <2>5 DEF has_resolved_effects
  <2>8. Closed(r)
    BY <1>2, <1>6, <2>1, <2>2, <2>5, <2>6, <2>7 DEF Closed, Agrees
  <2> QED BY <1>2, <1>4, <2>5, <2>6, <2>8
<1> QED BY <1>5, <1>6

LEMMA Finishes ==
  ASSUME NEW h, NEW t, Base(h, t), h.sequence <= 8, Pending(h) \/ Ended(h),
         h.process.started => h.gate.receipt.evidence["started"] # {},
         NEW u \in 0..LastTime, t <= u, NEW fails \in BOOLEAN,
         NEW r, r = finish(h, t, u, fails)
  PROVE  Base(r, u) /\ Operation(r)
<1>1. Base(h, u)
  BY BaseLater
<1>2. PICK p : p = h.process
  OBVIOUS
<1>3. CASE p.exit_status = {} \/ ~p.event_eof \/ p.ownership_lost
  BY <1>1, <1>2, <1>3 DEF finish, Operation
<1>4. CASE ~(p.exit_status = {} \/ ~p.event_eof \/ p.ownership_lost)
  <2>1. PICK x : x = IF h.host.outcome_reported THEN h ELSE report_outcome(h, t, u)
    OBVIOUS
  <2>2. r = close_and_settle(x, u, fails)
    BY ONLY <1>2, <1>4, <2>1, r = finish(h, t, u, fails) DEF finish, then
  <2>3. h.sequence \in Nat
    BY BaseHas
  <2>4. Base(x, u) /\ Ended(x) /\ x.sequence <= h.sequence + 2
    <3>1. CASE h.host.outcome_reported
      BY <1>1, <2>1, <2>3, <3>1 DEF Pending
    <3>2. CASE ~h.host.outcome_reported
      <4>1. Pending(h) /\ h.process.event_eof /\ h.process.exit_status # {}
            /\ x = report_outcome(h, t, u) /\ h.sequence <= 9
        BY <1>2, <1>4, <2>1, <2>3, <3>2 DEF Ended
      <4> QED BY <4>1, ReportsOutcome
    <3> QED BY <3>1, <3>2
  <2>5. x.sequence <= 10
    BY <2>3, <2>4, BaseHas
  <2> QED BY <2>2, <2>4, <2>5, ClosesAndSettles DEF Operation
<1> QED BY <1>3, <1>4

\* The frames are read: an operation stays where it was.
LEMMA BeginsPoll ==
  ASSUME NEW h, NEW t, Base(h, t), Operation(h), NEW fails \in BOOLEAN,
         NEW r, r = begin_poll(h, fails)
  PROVE  Base(r, t) /\ Operation(r) /\ r.host = h.host
<1>1. CASE ~polls(h.process)
  BY <1>1 DEF begin_poll
<1>2. CASE polls(h.process)
  <2>1. Has(h) /\ h \in HostRecord /\ r = drain_events(h, fails)
    BY <1>2, HostHas DEF begin_poll
  <2>2. /\ Has(r) /\ Beside(r, h) /\ SameOwnership(r.process, h.process)
        /\ r.process.stop_requested_at = h.process.stop_requested_at
        /\ r.process.channels_closed = h.process.channels_closed
        /\ r.process.channel_cleanup_unknown = h.process.channel_cleanup_unknown
        /\ h.process.event_eof => r = h
        /\ r.child = [h.child EXCEPT !.pipe = r.child.pipe]
        /\ Drained(r, h)
    BY <2>1, DrainEffect
  <2>3. r \in HostRecord
    BY <2>1, <2>2 DEF HostRecord, Has, Beside, drain_events
  <2>4. r.gate = h.gate /\ r.host = h.host /\ r.sequence = h.sequence
    BY <2>1, <2>2 DEF HostRecord, Beside
  <2>5. /\ r.child.status = h.child.status /\ r.child.exit = h.child.exit
        /\ r.child.at = h.child.at /\ r.child.completed = h.child.completed
        /\ r.child.dropped = h.child.dropped
    BY <2>1, <2>2 DEF Has, ChildRecord
  <2>6. r.process.event_eof /\ ~h.process.event_eof
          => r.child.pipe = <<>> /\ r.child.status # "alive"
    <3>1. HAVE r.process.event_eof /\ ~h.process.event_eof
    <3>2. PICK k \in 0..Len(h.child.pipe) :
            /\ r.child.pipe = SubSeq(h.child.pipe, k + 1, Len(h.child.pipe))
            /\ k = Len(h.child.pipe) /\ h.child.status # "alive"
      BY <2>2, <3>1 DEF Drained
    <3>3. h.child.pipe \in Seq(Frame)
      BY <2>1 DEF Has, ChildRecord
    <3> QED BY <2>5, <3>2, <3>3
  <2>7. h.process.launched /\ ~h.process.channels_closed
    BY <1>2 DEF polls
  <2>8. Lived(h.process, h.child)
    BY DEF Base
  <2>9. Lived(r.process, r.child)
    <3>1. CASE h.process.event_eof
      BY <2>2, <2>8, <3>1
    <3>2. CASE ~h.process.event_eof
      BY <2>2, <2>5, <2>6, <2>7, <2>8, <3>2 DEF Lived, SameOwnership, Paced
    <3> QED BY <3>1, <3>2
  <2>10. Base(r, t)
    BY <2>3, <2>4, <2>9, BaseIf
  <2>11. Pending(h) \/ Ended(h)
    BY <2>7 DEF Operation, Nothing, Prepared, Closed, Failed, new_process
  <2>12. Pending(h) => Pending(r)
    BY <2>2, <2>4 DEF Pending, Running, Addressed, SameOwnership, stop_requested
  <2>13. Ended(h) => Ended(r)
    BY <2>2 DEF Ended
  <2> QED BY <2>4, <2>10, <2>11, <2>12, <2>13 DEF Operation
<1> QED BY <1>1, <1>2

\* The child is waited for, and killed when it is due.
LEMMA FinishesPoll ==
  ASSUME NEW h, NEW t, Base(h, t), NEW r, r = finish_poll(h, t, FALSE)
  PROVE  /\ Base(r, t) /\ r.sequence = h.sequence
         /\ Pending(h) => Pending(r)
         /\ Ended(h) => Ended(r)
<1>1. Has(h) /\ h \in HostRecord /\ t \in Int
  BY HostHas
<1>2. /\ Has(r) /\ Beside(r, h) /\ SameFrames(r, h) /\ SameStop(r, h)
      /\ ~polls(h.process) => r = h
      /\ polls(h.process) => Collected(r, h)
  BY <1>1, FinishPollEffect
<1>3. CASE ~polls(h.process)
  BY <1>2, <1>3
<1>4. CASE polls(h.process)
  <2>1. r \in HostRecord
    <3>1. PICK c : c = collect_exit(h)
      OBVIOUS
    <3>2. Has(c) /\ Beside(c, h)
      BY <1>1, <3>1, CollectEffect
    <3>3. c \in HostRecord
      BY <1>1, <3>1, <3>2 DEF HostRecord, Has, Beside, collect_exit
    <3>4. PICK due : due = should_terminate(c.process, t)
      OBVIOUS
    <3>5. PICK d : d = [c EXCEPT !.process.termination_pending = due]
      OBVIOUS
    <3>6. r = request_termination_once(d, FALSE)
      BY <1>4, <3>1, <3>4, <3>5 DEF finish_poll
    <3>7. due \in BOOLEAN
      BY <3>4 DEF should_terminate
    <3>8. d \in HostRecord
      BY <3>3, <3>5, <3>7 DEF HostRecord, ProcessRecord
    <3> QED BY <1>1, <1>2, <3>6, <3>8
            DEF HostRecord, Has, Beside, request_termination_once
  <2>2. r.gate = h.gate /\ r.host = h.host /\ r.sequence = h.sequence
    BY <1>1, <1>2 DEF HostRecord, Beside
  <2>3. Collected(r, h) /\ ~h.process.channels_closed
    BY <1>2, <1>4 DEF polls
  <2>4. Lived(h.process, h.child)
    BY DEF Base
  <2>5. h.process.exit_status # {} => r.process.exit_status = h.process.exit_status
    BY <2>3 DEF Collected
  <2>6. Lived(r.process, r.child)
    <3>1. /\ r.process.event_eof = h.process.event_eof /\ r.child.pipe = h.child.pipe
          /\ r.process.launched = h.process.launched /\ r.child.exit = h.child.exit
          /\ ~r.process.channels_closed
          /\ Paced(h.child) => Paced(r.child)
      BY <1>2, <2>3 DEF SameFrames, SameStop, Paced
    <3>2. h.child.status # "absent"
      BY <1>4, <2>4 DEF Lived, polls
    <3>3. CASE r.child.status = h.child.status /\ r.process.is_owned = h.process.is_owned
               /\ r.process.exit_status = h.process.exit_status
      BY <2>4, <3>1, <3>2, <3>3 DEF Lived
    <3>4. CASE /\ h.child.status = "exited" /\ ~r.process.is_owned
               /\ r.process.exit_status = h.child.exit /\ r.child.status = "reaped"
      BY <2>4, <3>1, <3>2, <3>4 DEF Lived
    <3>5. CASE /\ h.child.status = "stolen" /\ ~r.process.is_owned
               /\ r.process.exit_status = {} /\ r.child.status = "stolen"
      BY <2>4, <3>1, <3>2, <3>5 DEF Lived
    <3> QED BY <2>3, <3>3, <3>4, <3>5 DEF Collected
  <2>7. Base(r, t)
    BY <2>1, <2>2, <2>6, BaseIf
  <2>8. Running(h) => Running(r)
    BY <1>2, <2>2 DEF Running, Addressed, SameStop, stop_requested
  <2>9. Pending(h) => Pending(r)
    BY <2>2, <2>8 DEF Pending
  <2>10. Ended(h) => Ended(r)
    BY <1>2, <2>2, <2>5, <2>8 DEF Ended, SameFrames, SameRecord, Agrees
  <2> QED BY <2>2, <2>7, <2>9, <2>10
<1> QED BY <1>3, <1>4

\* How the shutdown stands.
LEMMA UpdatesShutdown ==
  ASSUME NEW h, NEW t, Base(h, t), Operation(h), NEW r, r = update_shutdown_status(h)
  PROVE  Base(r, t) /\ Operation(r)
<1>1. CASE r = h
  BY <1>1
<1>2. ASSUME NEW s \in ShutdownStatus, r = [h EXCEPT !.host.shutdown = s]
      PROVE  Base(r, t) /\ Operation(r)
  <2>1. PICK f : f = [h.host EXCEPT !.shutdown = s]
    OBVIOUS
  <2>2. /\ f \in Flags /\ f.initialized = h.host.initialized
        /\ f.stop_reported = h.host.stop_reported
        /\ f.outcome_reported = h.host.outcome_reported
        /\ f.evidence_error = h.host.evidence_error
    BY <2>1, BaseHas DEF Flags
  <2>3. Base(r, t) /\ Reflagged(r, h, f)
    <3>1. r = [h EXCEPT !.host = f]
      BY <1>2, <2>1
    <3> QED BY <2>2, <3>1, FlagsSet
  <2>4. Stays(r, h)
    BY <2>2, <2>3 DEF Reflagged, Stays, Nothing, Prepared, Pending, Ended, Running, Closed,
       Failed, Addressed
  <2> QED BY <2>3, <2>4, StaysOperation
<1>3. \/ r = h
      \/ \E s \in ShutdownStatus : r = [h EXCEPT !.host.shutdown = s]
  BY DEF update_shutdown_status, ShutdownStatus
<1> QED BY <1>1, <1>2, <1>3

\* Only a running operation has a process to observe.
LEMMA ObservedRuns ==
  ASSUME NEW h, Operation(h), observes(h)
  PROVE  Pending(h) \/ Ended(h)
BY DEF observes, Operation, Nothing, Prepared, Closed, Failed, new_process

\* What the calls of the second half of a poll make of each other.
FinishingPoll(h, t, u, fails, x, y, z, w) ==
  /\ x = finish_poll(h, t, FALSE)
  /\ y = IF x.process.malformed \/ x.process.io_error \/ x.process.ownership_lost
           THEN cancel(x, t) ELSE x
  /\ z = observe_process_events(y, t)
  /\ w = IF ~observes(h) THEN h ELSE finish(z, t, u, fails)

LEMMA PollFinishedIs ==
  ASSUME NEW h, NEW t, NEW u, NEW fails, NEW x, NEW y, NEW z, NEW w,
         FinishingPoll(h, t, u, fails, x, y, z, w), NEW r, r = poll_finished(h, t, u, fails)
  PROVE  r = update_shutdown_status(w)
<1>1. then(h, LAMBDA s : finish_poll(s, t, FALSE)) = x
  BY DEF then, FinishingPoll
<1>2. then(then(then(x,
        LAMBDA s : IF s.process.malformed \/ s.process.io_error \/ s.process.ownership_lost
                     THEN cancel(s, t) ELSE s),
        LAMBDA s : observe_process_events(s, t)),
        LAMBDA s : finish(s, t, u, fails)) = finish(z, t, u, fails)
  BY DEF then, FinishingPoll
<1>3. then(then(then(finish_poll(h, t, FALSE),
        LAMBDA s : IF s.process.malformed \/ s.process.io_error \/ s.process.ownership_lost
                     THEN cancel(s, t) ELSE s),
        LAMBDA s : observe_process_events(s, t)),
        LAMBDA s : finish(s, t, u, fails)) = finish(z, t, u, fails)
  BY <1>2 DEF FinishingPoll
<1>4. r = then(IF ~observes(h) THEN h
               ELSE then(then(then(finish_poll(h, t, FALSE),
        LAMBDA s : IF s.process.malformed \/ s.process.io_error \/ s.process.ownership_lost
                     THEN cancel(s, t) ELSE s),
        LAMBDA s : observe_process_events(s, t)),
        LAMBDA s : finish(s, t, u, fails)),
        LAMBDA s : update_shutdown_status(s))
  BY ONLY r = poll_finished(h, t, u, fails) DEF poll_finished
<1>5. r = then(w, LAMBDA s : update_shutdown_status(s))
  BY <1>3, <1>4 DEF FinishingPoll
<1> QED BY <1>5 DEF then

\* The second half of a poll.
LEMMA PollFinished ==
  ASSUME NEW h, NEW t, Base(h, t), Operation(h), h.sequence <= 2,
         NEW u \in 0..LastTime, t <= u, NEW fails \in BOOLEAN,
         NEW r, r = poll_finished(h, t, u, fails)
  PROVE  Base(r, u) /\ Operation(r)
<1>1. PICK x, y, z :
        /\ x = finish_poll(h, t, FALSE)
        /\ y = IF x.process.malformed \/ x.process.io_error \/ x.process.ownership_lost
                 THEN cancel(x, t) ELSE x
        /\ z = observe_process_events(y, t)
  OBVIOUS
<1>2. PICK w : w = IF ~observes(h) THEN h ELSE finish(z, t, u, fails)
  OBVIOUS
<1>3. r = update_shutdown_status(w)
  <2>1. FinishingPoll(h, t, u, fails, x, y, z, w)
    BY ONLY <1>1, <1>2 DEF FinishingPoll
  <2> QED BY <2>1, PollFinishedIs
<1>4. Base(w, u) /\ Operation(w)
  <2>1. CASE ~observes(h)
    BY <1>2, <2>1, BaseLater
  <2>2. CASE observes(h)
    <3>1. Pending(h) \/ Ended(h)
      BY <2>2, ObservedRuns
    <3>2. Base(x, t) /\ x.sequence = h.sequence /\ (Pending(x) \/ Ended(x))
          /\ h.sequence \in Nat /\ x.sequence <= 8
      <4>1. /\ Base(x, t) /\ x.sequence = h.sequence
            /\ Pending(h) => Pending(x)
            /\ Ended(h) => Ended(x)
        BY ONLY Base(h, t), <1>1, FinishesPoll
      <4>2. h.sequence \in Nat
        BY BaseHas
      <4> QED BY <3>1, <4>1, <4>2
    <3>3. Base(y, t) /\ y.sequence <= x.sequence + 3 /\ (Pending(y) \/ Ended(y))
      <4>1. CASE y = cancel(x, t)
        <5>1. Controlled(y, x, t, 3)
          BY <3>2, <4>1, Cancels DEF Operation
        <5>2. ~Prepared(x)
          BY <3>2, PreparedAlone
        <5> QED BY <3>2, <5>1, <5>2 DEF Controlled, Stays
      <4>2. CASE y = x
        BY <3>2, <4>2
      <4> QED BY <1>1, <4>1, <4>2
    <3>4. y.sequence \in Nat /\ y.sequence <= 5
      BY <3>2, <3>3, BaseHas
    <3>5. /\ Base(z, t) /\ z.sequence <= y.sequence + 2
          /\ Pending(z) \/ Ended(z)
          /\ z.process.started => z.gate.receipt.evidence["started"] # {}
      <4>1. y.sequence <= 8 /\ z = observe_process_events(y, t)
        <5>1. y.sequence <= 8
          BY ONLY <3>4
        <5> QED BY <1>1, <5>1
      <4>2. /\ Base(z, t) /\ z.sequence <= y.sequence + 2 /\ z.process = y.process
            /\ Pending(y) => Pending(z)
            /\ Ended(y) => Ended(z)
            /\ z.process.started => z.gate.receipt.evidence["started"] # {}
        BY ONLY <3>3, <4>1, ObservesEvents
      <4> QED BY <3>3, <4>2
    <3>6. z.sequence <= 8 /\ w = finish(z, t, u, fails)
      BY <1>2, <2>2, <3>4, <3>5, BaseHas
    <3> QED BY <3>5, <3>6, Finishes
  <2> QED BY <2>1, <2>2
<1> QED BY <1>3, <1>4, UpdatesShutdown

\* An operation that was revoked before it was dispatched.
RevokedEarly(h) ==
  /\ ~h.host.has_process /\ is_undispatched(h)
  /\ h.gate.receipt.disposition = "revoked"

\* What the calls of the first half of a poll make of each other.
BeginningPoll(h, t, fails, a, b, c, d) ==
  /\ a = IF h.host.shutdown = "open" /\ h.host.initialized
           THEN observe_capabilities(h, t) ELSE h
  /\ b = expire(a, t)
  /\ c = IF RevokedEarly(b) THEN settle_unsubmitted(b, t, TRUE) ELSE b
  /\ d = IF unsupported(c, t)
           THEN withdraw_host_binding(c, c.gate.binding, t) ELSE c

LEMMA PollBegunIs ==
  ASSUME NEW h, NEW t, NEW fails, NEW a, NEW b, NEW c, NEW d,
         BeginningPoll(h, t, fails, a, b, c, d), NEW r, r = poll_begun(h, t, fails)
  PROVE  r = IF observes(c) THEN begin_poll(d, fails) ELSE c
<1>1. r = then(then(then(a, LAMBDA x : expire(x, t)),
            LAMBDA x : IF RevokedEarly(x)
                         THEN settle_unsubmitted(x, t, TRUE) ELSE x),
            LAMBDA x : IF observes(x)
                         THEN then(IF unsupported(x, t)
                                     THEN withdraw_host_binding(x, x.gate.binding, t)
                                     ELSE x, LAMBDA y : begin_poll(y, fails))
                         ELSE x)
  BY ONLY BeginningPoll(h, t, fails, a, b, c, d), r = poll_begun(h, t, fails) DEF poll_begun, RevokedEarly,
       BeginningPoll
<1>2. then(a, LAMBDA x : expire(x, t)) = b
  BY DEF then, BeginningPoll
<1>3. then(b, LAMBDA x : IF RevokedEarly(x)
                         THEN settle_unsubmitted(x, t, TRUE) ELSE x) = c
  <2>1. then(b, LAMBDA x : IF RevokedEarly(x)
                         THEN settle_unsubmitted(x, t, TRUE) ELSE x)
          = IF RevokedEarly(b)
                   THEN settle_unsubmitted(b, t, TRUE) ELSE b
    BY ONLY TRUE DEF then
  <2> QED BY <2>1 DEF BeginningPoll
<1>4. then(d, LAMBDA y : begin_poll(y, fails)) = begin_poll(d, fails)
  BY DEF then
<1>5. then(IF unsupported(c, t) THEN withdraw_host_binding(c, c.gate.binding, t) ELSE c,
           LAMBDA y : begin_poll(y, fails)) = begin_poll(d, fails)
  BY <1>4 DEF BeginningPoll
<1>6. r = then(c, LAMBDA x : IF observes(x)
                         THEN then(IF unsupported(x, t)
                                     THEN withdraw_host_binding(x, x.gate.binding, t)
                                     ELSE x, LAMBDA y : begin_poll(y, fails))
                         ELSE x)
  BY ONLY <1>1, <1>2, <1>3
<1>7. r = IF observes(c)
            THEN then(IF unsupported(c, t)
                        THEN withdraw_host_binding(c, c.gate.binding, t)
                        ELSE c, LAMBDA y : begin_poll(y, fails))
            ELSE c
  BY ONLY <1>6 DEF then
<1> QED BY ONLY <1>5, <1>7

\* The first half of a poll.
LEMMA PollBegun ==
  ASSUME NEW h, NEW t, Base(h, t), Operation(h), launchable \in BOOLEAN,
         h.sequence <= 1 \/ (h.sequence <= 5 /\ h.host.shutdown # "open"),
         NEW fails \in BOOLEAN, NEW r, r = poll_begun(h, t, fails)
  PROVE  Base(r, t) /\ Operation(r)
<1>1. PICK a : a = IF h.host.shutdown = "open" /\ h.host.initialized
                     THEN observe_capabilities(h, t) ELSE h
  OBVIOUS
<1>2. PICK b : b = expire(a, t)
  OBVIOUS
<1>3. PICK c : c = IF RevokedEarly(b)
                     THEN settle_unsubmitted(b, t, TRUE) ELSE b
  OBVIOUS
<1>4. PICK d : d = IF unsupported(c, t)
                     THEN withdraw_host_binding(c, c.gate.binding, t) ELSE c
  OBVIOUS
<1>5. r = IF observes(c) THEN begin_poll(d, fails) ELSE c
  <2>1. BeginningPoll(h, t, fails, a, b, c, d)
    BY ONLY <1>1, <1>2, <1>3, <1>4 DEF BeginningPoll
  <2> QED BY <2>1, PollBegunIs
<1>6. h.sequence \in Nat /\ h.sequence <= 7
  BY BaseHas
<1>7. Base(a, t) /\ Operation(a) /\ a.sequence <= 5 /\ a.sequence \in Nat
  <2>1. CASE h.host.shutdown = "open" /\ h.host.initialized
    <3>1. Controlled(a, h, t, 4) /\ h.sequence <= 1
      BY <1>1, <1>6, <2>1, ObservesCapabilities
    <3> QED BY <1>6, <3>1, ControlledIs, BaseHas DEF Controlled
  <2>2. CASE ~(h.host.shutdown = "open" /\ h.host.initialized)
    BY <1>1, <1>6, <2>2
  <2> QED BY <2>1, <2>2
<1>8. Base(b, t) /\ Operation(b) /\ b.sequence <= 5 /\ b.sequence \in Nat
  <2>1. Controlled(b, a, t, 0)
    BY <1>2, <1>7, Expires
  <2> QED BY <1>7, <2>1, ControlledIs, BaseHas DEF Controlled
<1>9. Base(c, t) /\ Operation(c) /\ c.sequence <= 8 /\ c.sequence \in Nat
  <2>1. CASE c = b
    BY <1>8, <2>1
  <2>2. CASE c = settle_unsubmitted(b, t, TRUE) /\ is_undispatched(b)
    <3>1. Prepared(b) /\ b.sequence <= 8
      BY <1>8, <2>2, UndispatchedIs
    <3>2. Controlled(c, b, t, 3)
      BY <1>8, <2>2, <3>1, SettlesPrepared
    <3> QED BY <1>8, <3>2, ControlledIs, BaseHas DEF Controlled
  <2> QED BY <1>3, <2>1, <2>2 DEF RevokedEarly
<1>10. Base(d, t) /\ Operation(d)
  <2>1. CASE d = c
    BY <1>9, <2>1
  <2>2. CASE d = withdraw_host_binding(c, c.gate.binding, t)
    <3>1. Controlled(d, c, t, 3)
      BY <1>9, <2>2, WithdrawsBinding
    <3> QED BY <1>9, <3>1, ControlledIs DEF Controlled
  <2> QED BY <1>4, <2>1, <2>2
<1>11. CASE observes(c)
  BY <1>5, <1>10, <1>11, BeginsPoll
<1>12. CASE ~observes(c)
  BY <1>5, <1>9, <1>12
<1> QED BY <1>11, <1>12

-----------------------------------------------------------------------------
(* Dispatch *)

\* The gate allows the launch.
Claimed(y, x) ==
  /\ Addressed(y) /\ Untold(y.gate.receipt) /\ y.gate.receipt.dispatch = "submitted"
  /\ y.gate.receipt.dispatched_at # {} /\ y.gate.phase = "active"
  /\ y.process = new_process /\ y.child = no_child
  /\ ~y.host.stop_reported /\ ~y.host.outcome_reported /\ ~y.host.evidence_error
  /\ y.sequence = x.sequence

LEMMA ClaimIs ==
  ASSUME NEW x, NEW t, Base(x, t), Prepared(x), NEW a, a = authority(x),
         claims_dispatch(x.gate, a, t), NEW y,
         y = [x EXCEPT !.gate = claim_dispatch(@, a, t), !.host.has_process = TRUE]
  PROVE  Base(y, t) /\ Claimed(y, x)
<1>1. PICK g, z, q, s, r : /\ g = x.gate /\ z = g.receipt /\ s = {t}
                           /\ q = claim_dispatch(g, a, t)
                           /\ r = [z EXCEPT !.dispatch = "submitted", !.dispatched_at = s]
  OBVIOUS
<1>2. /\ g \in Gate /\ z \in Receipt /\ t \in Time /\ GateOK(g, t) /\ x \in HostRecord
      /\ x.host \in Flags /\ s # {}
  BY <1>1, BaseHas DEF Base
<1>3. s \in Optional(Time)
  BY <1>1, <1>2, OptionalSome
<1>4. q = [g EXCEPT !.receipt = r]
  BY <1>1, <1>2 DEF claim_dispatch, Gate
<1>5. q \in Gate
  BY <1>1, <1>2, DispatchType
<1>6. OnlyReported(q, g, t)
  BY <1>1, <1>2, DispatchClaim
<1>7. /\ q.receipt = r /\ q.phase = g.phase /\ q.binding = g.binding
      /\ q.facts = g.facts /\ q.capabilities = g.capabilities
      /\ q.last_native = g.last_native /\ q.init = g.init /\ q.candidate = g.candidate
  BY <1>2, <1>4 DEF Gate
<1>8. /\ r.dispatch = "submitted" /\ r.dispatched_at = s /\ r.evidence = z.evidence
      /\ r.acceptance = z.acceptance /\ r.outcome = z.outcome /\ r.output = z.output
      /\ r.settlement = z.settlement /\ r.native_identity = z.native_identity
      /\ r.authority = z.authority /\ r.disposition = z.disposition
      /\ revocations(r) = revocations(z) /\ r.stop_requested_at = z.stop_requested_at
  BY <1>1, <1>2 DEF Receipt, revocations
<1>9. PICK f : f = [x.host EXCEPT !.has_process = TRUE]
  OBVIOUS
<1>10. /\ f \in Flags /\ f.initialized = x.host.initialized
       /\ f.stop_reported = x.host.stop_reported
       /\ f.outcome_reported = x.host.outcome_reported
       /\ f.evidence_error = x.host.evidence_error
  BY <1>2, <1>9 DEF Flags
<1>11. y = [x EXCEPT !.gate = q, !.host = f]
  BY <1>1, <1>9
<1>12. /\ y \in HostRecord /\ y.gate = q /\ y.host = f /\ y.process = x.process
       /\ y.child = x.child /\ y.sequence = x.sequence
  BY <1>2, <1>5, <1>10, <1>11 DEF HostRecord
<1>13. /\ Addressed(x) /\ Untold(z) /\ x.process = new_process /\ x.child = no_child
       /\ ~x.host.stop_reported /\ ~x.host.outcome_reported /\ ~x.host.evidence_error
  BY <1>1 DEF Prepared
<1>14. g.phase = "active"
  BY <1>1 DEF claims_dispatch
<1>15. Untold(r)
  BY <1>8, <1>13 DEF Untold
<1>16. Fresh(r)
  <2>1. Fresh(z)
    BY <1>1 DEF Base
  <2> QED BY <1>8, <1>13, <2>1
          DEF Fresh, authority_disposition, has_resolved_closure, is_revoked, Untold
<1>17. Base(y, t)
  <2>1. Held(q, y.sequence, t)
    BY <1>1, <1>7, <1>8, <1>12 DEF Base, Held
  <2>2. GateOK(q, t) /\ Phases(q)
    BY <1>1, <1>6, <1>7 DEF OnlyReported, Base, Phases, has_candidate
  <2>3. Lived(y.process, y.child)
    BY <1>12 DEF Base
  <2>4. q.init = "ready" \/ has_receipt(q) => y.host.initialized
    <3>1. (g.init = "ready" \/ has_receipt(g)) => x.host.initialized
      BY <1>1 DEF Base
    <3>2. has_receipt(q) <=> has_receipt(g)
      BY <1>1, <1>7, <1>8 DEF has_receipt
    <3> QED BY <1>7, <1>10, <1>12, <3>1, <3>2
  <2> QED BY <1>7, <1>12, <1>16, <2>1, <2>2, <2>3, <2>4 DEF Base
<1>18. Addressed(y)
  <2>1. has_receipt(g) /\ z.authority.binding = g.binding
    BY <1>1, <1>13 DEF Addressed
  <2>2. q.receipt.authority = z.authority /\ q.binding = g.binding
    BY <1>7, <1>8
  <2> QED BY <1>1, <1>12, <2>1, <2>2 DEF Addressed, has_receipt
<1> QED BY <1>2, <1>7, <1>8, <1>10, <1>12, <1>13, <1>14, <1>15, <1>17, <1>18 DEF Claimed

\* A launch of a process that was not launched before.
Launched(z, y, spawned, unclean) ==
  /\ z.gate = y.gate /\ z.host = y.host /\ z.sequence = y.sequence
  /\ z.process.stop_requested_at = {} /\ z.process.exit_status = {}
  /\ z.process.launched = spawned /\ ~z.process.channels_closed
  /\ z.process.io_error = unclean /\ z.process.channel_cleanup_unknown = unclean

LEMMA LaunchIs ==
  ASSUME NEW y, NEW t, Base(y, t), y.process = new_process, y.child = no_child,
         NEW spawned \in BOOLEAN, NEW unclean \in BOOLEAN,
         NEW z, z = launch(y, spawned, unclean)
  PROVE  Base(z, t) /\ Launched(z, y, spawned, unclean)
<1>1. y \in HostRecord /\ y.process \in ProcessRecord /\ y.child \in ChildRecord
  BY BaseHas DEF Base
<1>2. PICK p : p = IF spawned
                     THEN [y.process EXCEPT !.launched = TRUE, !.is_owned = TRUE,
                             !.is_open = TRUE, !.io_error = unclean,
                             !.channel_cleanup_unknown = unclean]
                     ELSE [y.process EXCEPT !.io_error = unclean,
                             !.channel_cleanup_unknown = unclean]
  OBVIOUS
<1>3. PICK c : c = IF spawned THEN [y.child EXCEPT !.status = "alive"] ELSE y.child
  OBVIOUS
<1>4. ~y.process.launched /\ ~stop_requested(y.process)
  BY DEF new_process, stop_requested
<1>5. z = [y EXCEPT !.process = p, !.child = c]
  BY <1>1, <1>2, <1>3, <1>4 DEF launch, HostRecord
<1>6. p \in ProcessRecord /\ c \in ChildRecord
  <2>1. p \in ProcessRecord
    <3>1. PICK o : o = y.process
      OBVIOUS
    <3>2. o \in ProcessRecord
      BY <1>1, <3>1
    <3>3. p = IF spawned
                THEN [o EXCEPT !.launched = TRUE, !.is_owned = TRUE,
                             !.is_open = TRUE, !.io_error = unclean,
                             !.channel_cleanup_unknown = unclean]
                ELSE [o EXCEPT !.io_error = unclean,
                             !.channel_cleanup_unknown = unclean]
      BY <1>2, <3>1
    <3>4. CASE spawned
      BY ONLY <3>2, <3>3, <3>4, unclean \in BOOLEAN DEF ProcessRecord
    <3>5. CASE ~spawned
      BY ONLY <3>2, <3>3, <3>5, unclean \in BOOLEAN DEF ProcessRecord
    <3> QED BY <3>4, <3>5
  <2>2. c \in ChildRecord
    <3>1. PICK o : o = y.child
      OBVIOUS
    <3>2. o \in ChildRecord
      BY <1>1, <3>1
    <3>3. c = IF spawned THEN [o EXCEPT !.status = "alive"] ELSE o
      BY <1>3, <3>1
    <3> QED BY ONLY <3>2, <3>3 DEF ChildRecord
  <2> QED BY <2>1, <2>2
<1>7. /\ z \in HostRecord /\ z.process = p /\ z.child = c /\ z.gate = y.gate
      /\ z.host = y.host /\ z.sequence = y.sequence
  BY <1>1, <1>5, <1>6 DEF HostRecord
<1>8. /\ p.launched = spawned /\ p.is_owned = spawned /\ p.exit_status = {}
      /\ ~p.event_eof /\ ~p.channels_closed /\ p.stop_requested_at = {}
      /\ p.io_error = unclean /\ p.channel_cleanup_unknown = unclean
  <2>1. PICK o : o = y.process
    OBVIOUS
  <2>2. /\ o \in ProcessRecord /\ ~o.launched /\ ~o.is_owned /\ o.exit_status = {}
        /\ ~o.event_eof /\ ~o.channels_closed /\ o.stop_requested_at = {}
    <3>1. o = new_process
      BY <2>1
    <3> QED BY <1>1, <2>1, <3>1 DEF new_process
  <2>3. p = IF spawned
              THEN [o EXCEPT !.launched = TRUE, !.is_owned = TRUE,
                             !.is_open = TRUE, !.io_error = unclean,
                             !.channel_cleanup_unknown = unclean]
              ELSE [o EXCEPT !.io_error = unclean,
                             !.channel_cleanup_unknown = unclean]
    BY <1>2, <2>1
  <2>4. CASE spawned
    BY ONLY <2>2, <2>3, <2>4, unclean \in BOOLEAN DEF ProcessRecord
  <2>5. CASE ~spawned
    BY ONLY <2>2, <2>3, <2>5, spawned \in BOOLEAN, unclean \in BOOLEAN DEF ProcessRecord
  <2> QED BY <2>4, <2>5
<1>9. /\ c.status = (IF spawned THEN "alive" ELSE "absent") /\ c.exit = {}
      /\ ~spawned => c = no_child
      /\ c.at = "start" /\ c.completed = 0 /\ c.dropped = 0
  BY <1>3 DEF no_child
<1>10. Lived(p, c)
  <2>1. Paced(c)
    BY <1>9, ProcessAssumption DEF Paced
  <2> QED BY <1>8, <1>9, <2>1 DEF Lived
<1>11. Base(z, t)
  BY <1>7, <1>10, BaseIf
<1> QED BY <1>7, <1>8, <1>11 DEF Launched

LEMMA DispatchedIs ==
  ASSUME NEW x, NEW t, Base(x, t), Prepared(x), x.sequence <= 8,
         claims_dispatch(x.gate, authority(x), t),
         NEW spawned \in BOOLEAN, NEW unclean \in BOOLEAN,
         NEW r, r = dispatched(x, t, spawned, unclean)
  PROVE  Base(r, t) /\ Operation(r)
<1>1. PICK a : a = authority(x)
  OBVIOUS
<1>2. PICK y : y = [x EXCEPT !.gate = claim_dispatch(@, a, t), !.host.has_process = TRUE]
  OBVIOUS
<1>3. PICK z : z = launch(y, spawned, unclean)
  OBVIOUS
<1>4. r = IF z.process.launched THEN native(z, "accepted", t)
          ELSE settle_unsubmitted(z, t, ~z.process.io_error)
  <2>1. r = then(y, LAMBDA u : then(launch(u, spawned, unclean), LAMBDA v :
              IF v.process.launched THEN native(v, "accepted", t)
              ELSE settle_unsubmitted(v, t, ~v.process.io_error)))
    BY ONLY <1>1, <1>2, r = dispatched(x, t, spawned, unclean) DEF dispatched
  <2>2. r = then(z, LAMBDA v :
              IF v.process.launched THEN native(v, "accepted", t)
              ELSE settle_unsubmitted(v, t, ~v.process.io_error))
    BY ONLY <1>3, <2>1 DEF then
  <2> QED BY ONLY <2>2 DEF then
<1>5. Base(y, t) /\ Claimed(y, x)
  BY <1>1, <1>2, ClaimIs
<1>6. Base(z, t) /\ Launched(z, y, spawned, unclean)
  BY <1>3, <1>5, LaunchIs DEF Claimed
<1>7. PICK w : w = z.gate.receipt
  OBVIOUS
<1>8. /\ Addressed(z) /\ Untold(w) /\ w.dispatch = "submitted" /\ w.dispatched_at # {}
      /\ z.gate.phase = "active" /\ ~z.host.stop_reported /\ ~z.host.outcome_reported
      /\ ~z.host.evidence_error /\ z.sequence = x.sequence
  BY <1>5, <1>6, <1>7 DEF Claimed, Launched, Addressed
<1>9. z.sequence <= 8 /\ z.sequence <= 10
  BY <1>6, <1>8, BaseHas
<1>10. CASE spawned
  <2>1. PICK kind : kind = "accepted"
    OBVIOUS
  <2>2. /\ kind \in {"accepted", "started"} \cup Terminal /\ kind \notin Terminal
        /\ Expects(w, kind) /\ r = native(z, kind, t) /\ z.process.launched
        /\ kind # "stop" /\ kind \in EvidenceKind
    BY <1>4, <1>6, <1>8, <1>10, <2>1
       DEF Terminal, Expects, Untold, EvidenceKind, NativeKind, Launched
  <2>3. /\ Base(r, t) /\ Told(r, z, t, kind)
        /\ r.gate.receipt.outcome = (IF kind \in Terminal THEN kind ELSE "pending")
        /\ r.gate.receipt.acceptance = "accepted"
        /\ r.gate.receipt.native_identity = {w.authority.operation_id}
        /\ r.gate.receipt.dispatch = "submitted"
        /\ r.gate.receipt.output = w.output
        /\ r.gate.receipt.settlement = w.settlement
    BY ONLY <1>6, <1>7, <1>8, <1>9, <2>2, NativeTold
  <2>4. /\ r.process = z.process /\ r.host = z.host /\ r.gate.phase = z.gate.phase
        /\ r.gate.receipt.authority = w.authority
        /\ r.gate.receipt.evidence["stop"] = w.evidence["stop"]
    BY <1>7, <2>1, <2>3
       DEF Told, Reported, OnlyReported, SameSubject, EvidenceKind
  <2>5. Addressed(r)
    BY <1>8, <2>3, ToldAddressed
  <2>6. /\ w.evidence["stop"] = {} /\ w.output = "pending" /\ w.settlement = "pending"
    BY <1>8 DEF Untold, EvidenceKind
  <2>7. r.process.launched /\ ~r.process.channels_closed /\ ~stop_requested(r.process)
    BY <1>6, <2>2, <2>4 DEF Launched, stop_requested
  <2>8. Running(r)
    BY <1>8, <2>3, <2>4, <2>5, <2>6, <2>7 DEF Running
  <2>9. Pending(r)
    BY <1>8, <2>2, <2>3, <2>4, <2>6, <2>8 DEF Pending
  <2> QED BY <2>3, <2>9 DEF Operation
<1>11. CASE ~spawned
  <2>1. PICK clean : clean = ~unclean
    OBVIOUS
  <2>2. clean \in BOOLEAN /\ r = settle_unsubmitted(z, t, clean) /\ ~z.process.launched
    BY <1>4, <1>6, <1>11, <2>1 DEF Launched
  <2>3. /\ Base(r, t) /\ Reporting(r, z, 3) /\ Unsubmitted(r, clean)
        /\ clean => r.host = z.host
    BY ONLY <1>6, <1>7, <1>8, <1>9, <2>2, SettlesUnsubmitted
  <2>4. r.process = z.process /\ ~r.process.launched
    BY <2>2, <2>3 DEF Reporting
  <2>5. CASE clean
    BY <1>8, <2>3, <2>4, <2>5 DEF Closed, Unsubmitted, Operation
  <2>6. CASE ~clean
    <3>1. r.process.channel_cleanup_unknown
      BY <1>6, <2>1, <2>4, <2>6 DEF Launched
    <3> QED BY <2>3, <2>4, <2>6, <3>1 DEF Failed, Unsubmitted, Operation
  <2> QED BY <2>5, <2>6
<1> QED BY <1>10, <1>11

\* The host does not dispatch what it has prepared.
Refuses(x, t) ==
  x.host.evidence_error \/ ~claims_dispatch(x.gate, authority(x), t)

\* What DispatchPrepared makes of a host that has looked at the executable.
Dispatching(h, t, spawned, unclean) ==
  IF ~is_undispatched(h) THEN h
  ELSE then(expire(h, t), LAMBDA x :
         IF Refuses(x, t) THEN settle_unsubmitted(x, t, TRUE)
         ELSE dispatched(x, t, spawned, unclean))

LEMMA Dispatches ==
  ASSUME NEW h, NEW t, Base(h, t), Operation(h), h.sequence <= 5,
         NEW spawned \in BOOLEAN, NEW unclean \in BOOLEAN, NEW r,
         r = Dispatching(h, t, spawned, unclean)
  PROVE  Base(r, t) /\ Operation(r)
<1>1. CASE ~is_undispatched(h)
  BY <1>1 DEF Dispatching
<1>2. CASE is_undispatched(h)
  <2>1. PICK x : x = expire(h, t)
    OBVIOUS
  <2>2. r = IF Refuses(x, t)
              THEN settle_unsubmitted(x, t, TRUE)
              ELSE dispatched(x, t, spawned, unclean)
    <3>1. r = then(expire(h, t), LAMBDA y :
                    IF Refuses(y, t)
                      THEN settle_unsubmitted(y, t, TRUE)
                      ELSE dispatched(y, t, spawned, unclean))
      BY <1>2 DEF Dispatching
    <3>2. r = then(x, LAMBDA y :
                    IF Refuses(y, t)
                      THEN settle_unsubmitted(y, t, TRUE)
                      ELSE dispatched(y, t, spawned, unclean))
      BY ONLY <2>1, <3>1
    <3> QED BY ONLY <3>2 DEF then
  <2>3. Controlled(x, h, t, 0) /\ Stays(x, h)
    BY <2>1, Expires
  <2>4. Prepared(h)
    BY <1>2, UndispatchedIs
  <2>5. Base(x, t) /\ Prepared(x) /\ x.sequence <= 8
    BY <2>3, <2>4, BaseHas DEF Controlled, Stays
  <2>6. CASE r = settle_unsubmitted(x, t, TRUE)
    <3>1. Controlled(r, x, t, 3)
      BY <2>5, <2>6, SettlesPrepared
    <3> QED BY <2>5, <3>1, ControlledIs DEF Controlled, Operation
  <2>7. CASE claims_dispatch(x.gate, authority(x), t)
             /\ r = dispatched(x, t, spawned, unclean)
    BY <2>5, <2>7, DispatchedIs
  <2> QED BY <2>2, <2>6, <2>7 DEF Refuses
<1> QED BY <1>1, <1>2

-----------------------------------------------------------------------------
(* The end of a call *)

Old(records) == {[r EXCEPT !.sequence = 1] : r \in records}
Aged(facts) == {[f EXCEPT !.record.sequence = 1] : f \in facts}

LEMMA OldIs ==
  ASSUME NEW S, S \in Optional(EvidenceRecord)
  PROVE  /\ Old(S) \in Optional(EvidenceRecord) /\ (Old(S) = {} <=> S = {})
         /\ \A x \in Old(S) : x.sequence = 1 /\ \E y \in S : x.observed_at = y.observed_at
<1>1. 1 \in Sequence
  BY ComputeHostAssumption
<1>2. ASSUME NEW y \in S
      PROVE  LET x == [y EXCEPT !.sequence = 1]
             IN  x \in EvidenceRecord /\ x.sequence = 1 /\ x.observed_at = y.observed_at
  <2>1. y \in EvidenceRecord
    BY DEF Optional
  <2> QED BY <1>1, <2>1 DEF EvidenceRecord
<1>3. Old(S) \subseteq EvidenceRecord
  BY <1>2 DEF Old
<1>4. \A x, y \in Old(S) : x = y
  BY DEF Old, Optional
<1> QED BY <1>2, <1>3, <1>4 DEF Old, Optional

\* A fact with a record, whatever else it says.
LEMMA AgedIs ==
  ASSUME NEW S, \A x, y \in S : x = y, NEW D,
         \A y \in S : /\ y.record \in EvidenceRecord /\ y = [y EXCEPT !.record = @]
                      /\ \A p \in EvidenceRecord : [y EXCEPT !.record = p] \in D
                      /\ \A p \in EvidenceRecord : [y EXCEPT !.record = p].record = p
  PROVE  /\ Aged(S) \in Optional(D) /\ (Aged(S) = {} <=> S = {})
         /\ \A x \in Aged(S) : /\ x.record.sequence = 1
                               /\ \E y \in S : x.record.observed_at = y.record.observed_at
<1>1. 1 \in Sequence
  BY ComputeHostAssumption
<1>2. ASSUME NEW y \in S
      PROVE  LET x == [y EXCEPT !.record.sequence = 1]
             IN  /\ x \in D /\ x.record.sequence = 1
                 /\ x.record.observed_at = y.record.observed_at
  <2>1. PICK p : p = [y.record EXCEPT !.sequence = 1]
    OBVIOUS
  <2>2. p \in EvidenceRecord /\ p.sequence = 1 /\ p.observed_at = y.record.observed_at
    BY <1>1, <2>1 DEF EvidenceRecord
  <2>3. [y EXCEPT !.record.sequence = 1] = [y EXCEPT !.record = p]
    BY <2>1
  <2>4. [y EXCEPT !.record = p] \in D /\ [y EXCEPT !.record = p].record = p
    BY <2>2
  <2> QED BY <2>2, <2>3, <2>4
<1>3. Aged(S) \subseteq D
  BY <1>2 DEF Aged
<1>4. \A x, y \in Aged(S) : x = y
  BY DEF Aged
<1>5. Aged(S) = {} <=> S = {}
  <2>1. ASSUME NEW y \in S PROVE Aged(S) # {}
    <3>1. [y EXCEPT !.record.sequence = 1] \in Aged(S)
      BY ONLY <2>1 DEF Aged
    <3> QED BY ONLY <3>1
  <2>2. S = {} => Aged(S) = {}
    BY ONLY TRUE DEF Aged
  <2> QED BY ONLY <2>1, <2>2
<1>6. ASSUME NEW x \in Aged(S)
      PROVE  /\ x.record.sequence = 1
             /\ \E y \in S : x.record.observed_at = y.record.observed_at
  <2>1. PICK y \in S : x = [y EXCEPT !.record.sequence = 1]
    BY <1>6 DEF Aged
  <2> QED BY <1>2, <2>1
<1> QED BY <1>3, <1>4, <1>5, <1>6 DEF Optional

\* The three kinds of facts.
LEMMA FactsAged ==
  ASSUME NEW S, NEW D, S \in Optional(D),
         D \in {Fact, CapabilityFact, [kind : NativeKind, record : EvidenceRecord]}
  PROVE  /\ Aged(S) \in Optional(D) /\ (Aged(S) = {} <=> S = {})
         /\ \A x \in Aged(S) : /\ x.record.sequence = 1
                               /\ \E y \in S : x.record.observed_at = y.record.observed_at
<1>1. ASSUME NEW y \in S
      PROVE  /\ y.record \in EvidenceRecord /\ y = [y EXCEPT !.record = @]
             /\ \A p \in EvidenceRecord : [y EXCEPT !.record = p] \in D
             /\ \A p \in EvidenceRecord : [y EXCEPT !.record = p].record = p
  <2>1. y \in D
    BY DEF Optional
  <2>2. CASE D = Fact
    BY <2>1, <2>2 DEF Fact
  <2>3. CASE D = CapabilityFact
    BY <2>1, <2>3 DEF CapabilityFact
  <2>4. CASE D = [kind : NativeKind, record : EvidenceRecord]
    BY <2>1, <2>4
  <2> QED BY <2>2, <2>3, <2>4
<1>2. \A x, y \in S : x = y
  BY DEF Optional
<1> QED BY <1>1, <1>2, AgedIs

\* The records of the gate are numbered anew; all else is the same.
Renumbered(q, g) ==
  /\ q \in Gate /\ q.init = g.init /\ q.phase = g.phase /\ q.binding = g.binding
  /\ q.candidate = g.candidate /\ q.next_operation_id = g.next_operation_id
  /\ q.last_binding_control_at = g.last_binding_control_at
  /\ q.receipt.authority = g.receipt.authority
  /\ SameFields(q.receipt, g.receipt)
  /\ q.receipt.disposition = g.receipt.disposition
  /\ revocations(q.receipt) = revocations(g.receipt)
  /\ q.receipt.stop_requested_at = g.receipt.stop_requested_at
  /\ \A k \in EvidenceKind :
       /\ q.receipt.evidence[k] = {} <=> g.receipt.evidence[k] = {}
       /\ \A x \in q.receipt.evidence[k] :
            /\ x.sequence = 1
            /\ \E y \in g.receipt.evidence[k] : x.observed_at = y.observed_at
  /\ \A c \in Concern : \A x \in q.facts[c] :
       /\ x.record.sequence = 1
       /\ \E y \in g.facts[c] : x.record.observed_at = y.record.observed_at
  /\ \A x \in q.capabilities \cup q.last_native :
       /\ x.record.sequence = 1
       /\ \E y \in g.capabilities \cup g.last_native :
            x.record.observed_at = y.record.observed_at

LEMMA RenumberedIs ==
  ASSUME NEW g \in Gate, NEW q, q = renumbered(g)
  PROVE  Renumbered(q, g)
<1>1. PICK F, C, L, O, E, z, r :
        /\ F = [c \in Concern |-> Aged(g.facts[c])] /\ C = Aged(g.capabilities)
        /\ L = Aged(g.last_native) /\ O = Old(g.last_old_scope_record)
        /\ E = [k \in EvidenceKind |-> Old(g.receipt.evidence[k])]
        /\ z = g.receipt /\ r = [g.receipt EXCEPT !.evidence = E]
  OBVIOUS
<1>2. q = [g EXCEPT !.facts = F, !.capabilities = C, !.last_native = L,
                    !.last_old_scope_record = O, !.receipt.evidence = E]
  BY <1>1 DEF renumbered, Old, Aged
<1>3. q = [g EXCEPT !.facts = F, !.capabilities = C, !.last_native = L,
                    !.last_old_scope_record = O, !.receipt = r]
  BY <1>1, <1>2
<1>4. /\ z \in Receipt /\ g.capabilities \in Optional(CapabilityFact)
      /\ g.last_native \in Optional([kind : NativeKind, record : EvidenceRecord])
      /\ g.last_old_scope_record \in Optional(EvidenceRecord)
      /\ g.facts \in [Concern -> Optional(Fact)]
      /\ g.receipt.evidence \in [EvidenceKind -> Optional(EvidenceRecord)]
  BY <1>1 DEF Gate, Receipt
<1>5. \A k \in EvidenceKind :
        /\ E[k] \in Optional(EvidenceRecord) /\ (E[k] = {} <=> z.evidence[k] = {})
        /\ \A x \in E[k] : /\ x.sequence = 1
                           /\ \E y \in z.evidence[k] : x.observed_at = y.observed_at
  BY <1>1, <1>4, OldIs
<1>6. \A c \in Concern :
        /\ F[c] \in Optional(Fact)
        /\ \A x \in F[c] : /\ x.record.sequence = 1
                           /\ \E y \in g.facts[c] : x.record.observed_at = y.record.observed_at
  BY <1>1, <1>4, FactsAged
<1>7. /\ C \in Optional(CapabilityFact)
      /\ \A x \in C : /\ x.record.sequence = 1
                      /\ \E y \in g.capabilities : x.record.observed_at = y.record.observed_at
  BY <1>1, <1>4, FactsAged
<1>8. /\ L \in Optional([kind : NativeKind, record : EvidenceRecord])
      /\ \A x \in L : /\ x.record.sequence = 1
                      /\ \E y \in g.last_native : x.record.observed_at = y.record.observed_at
  BY <1>1, <1>4, FactsAged
<1>9. O \in Optional(EvidenceRecord)
  BY <1>1, <1>4, OldIs
<1>10. F \in [Concern -> Optional(Fact)] /\ E \in [EvidenceKind -> Optional(EvidenceRecord)]
  BY <1>1, <1>5, <1>6
<1>11. /\ r \in Receipt /\ r.authority = z.authority /\ SameFields(r, z)
       /\ r.disposition = z.disposition /\ revocations(r) = revocations(z)
       /\ r.stop_requested_at = z.stop_requested_at /\ r.evidence = E
  BY <1>1, <1>4, <1>10 DEF Receipt, SameFields, revocations
<1>12. /\ q \in Gate /\ q.init = g.init /\ q.phase = g.phase /\ q.binding = g.binding
       /\ q.candidate = g.candidate /\ q.next_operation_id = g.next_operation_id
       /\ q.last_binding_control_at = g.last_binding_control_at
       /\ q.receipt = r /\ q.facts = F /\ q.capabilities = C /\ q.last_native = L
  BY <1>3, <1>7, <1>8, <1>9, <1>10, <1>11 DEF Gate
<1>13. \A k \in EvidenceKind :
         /\ q.receipt.evidence[k] = {} <=> g.receipt.evidence[k] = {}
         /\ \A x \in q.receipt.evidence[k] :
            /\ x.sequence = 1
            /\ \E y \in g.receipt.evidence[k] : x.observed_at = y.observed_at
  BY <1>1, <1>5, <1>11, <1>12
<1>14. \A c \in Concern : \A x \in q.facts[c] :
         /\ x.record.sequence = 1
         /\ \E y \in g.facts[c] : x.record.observed_at = y.record.observed_at
  BY <1>6, <1>12
<1>15. \A x \in q.capabilities \cup q.last_native :
         /\ x.record.sequence = 1
         /\ \E y \in g.capabilities \cup g.last_native :
              x.record.observed_at = y.record.observed_at
  BY <1>7, <1>8, <1>12
<1> QED BY <1>1, <1>11, <1>12, <1>13, <1>14, <1>15 DEF Renumbered

\* What the next call begins with.
Next1(h) ==
  [gate |-> renumbered(h.gate), process |-> h.process, child |-> h.child,
   host |-> h.host, sequence |-> 1]

LEMMA RenumberedStays ==
  ASSUME NEW h, NEW r, r.process = h.process, r.child = h.child,
         r.host = h.host, Renumbered(r.gate, h.gate)
  PROVE  Stays(r, h)
<1>1. /\ r.gate.receipt.authority = h.gate.receipt.authority
      /\ r.gate.binding = h.gate.binding /\ r.gate.phase = h.gate.phase
      /\ is_revoked(h.gate.receipt) => is_revoked(r.gate.receipt)
      /\ SameFields(r.gate.receipt, h.gate.receipt)
      /\ \A k \in EvidenceKind :
           r.gate.receipt.evidence[k] = {} <=> h.gate.receipt.evidence[k] = {}
      /\ h.gate.receipt.stop_requested_at = r.gate.receipt.stop_requested_at
  BY DEF Renumbered, is_revoked
<1>2. "stop" \in EvidenceKind /\ "started" \in EvidenceKind
  BY DEF EvidenceKind, NativeKind
<1>3. /\ has_receipt(r.gate) <=> has_receipt(h.gate)
      /\ Addressed(r) <=> Addressed(h)
      /\ Untold(h.gate.receipt) => Untold(r.gate.receipt)
      /\ has_resolved_effects(r.gate.receipt) <=> has_resolved_effects(h.gate.receipt)
  BY <1>1 DEF has_receipt, Addressed, Untold, SameFields, has_resolved_effects
<1>4. Nothing(h) => Nothing(r)
  BY <1>3 DEF Nothing
<1>5. Prepared(h) => Prepared(r)
  BY <1>1, <1>3 DEF Prepared, SameFields
<1>6. Running(h) => Running(r)
  BY <1>1, <1>2, <1>3 DEF Running, SameFields
<1>7. Pending(h) => Pending(r)
  BY <1>1, <1>6 DEF Pending, SameFields
<1>8. Ended(h) => Ended(r)
  BY <1>1, <1>2, <1>3, <1>6 DEF Ended, SameFields, Agrees
<1>9. Closed(h) => Closed(r)
  BY <1>1, <1>3 DEF Closed, SameFields, Agrees
<1>10. Failed(h) => Failed(r)
  BY <1>1, <1>3 DEF Failed, SameFields
<1> QED BY <1>4, <1>5, <1>6, <1>7, <1>8, <1>9, <1>10 DEF Stays

LEMMA Ends ==
  ASSUME NEW h, NEW t, Base(h, t), Operation(h), NEW r, r = Next1(h)
  PROVE  Base(r, t) /\ Operation(r)
<1>1. PICK g, q : g = h.gate /\ q = renumbered(g)
  OBVIOUS
<1>2. /\ g \in Gate /\ t \in Nat /\ GateOK(g, t) /\ h.process \in ProcessRecord
      /\ h.child \in ChildRecord /\ h.host \in Flags /\ Timed(g.receipt, t)
      /\ Reliable(g.receipt)
  BY <1>1, BaseHas
<1>3. Renumbered(q, g) /\ q \in Gate
  BY <1>1, <1>2, RenumberedIs DEF Renumbered
<1>4. /\ r \in HostRecord /\ r.gate = q /\ r.process = h.process /\ r.child = h.child
      /\ r.host = h.host /\ r.sequence = 1
  BY <1>1, <1>2, <1>3 DEF Next1, HostRecord
<1>5. Stays(r, h)
  BY <1>1, <1>3, <1>4, RenumberedStays
<1>6. Timed(q.receipt, t)
  <2>1. /\ q.receipt.authority = g.receipt.authority
        /\ q.receipt.dispatched_at = g.receipt.dispatched_at
        /\ revocations(q.receipt) = revocations(g.receipt)
    BY <1>3 DEF Renumbered, SameFields
  <2>2. \A k \in EvidenceKind : \A p \in q.receipt.evidence[k] : p.observed_at <= t
    BY <1>2, <1>3 DEF Renumbered, Timed
  <2> QED BY <1>2, <2>1, <2>2 DEF Timed
<1>7. Reliable(q.receipt)
  <2>1. Terminal \subseteq EvidenceKind /\ "succeeded" \in EvidenceKind
    BY DEF Terminal, EvidenceKind, NativeKind
  <2> QED BY <1>2, <1>3, <2>1 DEF Renumbered, SameFields, Reliable, is_revoked
<1>8. GateOK(q, t)
  BY <1>2, <1>3, <1>6, <1>7 DEF GateOK, Renumbered
<1>9. Held(q, 1, t)
  <2>1. Held(g, h.sequence, t)
    BY <1>1 DEF Base
  <2>2. ASSUME NEW c \in Concern, NEW f \in q.facts[c]
        PROVE  f.record.sequence <= 1 /\ f.record.observed_at <= t
    BY <1>3, <2>1 DEF Renumbered, Held
  <2>3. ASSUME NEW f \in q.capabilities \cup q.last_native
        PROVE  f.record.sequence <= 1 /\ f.record.observed_at <= t
    BY <1>3, <2>1 DEF Renumbered, Held
  <2>4. ASSUME NEW k \in EvidenceKind, NEW p \in q.receipt.evidence[k]
        PROVE  p.sequence <= 1
    BY <1>3 DEF Renumbered
  <2>5. \A x \in q.receipt.stop_requested_at : x <= t
    BY <1>3, <2>1 DEF Renumbered, Held
  <2> QED BY <2>2, <2>3, <2>4, <2>5 DEF Held
<1>10. Fresh(q.receipt)
  <2>1. Fresh(g.receipt)
    BY <1>1 DEF Base
  <2> QED BY <1>3, <2>1 DEF Renumbered, SameFields, Fresh, authority_disposition,
             has_resolved_closure, has_resolved_effects, is_revoked
<1>11. Phases(q) /\ (has_receipt(q) <=> has_receipt(g)) /\ q.init = g.init
  BY <1>1, <1>3 DEF Base, Phases, Renumbered, has_candidate, has_receipt
<1>12. Base(r, t)
  BY <1>1, <1>4, <1>8, <1>9, <1>10, <1>11 DEF Base
<1> QED BY <1>5, <1>12, StaysOperation

(***************************************************************************)
(* The inductive invariant.                                                  *)
(***************************************************************************)
IInv == Base(Host, now) /\ Operation(Host) /\ launchable \in BOOLEAN

LEMMA BecomesIs ==
  ASSUME NEW h, Becomes(h)
  PROVE  Host' = Next1(h)
BY DEF Becomes, Host, Next1

\* A call that ends at the time t with h.
LEMMA CallEnds ==
  ASSUME NEW h, NEW t, Base(h, t), Operation(h), Becomes(h), now' = t,
         launchable' \in BOOLEAN
  PROVE  IInv'
<1>1. Host' = Next1(h)
  BY BecomesIs
<1>2. Base(Next1(h), t) /\ Operation(Next1(h))
  BY Ends
<1>3. PICK r : r = Next1(h)
  OBVIOUS
<1>4. PICK s : s = Host'
  OBVIOUS
<1>5. s = r /\ Base(s, now') /\ Operation(s)
  BY <1>1, <1>2, <1>3, <1>4
<1>6. Base(Host', now') /\ Operation(Host')
  BY <1>4, <1>5
<1> QED BY <1>6 DEF IInv

LEMMA HostIs ==
  ASSUME IInv
  PROVE  /\ Base(Host, now) /\ Operation(Host) /\ Host.sequence = 1
         /\ Host.gate = gate /\ Host.host = host /\ Host.process = process
         /\ Host.child = child /\ launchable \in BOOLEAN
         /\ now \in 0..LastTime /\ now \in Nat /\ LastTime \in Nat
<1>1. Base(Host, now)
  BY DEF IInv
<1>2. now \in 0..LastTime
  BY <1>1 DEF Base
<1> QED BY <1>1, <1>2, TimeIs DEF IInv, Host

LEMMA LaterIs ==
  ASSUME IInv, NEW t \in Later
  PROVE  t \in 0..LastTime /\ now <= t
BY HostIs DEF Later

LEMMA WithdrawStep ==
  ASSUME IInv, WithdrawBinding
  PROVE  IInv'
<1>1. PICK h, r : h = Host /\ r = withdraw_host_binding(h, gate.binding, now)
  OBVIOUS
<1>2. Base(h, now) /\ Operation(h) /\ h.sequence <= 8 /\ gate.binding = h.gate.binding
  BY <1>1, HostIs
<1>3. Controlled(r, h, now, 3)
  BY <1>1, <1>2, WithdrawsBinding
<1>4. Base(r, now) /\ Operation(r)
  BY <1>2, <1>3, ControlledIs DEF Controlled
<1>5. Becomes(r) /\ now' = now /\ launchable' = launchable
  BY <1>1 DEF WithdrawBinding
<1> QED BY <1>4, <1>5, CallEnds, HostIs

LEMMA CancelStep ==
  ASSUME IInv, RequestCancel
  PROVE  IInv'
<1>1. PICK h, r : h = Host /\ r = cancel(h, now)
  OBVIOUS
<1>2. Base(h, now) /\ Operation(h) /\ h.sequence <= 8
  BY <1>1, HostIs
<1>3. Controlled(r, h, now, 3)
  BY <1>1, <1>2, Cancels
<1>4. Base(r, now) /\ Operation(r)
  BY <1>2, <1>3, ControlledIs DEF Controlled
<1>5. Becomes(r) /\ now' = now /\ launchable' = launchable
  BY <1>1 DEF RequestCancel
<1> QED BY <1>4, <1>5, CallEnds, HostIs

LEMMA MayIs == ASSUME NEW fault, NEW x \in May(fault) PROVE x \in BOOLEAN
BY DEF May

LEMMA PollStep ==
  ASSUME IInv, Poll
  PROVE  IInv'
<1>1. PICK fails \in May("read") : Becomes(poll_begun(Host, now, fails))
  BY DEF Poll
<1>2. PICK h, r : h = Host /\ r = poll_begun(h, now, fails)
  OBVIOUS
<1>3. Base(h, now) /\ Operation(h) /\ h.sequence <= 1 /\ fails \in BOOLEAN
  BY <1>2, HostIs, MayIs
<1>4. Base(r, now) /\ Operation(r)
  BY <1>2, <1>3, HostIs, PollBegun
<1>5. Becomes(r) /\ now' = now /\ launchable' = launchable
  BY <1>1, <1>2 DEF Poll
<1> QED BY <1>4, <1>5, CallEnds, HostIs

LEMMA FinishPollStep ==
  ASSUME IInv, FinishPoll
  PROVE  IInv'
<1>1. PICK u \in Later, fails \in May("close") :
        /\ Becomes(poll_finished(Host, now, u, fails))
        /\ now' = u /\ launchable' = launchable
  BY DEF FinishPoll
<1>2. PICK h, r : h = Host /\ r = poll_finished(h, now, u, fails)
  OBVIOUS
<1>3. /\ Base(h, now) /\ Operation(h) /\ h.sequence <= 2 /\ fails \in BOOLEAN
      /\ u \in 0..LastTime /\ now <= u
  BY <1>2, HostIs, MayIs, LaterIs
<1>4. Base(r, u) /\ Operation(r)
  BY <1>2, <1>3, PollFinished
<1> QED BY <1>1, <1>2, <1>4, CallEnds, HostIs

\* The host has looked at the executable; time may have passed since.
LEMMA Looked ==
  ASSUME IInv, NEW h, h = observe_capabilities(Host, now), NEW t \in Later
  PROVE  /\ Base(h, t) /\ Operation(h) /\ h.sequence <= 5 /\ h.host = host
         /\ h.gate.binding = gate.binding
<1>1. PICK x : x = Host
  OBVIOUS
<1>2. Base(x, now) /\ Operation(x) /\ x.sequence = 1 /\ x.host = host /\ x.gate = gate
  BY <1>1, HostIs
<1>3. Controlled(h, x, now, 4)
  BY <1>1, <1>2, HostIs, ObservesCapabilities
<1>4. Base(h, now) /\ Operation(h) /\ h.sequence <= 5
  BY <1>2, <1>3, ControlledIs DEF Controlled
<1> QED BY <1>2, <1>3, <1>4, BaseLater, LaterIs DEF Controlled

LEMMA DispatchStep ==
  ASSUME IInv, DispatchPrepared
  PROVE  IInv'
<1>1. PICK t \in Later, fails \in May("spawn"), unclean \in May("close") :
        \E h \in {observe_capabilities(Host, now)} :
          /\ Becomes(IF ~is_undispatched(h) THEN h
               ELSE then(expire(h, t), LAMBDA x :
                      IF Refuses(x, t) THEN settle_unsubmitted(x, t, TRUE)
                      ELSE dispatched(x, t, ~fails, unclean)))
          /\ now' = t /\ launchable' = launchable
  BY DEF DispatchPrepared, Refuses
<1>2. PICK h : h = observe_capabilities(Host, now)
  OBVIOUS
<1>3. PICK spawned : spawned = ~fails
  OBVIOUS
<1>4. PICK r : r = Dispatching(h, t, spawned, unclean)
  OBVIOUS
<1>5. Becomes(r) /\ now' = t /\ launchable' = launchable
  BY <1>1, <1>2, <1>3, <1>4 DEF Dispatching
<1>6. spawned \in BOOLEAN /\ unclean \in BOOLEAN
  BY <1>3, MayIs
<1>7. Base(h, t) /\ Operation(h) /\ h.sequence <= 5
  BY <1>2, Looked
<1>8. Base(r, t) /\ Operation(r)
  BY ONLY <1>4, <1>6, <1>7, Dispatches
<1> QED BY <1>5, <1>8, CallEnds, HostIs

-----------------------------------------------------------------------------
(* The system around the host *)

LEMMA TickStep ==
  ASSUME IInv, Tick
  PROVE  IInv'
<1>1. Host' = Host /\ now' = now + 1 /\ launchable' = launchable /\ now < LastTime
  BY DEF Tick, Host
<1>2. now' \in 0..LastTime /\ now <= now'
  BY <1>1, HostIs
<1>3. PICK h, t, u : h = Host /\ t = now /\ u = now'
  OBVIOUS
<1>4. Base(h, u) /\ Operation(h)
  BY <1>2, <1>3, HostIs, BaseLater
<1>5. Base(Host', now') /\ Operation(Host')
  BY <1>1, <1>3, <1>4
<1> QED BY <1>1, <1>5, HostIs DEF IInv

LEMMA ExecutableStep ==
  ASSUME IInv, Executable
  PROVE  IInv'
<1>1. Host' = Host /\ now' = now /\ launchable' = ~launchable
  BY DEF Executable, Host
<1>2. Base(Host', now') /\ Operation(Host')
  BY <1>1, HostIs
<1> QED BY <1>1, <1>2 DEF IInv

\* Only the child goes on.
LEMMA ChildStep ==
  ASSUME IInv, child' \in ChildRecord, Lived(process, child'), child.status # "absent",
         UNCHANGED <<gate, process, host, now, launchable, is_polling>>
  PROVE  IInv'
<1>1. PICK h, r, c : /\ h = Host /\ c = child' /\ r = [h EXCEPT !.child = c]
  OBVIOUS
<1>2. /\ Base(h, now) /\ Operation(h) /\ h \in HostRecord /\ h.process = process
      /\ h.child = child
  BY <1>1, HostIs DEF Base
<1>3. /\ r \in HostRecord /\ r.gate = h.gate /\ r.sequence = h.sequence /\ r.host = h.host
      /\ r.process = h.process /\ r.child = c
  BY <1>1, <1>2 DEF HostRecord
<1>4. Base(r, now)
  BY <1>1, <1>2, <1>3, BaseIf
<1>5. ~Prepared(h)
  BY <1>2 DEF Prepared, no_child
<1>6. Operation(r)
  BY <1>2, <1>3, <1>5
     DEF Operation, Nothing, Pending, Running, Ended, Closed, Failed, Addressed
<1>7. Host' = r /\ now' = now
  BY <1>1 DEF Host
<1>8. Base(Host', now') /\ Operation(Host')
  BY <1>4, <1>6, <1>7
<1> QED BY <1>8, HostIs DEF IInv

LEMMA ChildIs ==
  ASSUME IInv
  PROVE  Lived(process, child) /\ child \in ChildRecord /\ process \in ProcessRecord
<1>1. Lived(Host.process, Host.child) /\ Host.child \in ChildRecord
      /\ Host.process \in ProcessRecord
  BY HostIs, BaseHas DEF Base
<1> QED BY <1>1, HostIs

LEMMA WorkStep ==
  ASSUME IInv, Work
  PROVE  IInv'
<1>1. PICK c, d, p : c = child /\ d = child' /\ p = process
  OBVIOUS
<1>2. c.status = "alive" /\ d \in worker_steps(c)
  BY <1>1 DEF Work
<1>3. Lived(p, c) /\ c \in ChildRecord
  BY <1>1, ChildIs
<1>4. c.exit = {} /\ Paced(c)
  BY <1>2, <1>3 DEF Lived
<1>5. /\ d \in ChildRecord /\ Paced(d) /\ d.status \in {"alive", "exited"}
      /\ d.exit = {} <=> d.status = "alive"
  BY ONLY <1>2, <1>3, <1>4, WorkerKeepsPace
<1>6. Lived(p, d)
  BY <1>2, <1>3, <1>5 DEF Lived
<1> QED BY <1>1, <1>2, <1>5, <1>6, ChildStep DEF Work

LEMMA ExitedIs ==
  ASSUME NEW c \in ChildRecord, NEW exit \in Exit, NEW d, d = exited(c, exit)
  PROVE  d \in ChildRecord /\ d.status = "exited" /\ d.exit = {exit} /\ d.pipe = c.pipe
<1>1. PICK E : E = {exit}
  OBVIOUS
<1>2. d = [c EXCEPT !.status = "exited", !.exit = E]
  BY <1>1 DEF exited
<1>3. E \in ExitStatus
  BY <1>1 DEF ExitStatus
<1> QED BY <1>1, <1>2, <1>3 DEF ChildRecord

LEMMA DieStep ==
  ASSUME IInv, Die
  PROVE  IInv'
<1>1. PICK c, d, p : c = child /\ d = child' /\ p = process
  OBVIOUS
<1>2. c.status = "alive" /\ d = exited(c, "killed")
  BY <1>1 DEF Die
<1>3. Lived(p, c) /\ c \in ChildRecord
  BY <1>1, ChildIs
<1>4. d \in ChildRecord /\ d.status = "exited" /\ d.exit = {"killed"}
  BY <1>2, <1>3, ExitedIs DEF Exit
<1>5. Lived(p, d)
  BY <1>2, <1>3, <1>4 DEF Lived
<1> QED BY <1>1, <1>2, <1>4, <1>5, ChildStep DEF Die

LEMMA StealStep ==
  ASSUME IInv, Steal
  PROVE  IInv'
<1>1. PICK c, d, p : c = child /\ d = child' /\ p = process
  OBVIOUS
<1>2. c.status = "exited" /\ d = [c EXCEPT !.status = "stolen"]
  BY <1>1 DEF Steal
<1>3. Lived(p, c) /\ c \in ChildRecord
  BY <1>1, ChildIs
<1>4. d \in ChildRecord /\ d.status = "stolen" /\ d.exit = c.exit /\ d.pipe = c.pipe
  BY <1>2, <1>3 DEF ChildRecord
<1>5. Lived(p, d)
  BY <1>2, <1>3, <1>4 DEF Lived
<1> QED BY <1>1, <1>2, <1>4, <1>5, ChildStep DEF Steal

-----------------------------------------------------------------------------
(* Prepare *)

\* The flags of a host that has admitted a new operation.
Reset(f) == [f EXCEPT !.has_process = FALSE, !.result = FALSE,
                      !.stop_reported = FALSE, !.outcome_reported = FALSE]

\* The gate admits an operation: nothing is known of it yet.
LEMMA AdmittedGate ==
  ASSUME NEW h, NEW t, Base(h, t), NEW d \in Optional(Time),
         NEW R \in Optional(Requirements), NEW q,
         q = [requested_at |-> t, deadline |-> d, requirements |-> R],
         admits(h.gate, q), NEW g, g = admit(h.gate, q)
  PROVE  /\ GateOK(g, t) /\ Held(g, h.sequence, t) /\ Fresh(g.receipt) /\ Phases(g)
         /\ has_receipt(g) /\ g.receipt.authority.binding = g.binding
         /\ g.receipt.dispatch = "pending" /\ Untold(g.receipt)
         /\ h.gate.init = "ready" /\ g.init = h.gate.init
<1>1. PICK o, a, r, next : /\ o = h.gate
        /\ a = [operation_id |-> o.next_operation_id, binding |-> o.binding,
                admitted_at |-> t]
        /\ r = new_receipt(a, d, R) /\ next = following_operation_id(o.next_operation_id)
  OBVIOUS
<1>2. o \in Gate /\ GateOK(o, t) /\ t \in Time
  BY <1>1, BaseHas
<1>3. g = [o EXCEPT !.next_operation_id = next, !.receipt = r, !.last_native = {}]
  BY <1>1 DEF admit
<1>4. /\ g.receipt = r /\ g.last_native = {} /\ g.binding = o.binding
      /\ g.facts = o.facts /\ g.capabilities = o.capabilities /\ g.init = o.init
      /\ g.phase = o.phase /\ g.candidate = o.candidate
  BY <1>2, <1>3 DEF Gate
<1>5. /\ r.authority = a /\ r.dispatch = "pending" /\ r.acceptance = "pending"
      /\ r.outcome = "pending" /\ r.output = "pending" /\ r.settlement = "pending"
      /\ r.disposition = "current" /\ revocations(r) = {} /\ r.native_identity = {}
      /\ r.stop_requested_at = {} /\ \A k \in EvidenceKind : r.evidence[k] = {}
  BY <1>1 DEF new_receipt, revocations
<1>6. GateOK(g, t) /\ has_receipt(g)
  BY <1>1, <1>2, AdmissionIs
<1>7. Held(g, h.sequence, t)
  <2>1. Held(o, h.sequence, t)
    BY <1>1 DEF Base
  <2> QED BY <1>4, <1>5, <2>1 DEF Held
<1>8. Fresh(r)
  BY <1>5 DEF Fresh, authority_disposition, has_resolved_closure, is_revoked
<1>9. Phases(g)
  BY <1>1, <1>4 DEF Base, Phases, has_candidate
<1>10. Untold(r)
  BY <1>5 DEF Untold
<1>11. r.authority.binding = g.binding
  BY <1>1, <1>4, <1>5
<1>12. o.init = "ready"
  BY <1>1 DEF admits
<1> QED BY <1>1, <1>4, <1>5, <1>6, <1>7, <1>8, <1>9, <1>10, <1>11, <1>12

LEMMA NewProcessIs ==
  /\ new_process \in ProcessRecord /\ no_child \in ChildRecord
  /\ Lived(new_process, no_child)
<1>1. {} \in ExitStatus /\ <<>> \in Seq(Frame)
  BY DEF ExitStatus
<1>2. new_process \in ProcessRecord
  BY <1>1 DEF new_process, ProcessRecord, Ending, Stopped
<1>3. no_child \in ChildRecord
  BY <1>1 DEF no_child, ChildRecord
<1>4. Lived(new_process, no_child)
  BY DEF new_process, no_child, Lived
<1> QED BY <1>2, <1>3, <1>4

LEMMA Admitted ==
  ASSUME NEW h, NEW t, Base(h, t), Operation(h), ~h.host.evidence_error,
         NEW d \in Optional(Time), NEW R \in Optional(Requirements), NEW q,
         q = [requested_at |-> t, deadline |-> d, requirements |-> R],
         admits(h.gate, q), NEW r,
         r = [h EXCEPT !.gate = admit(@, q), !.process = new_process,
                       !.child = no_child, !.host = Reset(@)]
  PROVE  Base(r, t) /\ Operation(r)
<1>1. PICK g, p, c, f : /\ g = admit(h.gate, q) /\ p = new_process /\ c = no_child
                        /\ f = Reset(h.host)
  OBVIOUS
<1>2. /\ GateOK(g, t) /\ Held(g, h.sequence, t) /\ Fresh(g.receipt) /\ Phases(g)
      /\ has_receipt(g) /\ g.receipt.authority.binding = g.binding
      /\ g.receipt.dispatch = "pending" /\ Untold(g.receipt)
      /\ h.gate.init = "ready" /\ g.init = h.gate.init
  BY <1>1, AdmittedGate
<1>3. h \in HostRecord /\ h.host \in Flags /\ g \in Gate
  BY <1>2, BaseHas DEF Base, GateOK
<1>4. /\ f \in Flags /\ ~f.stop_reported /\ ~f.outcome_reported
      /\ f.evidence_error = h.host.evidence_error /\ f.initialized = h.host.initialized
  BY <1>1, <1>3 DEF Reset, Flags
<1>5. p \in ProcessRecord /\ c \in ChildRecord /\ Lived(p, c)
  BY <1>1, NewProcessIs
<1>6. r = [h EXCEPT !.gate = g, !.process = p, !.child = c, !.host = f]
  BY <1>1
<1>7. /\ r \in HostRecord /\ r.gate = g /\ r.process = p /\ r.child = c /\ r.host = f
      /\ r.sequence = h.sequence
  BY <1>3, <1>4, <1>5, <1>6 DEF HostRecord
<1>8. h.host.initialized
  BY <1>2 DEF Base
<1>9. Base(r, t)
  BY <1>2, <1>4, <1>5, <1>7, <1>8 DEF Base
<1>10. Prepared(r)
  BY <1>1, <1>2, <1>4, <1>7 DEF Prepared, Addressed
<1> QED BY <1>9, <1>10 DEF Operation

LEMMA PrepareStep ==
  ASSUME IInv, Prepare
  PROVE  IInv'
<1>1. PICK t \in Later, d \in Optional(Deadlines) :
      \E h \in {observe_capabilities(Host, now)} :
        LET q == [requested_at |-> t, deadline |-> d, requirements |-> {Requirement}]
        IN  /\ ~host.evidence_error
            /\ Becomes(IF ~admits(h.gate, q) THEN h
                 ELSE [h EXCEPT !.gate = admit(@, q),
                                !.process = new_process, !.child = no_child,
                                !.host = Reset(@)])
            /\ now' = t /\ launchable' = launchable
  BY DEF Prepare, Reset
<1>2. PICK h, R : h = observe_capabilities(Host, now) /\ R = {Requirement}
  OBVIOUS
<1>3. PICK q : q = [requested_at |-> t, deadline |-> d, requirements |-> R]
  OBVIOUS
<1>4. PICK r : r = IF ~admits(h.gate, q) THEN h
                 ELSE [h EXCEPT !.gate = admit(@, q),
                                !.process = new_process, !.child = no_child,
                                !.host = Reset(@)]
  OBVIOUS
<1>5. Becomes(r) /\ now' = t /\ launchable' = launchable /\ ~host.evidence_error
  BY <1>1, <1>2, <1>3, <1>4
<1>6. Base(h, t) /\ Operation(h) /\ h.host = host
  BY <1>2, Looked
<1>7. d \in Optional(Time) /\ R \in Optional(Requirements)
  BY <1>2, ComputeHostAssumption, OptionalSome DEF Optional
<1>8. CASE ~admits(h.gate, q)
  BY <1>4, <1>5, <1>6, <1>8, CallEnds, HostIs
<1>9. CASE admits(h.gate, q)
  <2>1. Base(r, t) /\ Operation(r)
    BY <1>3, <1>4, <1>5, <1>6, <1>7, <1>9, Admitted
  <2> QED BY <1>5, <2>1, CallEnds, HostIs
<1> QED BY <1>8, <1>9

-----------------------------------------------------------------------------
(* Shutdown *)

LEMMA Closing ==
  ASSUME NEW h, NEW t, Base(h, t), Operation(h), NEW r,
         r = [h EXCEPT !.gate = close_admission(@), !.host.shutdown = "closing"]
  PROVE  Base(r, t) /\ Operation(r) /\ r.host.shutdown = "closing"
         /\ r.sequence = h.sequence
<1>1. PICK g, q, f : /\ g = h.gate /\ q = close_admission(g)
                     /\ f = [h.host EXCEPT !.shutdown = "closing"]
  OBVIOUS
<1>2. g \in Gate /\ GateOK(g, t) /\ h.host \in Flags /\ h \in HostRecord
  BY <1>1, BaseHas DEF Base
<1>3. q \in Gate
  BY <1>1, <1>2, CloseType
<1>4. /\ q.init = "closed" /\ q.phase = "closed" /\ q.candidate = NoCandidate
      /\ q.receipt = g.receipt /\ q.next_operation_id = g.next_operation_id
      /\ q.binding = g.binding /\ q.facts = g.facts /\ q.capabilities = g.capabilities
      /\ q.last_native = g.last_native
  BY <1>1, <1>2 DEF close_admission, Gate
<1>5. /\ f \in Flags /\ f.shutdown = "closing" /\ f.initialized = h.host.initialized
      /\ f.evidence_error = h.host.evidence_error
      /\ f.stop_reported = h.host.stop_reported
      /\ f.outcome_reported = h.host.outcome_reported
  BY <1>1, <1>2 DEF Flags, ShutdownStatus
<1>6. r = [h EXCEPT !.gate = q, !.host = f]
  BY <1>1
<1>7. /\ r \in HostRecord /\ r.gate = q /\ r.host = f /\ r.process = h.process
      /\ r.child = h.child /\ r.sequence = h.sequence
  BY <1>2, <1>3, <1>5, <1>6 DEF HostRecord
<1>8. GateOK(q, t)
  BY <1>2, <1>3, <1>4, SameReceiptOK DEF SameReceipt
<1>9. Phases(q)
  BY <1>4, BindingAssumption DEF Phases, has_candidate, NoCandidate, new_candidate, NoBinding
<1>10. Held(q, h.sequence, t) /\ Fresh(q.receipt)
  BY <1>1, <1>4 DEF Base, Held
<1>11. Base(r, t)
  <2>1. /\ Lived(h.process, h.child) /\ h.sequence >= 1 /\ t \in 0..LastTime
        /\ has_receipt(g) => h.host.initialized
    BY <1>1 DEF Base
  <2>2. has_receipt(q) <=> has_receipt(g)
    BY ONLY <1>4 DEF has_receipt
  <2> QED BY ONLY <1>4, <1>5, <1>7, <1>8, <1>9, <1>10, <2>1, <2>2 DEF Base
<1>12. /\ Nothing(h) => Nothing(r)
       /\ Prepared(h) => Prepared(r)
       /\ Closed(h) => Closed(r)
       /\ Failed(h) => Failed(r)
  BY ONLY <1>1, <1>4, <1>5, <1>7
     DEF Nothing, Prepared, Closed, Failed, Addressed, has_receipt
<1>13. Running(h) => Running(r)
  BY ONLY <1>1, <1>4, <1>5, <1>7 DEF Running, Addressed, has_receipt
<1>14. /\ Pending(h) => Pending(r)
       /\ Ended(h) => Ended(r)
  BY ONLY <1>1, <1>4, <1>5, <1>7, <1>13 DEF Pending, Ended
<1> QED BY ONLY <1>5, <1>7, <1>11, <1>12, <1>14, Operation(h) DEF Operation

LEMMA ShutdownStep ==
  ASSUME IInv, BeginShutdown
  PROVE  IInv'
<1>1. PICK h, x, y : /\ h = Host
        /\ x = [h EXCEPT !.gate = close_admission(@), !.host.shutdown = "closing"]
        /\ y = IF has_receipt(gate) THEN cancel(x, now) ELSE x
  OBVIOUS
<1>2. PICK fails \in May("read") :
        Becomes(then(y, LAMBDA z : poll_begun(z, now, fails)))
  BY <1>1 DEF BeginShutdown
<1>3. PICK r : r = poll_begun(y, now, fails)
  OBVIOUS
<1>4. then(y, LAMBDA z : poll_begun(z, now, fails)) = r
  BY <1>3 DEF then
<1>5. Base(h, now) /\ Operation(h) /\ h.sequence = 1
  BY <1>1, HostIs
<1>6. /\ Base(x, now) /\ Operation(x) /\ x.host.shutdown = "closing" /\ x.sequence = 1
  BY <1>1, <1>5, Closing
<1>7. /\ Base(y, now) /\ Operation(y) /\ y.sequence <= 5 /\ y.host.shutdown # "open"
  <2>1. CASE y = cancel(x, now)
    <3>1. Controlled(y, x, now, 3)
      BY <1>6, <2>1, Cancels
    <3>2. Base(y, now) /\ y.host = x.host /\ y.sequence <= x.sequence + 3
      BY <3>1 DEF Controlled
    <3>3. Operation(y)
      BY <1>6, <3>1, ControlledIs
    <3>4. y.sequence \in Nat
      BY <3>2, BaseHas
    <3>5. y.sequence <= 5
      BY ONLY <1>6, <3>2, <3>4
    <3> QED BY <1>6, <3>2, <3>3, <3>5
  <2>2. CASE y = x
    BY <1>6, <2>2
  <2> QED BY <1>1, <2>1, <2>2
<1>8. Base(r, now) /\ Operation(r)
  BY <1>3, <1>7, PollBegun, MayIs, HostIs
<1>9. Becomes(r) /\ now' = now /\ launchable' = launchable
  BY <1>2, <1>4 DEF BeginShutdown
<1> QED BY <1>8, <1>9, CallEnds, HostIs

-----------------------------------------------------------------------------
(* Initialize *)

\* Initialize tells the gate the fact c; all three; and what it then says of itself.
Startup(h, t, c, v) ==
  LET e == [concern |-> c, binding |-> h.gate.binding, value |-> v,
            record |-> record(h, observer_of(c), t)]
  IN  accept(h, accepts_startup(h.gate, e), observe_startup(h.gate, e))

Started(h, t, able) ==
  then(then(Startup(h, t, "idle", TRUE), LAMBDA x : Startup(x, t, "worker", able)),
       LAMBDA x : Startup(x, t, "sink", TRUE))

Flagged(x, able) ==
  [x EXCEPT !.host.initialized = able /\ ~x.host.evidence_error]

Initializing(h, t, able, known) ==
  IF known THEN h ELSE then(Started(h, t, able), LAMBDA x : Flagged(x, able))

LEMMA StartupIs ==
  ASSUME NEW h, NEW t, Starting(h, t), h.sequence <= 10, NEW c \in Concern,
         NEW v \in BOOLEAN, NEW r, r = Startup(h, t, c, v)
  PROVE  /\ Starting(r, t) /\ Kept(r, h) /\ r.sequence = h.sequence + 1
         /\ Knows(r.gate, h.gate, c, v)
<1>1. PICK e : e = [concern |-> c, binding |-> h.gate.binding, value |-> v,
                    record |-> record(h, observer_of(c), t)]
  OBVIOUS
<1>2. r = accept(h, accepts_startup(h.gate, e), observe_startup(h.gate, e))
  BY ONLY <1>1, r = Startup(h, t, c, v) DEF Startup
<1> QED BY <1>1, <1>2, StartupTold

LEMMA KeptThen ==
  ASSUME NEW h, NEW x, NEW r, Kept(x, h), Kept(r, x)
  PROVE  Kept(r, h)
BY DEF Kept, SameReceipt

LEMMA StartedIs ==
  ASSUME NEW h, NEW t, Starting(h, t), h.sequence <= 4, NEW able \in BOOLEAN,
         NEW r, r = Started(h, t, able)
  PROVE  /\ Starting(r, t) /\ Kept(r, h)
         /\ r.gate.init = "ready" => able
<1>1. PICK x, y : x = Startup(h, t, "idle", TRUE) /\ y = Startup(x, t, "worker", able)
  OBVIOUS
<1>2. r = Startup(y, t, "sink", TRUE)
  <2>1. r = then(then(x, LAMBDA z : Startup(z, t, "worker", able)),
                 LAMBDA z : Startup(z, t, "sink", TRUE))
    BY ONLY <1>1, r = Started(h, t, able) DEF Started
  <2>2. then(x, LAMBDA z : Startup(z, t, "worker", able)) = y
    BY ONLY <1>1 DEF then
  <2>3. r = then(y, LAMBDA z : Startup(z, t, "sink", TRUE))
    BY ONLY <2>1, <2>2
  <2> QED BY ONLY <2>3 DEF then
<1>3. {"idle", "worker", "sink"} = Concern /\ TRUE \in BOOLEAN
  BY DEF Concern
<1>4. h.sequence \in Nat
  BY DEF Starting, HostRecord
<1>5. Starting(x, t) /\ Kept(x, h) /\ x.sequence = h.sequence + 1
  <2>1. PICK c, v : c = "idle" /\ v = TRUE
    OBVIOUS
  <2>2. c \in Concern /\ v \in BOOLEAN /\ h.sequence <= 10 /\ x = Startup(h, t, c, v)
    BY <1>1, <1>3, <1>4, <2>1
  <2> QED BY ONLY Starting(h, t), <2>2, StartupIs
<1>6. /\ Starting(y, t) /\ Kept(y, x) /\ y.sequence = x.sequence + 1
      /\ Knows(y.gate, x.gate, "worker", able)
  <2>1. PICK c, v : c = "worker" /\ v = able
    OBVIOUS
  <2>2. c \in Concern /\ v \in BOOLEAN /\ x.sequence <= 10 /\ y = Startup(x, t, c, v)
    <3>1. x.sequence <= 10
      BY ONLY <1>4, <1>5, h.sequence <= 4
    <3>2. c \in Concern
      BY ONLY <1>3, <2>1
    <3>3. v \in BOOLEAN /\ y = Startup(x, t, c, v)
      BY ONLY <1>1, <2>1, able \in BOOLEAN, Zenon
    <3> QED BY ONLY <3>1, <3>2, <3>3
  <2>3. /\ Starting(y, t) /\ Kept(y, x) /\ y.sequence = x.sequence + 1
        /\ Knows(y.gate, x.gate, c, v)
    BY ONLY <1>5, <2>2, StartupIs
  <2> QED BY <2>1, <2>3
<1>7. Starting(r, t) /\ Kept(r, y) /\ Knows(r.gate, y.gate, "sink", TRUE)
  <2>1. PICK c, v : c = "sink" /\ v = TRUE
    OBVIOUS
  <2>2. c \in Concern /\ v \in BOOLEAN /\ y.sequence <= 10 /\ r = Startup(y, t, c, v)
    BY <1>2, <1>3, <1>4, <1>5, <1>6, <2>1
  <2>3. Starting(r, t) /\ Kept(r, y) /\ Knows(r.gate, y.gate, c, v)
    BY ONLY <1>6, <2>2, StartupIs
  <2> QED BY <2>1, <2>3
<1>8. Kept(r, h)
  BY <1>5, <1>6, <1>7, KeptThen
<1>9. r.gate.init = "ready" => able
  <2>1. r.gate.facts["worker"] = y.gate.facts["worker"]
    BY <1>3, <1>7 DEF Knows
  <2>2. \A f \in y.gate.facts["worker"] : f.value = able
    BY <1>6 DEF Knows
  <2>3. r.gate.init = "ready" => \E f \in r.gate.facts["worker"] : f.value
    BY <1>3, <1>7 DEF Knows, all_facts_hold
  <2> QED BY <2>1, <2>2, <2>3
<1> QED BY <1>7, <1>8, <1>9

LEMMA FlaggedIs ==
  ASSUME NEW x, NEW t, Starting(x, t), ~x.process.launched, ~x.host.evidence_error,
         NEW able \in BOOLEAN, x.gate.init = "ready" => able,
         NEW r, r = Flagged(x, able)
  PROVE  Base(r, t) /\ Operation(r)
<1>1. PICK b, f : b = (able /\ ~x.host.evidence_error)
                  /\ f = [x.host EXCEPT !.initialized = b]
  OBVIOUS
<1>2. x \in HostRecord /\ x.host \in Flags /\ b = able /\ b \in BOOLEAN
  BY <1>1 DEF Starting, HostRecord
<1>3. /\ f \in Flags /\ f.initialized = able
      /\ f.evidence_error = x.host.evidence_error
  BY <1>1, <1>2 DEF Flags
<1>4. r = [x EXCEPT !.host = f]
  BY <1>1 DEF Flagged
<1>5. /\ r \in HostRecord /\ r.gate = x.gate /\ r.process = x.process
      /\ r.child = x.child /\ r.sequence = x.sequence /\ r.host = f
  BY <1>2, <1>3, <1>4 DEF HostRecord
<1>6. Base(r, t)
  BY <1>3, <1>5 DEF Starting, Base
<1>7. Nothing(r)
  BY <1>3, <1>5 DEF Starting, Nothing
<1> QED BY <1>6, <1>7 DEF Operation

\* A host that is not initialized has admitted nothing.
LEMMA NotInitialized ==
  ASSUME IInv, ~host.initialized, gate.phase = "active", NEW h,
         h = observe_capabilities(Host, now)
  PROVE  /\ Starting(h, now) /\ h.sequence <= 4 /\ ~h.process.launched
         /\ ~h.host.evidence_error
<1>1. PICK x : x = Host
  OBVIOUS
<1>2. /\ Base(x, now) /\ Operation(x) /\ x.sequence = 1 /\ x.host = host
      /\ x.gate = gate
  BY <1>1, HostIs
<1>3. ~has_receipt(x.gate)
  BY <1>2 DEF Base
<1>4. Nothing(x)
  BY <1>2, <1>3
     DEF Operation, Prepared, Pending, Running, Ended, Closed, Failed, Addressed
<1>5. PICK e : e = [binding |-> x.gate.binding,
              value |-> [profile_id |-> Requirement.profile_id,
                         maximum_work_units |-> Requirement.work_units,
                         available |-> launchable],
              record |-> record(x, CapabilityObserver, now),
              valid_until |-> now + Validity]
  OBVIOUS
<1>6. PICK r : r = accept(x, accepts_capabilities(x.gate, e),
                          observe_execution_capabilities(x.gate, e))
  OBVIOUS
<1>7. Base(r, now) /\ Kept(r, x) /\ r.sequence = x.sequence + 1
  BY <1>2, <1>5, <1>6, HostIs, CapabilitiesTold
<1>8. ~r.host.initialized
  BY <1>2, <1>7 DEF Kept
<1>9. h = r
  <2>1. h = then(r, LAMBDA z : IF z.host.initialized /\ ~launchable
                             THEN withdraw_host_binding(z, z.gate.binding, now)
                             ELSE z)
    BY ONLY <1>1, <1>2, <1>5, <1>6, h = observe_capabilities(Host, now),
            gate.phase = "active" DEF observe_capabilities
  <2> QED BY ONLY <1>8, <2>1 DEF then
<1>10. Starting(r, now)
  BY <1>2, <1>3, <1>7 DEF Kept, SameReceipt, has_receipt, Base, Starting
<1> QED BY <1>2, <1>4, <1>7, <1>9, <1>10 DEF Kept, Nothing

LEMMA InitializeStep ==
  ASSUME IInv, Initialize
  PROVE  IInv'
<1>1. PICK h, known : h = observe_capabilities(Host, now) /\ known = host.initialized
  OBVIOUS
<1>2. PICK r : r = Initializing(h, now, launchable, known)
  OBVIOUS
<1>3. /\ gate.phase = "active" /\ now' = now /\ launchable' = launchable
      /\ Becomes(then(h, LAMBDA x : Initializing(x, now, launchable, known)))
  BY ONLY <1>1, Initialize DEF Initialize, Initializing, Started, Startup, Flagged
<1>4. then(h, LAMBDA x : Initializing(x, now, launchable, known)) = r
  BY ONLY <1>2 DEF then
<1>5. Becomes(r)
  BY <1>3, <1>4
<1>6. now \in Later /\ launchable \in BOOLEAN
  BY HostIs DEF Later
<1>7. CASE host.initialized
  <2>1. r = h
    BY <1>1, <1>2, <1>7 DEF Initializing
  <2>2. Base(r, now) /\ Operation(r)
    BY <1>1, <1>6, <2>1, Looked
  <2> QED BY <1>3, <1>5, <1>6, <2>2, CallEnds
<1>8. CASE ~host.initialized
  <2>1. PICK x : x = Started(h, now, launchable)
    OBVIOUS
  <2>2. r = Flagged(x, launchable)
    <3>1. r = then(x, LAMBDA z : Flagged(z, launchable))
      BY <1>1, <1>2, <1>8, <2>1 DEF Initializing
    <3> QED BY ONLY <3>1 DEF then
  <2>3. /\ Starting(h, now) /\ h.sequence <= 4 /\ ~h.process.launched
        /\ ~h.host.evidence_error
    BY <1>1, <1>3, <1>8, NotInitialized
  <2>4. Starting(x, now) /\ Kept(x, h) /\ (x.gate.init = "ready" => launchable)
    BY <1>6, <2>1, <2>3, StartedIs
  <2>5. ~x.process.launched /\ ~x.host.evidence_error
    BY <2>3, <2>4 DEF Kept
  <2>6. Base(r, now) /\ Operation(r)
    BY <1>6, <2>2, <2>4, <2>5, FlaggedIs
  <2> QED BY <1>3, <1>5, <1>6, <2>6, CallEnds
<1> QED BY <1>7, <1>8

-----------------------------------------------------------------------------
(* RebindProvider *)

\* The records of a candidate are numbered to 6, and none is later than t.
HeldSlot(slot, t) ==
  \A p \in slot : p.record.sequence <= 6 /\ p.record.observed_at <= t

\* The gate g prepares the binding b; what it knew of the old one is that of o.
Preparing(g, o, b, t) ==
  /\ g \in Gate /\ SameReceipt(g, o) /\ g.phase = "preparing"
  /\ g.candidate.binding = b /\ b.generation # 0
  /\ g.binding = o.binding /\ g.facts = o.facts /\ g.capabilities = o.capabilities
  /\ g.last_native = o.last_native
  /\ g.last_binding_control_at <= t
  /\ \A c \in Concern : HeldSlot(g.candidate.readiness[c], t)
  /\ HeldSlot(g.candidate.capabilities, t)

LEMMA SlotIsHeld ==
  ASSUME NEW V, NEW slot, NEW t \in Nat, NEW e, NEW valid,
         slot \in Optional(Observation(V)), HeldSlot(slot, t),
         e.record \in EvidenceRecord, e.record.sequence <= 6, e.record.observed_at <= t
  PROVE  HeldSlot(observe_slot(slot, e, valid), t)
<1> DEFINE same(p) == /\ p.record = e.record
                 /\ p.value = e.value /\ p.valid_until = e.valid_until
      poisoned(p) == [p EXCEPT !.conflicted = TRUE,
                        !.record.observed_at =
                          IF @ < e.record.observed_at
                            THEN e.record.observed_at ELSE @]
      fresh == [value |-> e.value, record |-> e.record,
               valid_until |-> e.valid_until, conflicted |-> FALSE]
      kept == {IF same(p) THEN p ELSE poisoned(p) : p \in slot}
<1>1. slot \subseteq Observation(V)
  BY DEF Optional
<1>2. ASSUME NEW p \in slot
      PROVE  /\ poisoned(p).record.sequence = p.record.sequence
             /\ poisoned(p).record.observed_at \in {p.record.observed_at, e.record.observed_at}
  <2>1. PICK x, y : /\ x = (IF p.record.observed_at < e.record.observed_at
                            THEN e.record.observed_at ELSE p.record.observed_at)
                    /\ y = [p.record EXCEPT !.observed_at = x]
    OBVIOUS
  <2>2. p \in Observation(V) /\ p.record \in EvidenceRecord
    BY <1>1 DEF Observation
  <2>3. poisoned(p) = [p EXCEPT !.conflicted = TRUE, !.record = y]
    BY <2>1
  <2>4. y.sequence = p.record.sequence /\ y.observed_at = x
    BY <2>1, <2>2 DEF EvidenceRecord
  <2>5. poisoned(p).record = y
    BY <2>2, <2>3 DEF Observation
  <2> QED BY <2>1, <2>4, <2>5
<1>3. HeldSlot(kept, t)
  <2> SUFFICES ASSUME NEW p \in slot, NEW q, q = IF same(p) THEN p ELSE poisoned(p)
               PROVE  q.record.sequence <= 6 /\ q.record.observed_at <= t
    BY DEF HeldSlot
  <2> HIDE DEF same, poisoned, fresh, kept
  <2>1. /\ q.record.sequence = p.record.sequence
        /\ q.record.observed_at \in {p.record.observed_at, e.record.observed_at}
    BY <1>2
  <2>2. p.record.sequence <= 6 /\ p.record.observed_at <= t
    BY DEF HeldSlot
  <2> QED BY <2>1, <2>2
<1>4. HeldSlot({fresh}, t)
  BY DEF HeldSlot
<1>5. observe_slot(slot, e, valid) \in {kept, {fresh}, slot}
  BY DEF observe_slot
<1> HIDE DEF kept, fresh
<1> QED BY <1>3, <1>4, <1>5

\* What a host observes of its provider.
Observes(e, b, t) ==
  /\ e.binding = b /\ e.record \in EvidenceRecord /\ e.record.sequence <= 6
  /\ e.record.observed_at = t /\ e.valid_until \in Time

LEMMA ReadinessPrepares ==
  ASSUME NEW g, NEW o, NEW b, NEW t \in Nat, Preparing(g, o, b, t), NEW e,
         Observes(e, b, t), e.concern \in Concern, e.value \in BOOLEAN,
         e = [concern |-> e.concern, binding |-> b, value |-> e.value,
              record |-> e.record, valid_until |-> e.valid_until],
         NEW q, q = observe_rebind_readiness(g, e)
  PROVE  Preparing(q, o, b, t)
<1>1. PICK c, slot, x : /\ c = e.concern
        /\ slot = observe_slot(g.candidate.readiness[c], e, TRUE)
        /\ x = [g.candidate EXCEPT !.readiness[c] = slot]
  OBVIOUS
<1>2. g \in Gate /\ q \in Gate /\ g.candidate \in Candidate /\ c \in Concern
  <2>1. g \in Gate
    BY DEF Preparing
  <2>2. q \in Gate
    BY <2>1, ReadinessType DEF Observes
  <2> QED BY <1>1, <2>1, <2>2 DEF Gate
<1>3. q = g \/ q = [g EXCEPT !.candidate = x]
  <2>1. q = g \/ q = [g EXCEPT !.candidate.readiness[c] = slot]
    BY <1>1 DEF observe_rebind_readiness
  <2> QED BY <1>1, <2>1
<1>4. CASE q = g
  BY <1>4
<1>5. CASE q = [g EXCEPT !.candidate = x]
  <2>1. /\ x.binding = g.candidate.binding /\ x.capabilities = g.candidate.capabilities
        /\ x.readiness[c] = slot
        /\ \A k \in Concern \ {c} : x.readiness[k] = g.candidate.readiness[k]
    BY <1>1, <1>2 DEF Candidate
  <2>2. HeldSlot(slot, t)
    <3>1. PICK old : old = g.candidate.readiness[c]
      OBVIOUS
    <3>2. old \in Optional(Observation(BOOLEAN)) /\ HeldSlot(old, t)
      BY <1>2, <3>1 DEF Candidate, Preparing
    <3>3. /\ e.record \in EvidenceRecord /\ e.record.sequence <= 6
          /\ e.record.observed_at <= t
      BY DEF Observes
    <3>4. HeldSlot(observe_slot(old, e, TRUE), t)
      BY ONLY t \in Nat, <3>2, <3>3, SlotIsHeld
    <3> QED BY <1>1, <3>1, <3>4
  <2>3. /\ q.candidate = x /\ SameReceipt(q, g) /\ q.phase = g.phase
        /\ q.binding = g.binding /\ q.facts = g.facts
        /\ q.capabilities = g.capabilities /\ q.last_native = g.last_native
        /\ q.last_binding_control_at = g.last_binding_control_at
    BY <1>2, <1>5 DEF Gate, SameReceipt
  <2>4. \A k \in Concern : HeldSlot(q.candidate.readiness[k], t)
    BY <2>1, <2>2, <2>3 DEF Preparing
  <2> QED BY <1>2, <2>1, <2>3, <2>4 DEF Preparing, SameReceipt
<1> QED BY <1>3, <1>4, <1>5

LEMMA CapabilitiesPrepare ==
  ASSUME NEW g, NEW o, NEW b \in Binding, NEW t \in Nat, Preparing(g, o, b, t), NEW e,
         Observes(e, b, t), e.value \in Capabilities,
         e = [binding |-> b, value |-> e.value,
              record |-> e.record, valid_until |-> e.valid_until],
         NEW q, q = observe_execution_capabilities(g, e)
  PROVE  Preparing(q, o, b, t)
<1>1. PICK slot, x :
        /\ slot = observe_slot(g.candidate.capabilities, e, e.value.maximum_work_units # 0)
        /\ x = [g.candidate EXCEPT !.capabilities = slot]
  OBVIOUS
<1>2. g \in Gate /\ q \in Gate /\ g.candidate \in Candidate
  <2>1. g \in Gate
    BY DEF Preparing
  <2>2. q \in Gate
    BY <2>1, CapabilitiesType DEF Observes
  <2> QED BY <2>1, <2>2 DEF Gate
<1>3. q = g \/ q = [g EXCEPT !.candidate = x]
  <2>1. is_candidate_evidence(g, e)
    BY DEF is_candidate_evidence, Preparing, has_candidate, Observes
  <2>2. q = g \/ q = [g EXCEPT !.candidate.capabilities = slot]
    BY <1>1, <2>1 DEF observe_execution_capabilities
  <2> QED BY <1>1, <2>2
<1>4. CASE q = g
  BY <1>4
<1>5. CASE q = [g EXCEPT !.candidate = x]
  <2>1. /\ x.binding = g.candidate.binding /\ x.readiness = g.candidate.readiness
        /\ x.capabilities = slot
    BY <1>1, <1>2 DEF Candidate
  <2>2. HeldSlot(slot, t)
    <3>1. PICK old : old = g.candidate.capabilities
      OBVIOUS
    <3>2. old \in Optional(Observation(Capabilities)) /\ HeldSlot(old, t)
      BY <1>2, <3>1 DEF Candidate, Preparing
    <3> QED BY <1>1, <3>1, <3>2, SlotIsHeld DEF Observes
  <2>3. /\ q.candidate = x /\ SameReceipt(q, g) /\ q.phase = g.phase
        /\ q.binding = g.binding /\ q.facts = g.facts
        /\ q.capabilities = g.capabilities /\ q.last_native = g.last_native
        /\ q.last_binding_control_at = g.last_binding_control_at
    BY <1>2, <1>5 DEF Gate, SameReceipt
  <2> QED BY <1>2, <2>1, <2>2, <2>3 DEF Preparing, SameReceipt
<1> QED BY <1>3, <1>4, <1>5

\* begin_rebind starts it.
LEMMA BeginPrepares ==
  ASSUME NEW o \in Gate, NEW now0 \in Time, NEW t \in Nat, now0 <= t,
         NEW provider \in Provider, NEW e, e.record \in EvidenceRecord,
         e.valid_until \in Time, begins_rebind(o, o.binding, e, now0),
         e = [binding |-> o.binding, record |-> e.record, valid_until |-> e.valid_until],
         NEW q, q = begin_rebind(o, o.binding, provider, e, now0)
  PROVE  Preparing(q, o, q.candidate.binding, t) /\ q.candidate.binding \in Binding
<1>1. PICK b, x, s, l, n :
        /\ b = [provider |-> provider, generation |-> o.generation_high_water + 1]
        /\ s = {[record |-> e.record, valid_until |-> e.valid_until]}
        /\ x = new_candidate(b, now0, s) /\ l = {e.record}
        /\ n = o.generation_high_water + 1
  OBVIOUS
<1>2. q = [o EXCEPT !.candidate = x, !.last_old_scope_record = l,
                    !.generation_high_water = n,
                    !.last_binding_control_at = now0,
                    !.phase = "preparing"]
  BY <1>1 DEF begin_rebind
<1>3. q \in Gate
  BY BeginType
<1>4. /\ q.candidate = x /\ SameReceipt(q, o) /\ q.phase = "preparing"
      /\ q.binding = o.binding /\ q.facts = o.facts
      /\ q.capabilities = o.capabilities /\ q.last_native = o.last_native
      /\ q.last_binding_control_at = now0
  BY <1>2 DEF Gate, SameReceipt
<1>5. /\ x.binding = b /\ x.capabilities = {} /\ \A c \in Concern : x.readiness[c] = {}
  BY <1>1 DEF new_candidate
<1>6. b.generation # 0
  BY <1>1, NumberAssumption DEF Gate
<1>7. b \in Binding
  BY <1>3, <1>4, <1>5 DEF Gate, Candidate
<1> QED BY <1>3, <1>4, <1>5, <1>6, <1>7 DEF Preparing, HeldSlot

\* What the gate is when the candidate is the binding, or is given up.
Rebound(q, o, t) ==
  /\ GateOK(q, t) /\ Held(q, 6, t) /\ Fresh(q.receipt) /\ Phases(q)
  /\ q.receipt = o.receipt

LEMMA NoCandidateIs ==
  NoCandidate.binding.generation = 0
BY BindingAssumption DEF NoCandidate, new_candidate, NoBinding

\* A gate that holds what o held, or what was observed of the candidate.
LEMMA ReboundIs ==
  ASSUME NEW g, NEW o, NEW b, NEW t \in Nat, Preparing(g, o, b, t),
         GateOK(o, t), Held(o, 1, t), Fresh(o.receipt), NEW q \in Gate, SameReceipt(q, g),
         q.last_native = g.last_native, q.candidate = NoCandidate,
         q.init # "closed", q.phase \notin {"closed", "preparing"},
         \A c \in Concern : \A f \in q.facts[c] :
           f \in g.facts[c] \/ \E p \in g.candidate.readiness[c] : f.record = p.record,
         \A f \in q.capabilities :
           f \in g.capabilities \/ \E p \in g.candidate.capabilities : f.record = p.record
  PROVE  Rebound(q, o, t)
<1>1. SameReceipt(q, o) /\ q.receipt = o.receipt /\ q.last_native = o.last_native
  BY DEF Preparing, SameReceipt
<1>2. GateOK(q, t)
  BY <1>1, SameReceiptOK
<1>3. Phases(q)
  BY NoCandidateIs DEF Phases, has_candidate
<1>4. g.facts = o.facts /\ g.capabilities = o.capabilities
  BY DEF Preparing
<1>5. o \in Gate
  BY DEF GateOK
<1>6. \A n \in Nat : n <= 1 => n <= 6
  OBVIOUS
<1>7. ASSUME NEW c \in Concern, NEW f \in q.facts[c]
      PROVE  f.record.sequence <= 6 /\ f.record.observed_at <= t
  <2>1. CASE f \in o.facts[c]
    <3>1. f \in Fact
      BY <1>5, <2>1 DEF Gate, Optional
    <3>2. f.record.sequence \in Nat
      BY <3>1, NumberAssumption DEF Fact, EvidenceRecord
    <3> QED BY <1>6, <2>1, <3>2 DEF Held
  <2>2. CASE \E p \in g.candidate.readiness[c] : f.record = p.record
    BY <2>2 DEF Preparing, HeldSlot
  <2> QED BY <1>4, <1>7, <2>1, <2>2
<1>8. ASSUME NEW f \in q.capabilities
      PROVE  f.record.sequence <= 6 /\ f.record.observed_at <= t
  <2>1. CASE f \in o.capabilities
    <3>1. f \in CapabilityFact
      BY <1>5, <2>1 DEF Gate, Optional
    <3>2. f.record.sequence \in Nat
      BY <3>1, NumberAssumption DEF CapabilityFact, EvidenceRecord
    <3> QED BY <1>6, <2>1, <3>2 DEF Held
  <2>2. CASE \E p \in g.candidate.capabilities : f.record = p.record
    BY <2>2 DEF Preparing, HeldSlot
  <2> QED BY <1>4, <1>8, <2>1, <2>2
<1>9. ASSUME NEW f \in q.last_native
      PROVE  f.record.sequence <= 6 /\ f.record.observed_at <= t
  <2>1. f \in o.last_native /\ f \in [kind : NativeKind, record : EvidenceRecord]
    BY <1>1, <1>5 DEF Gate, Optional
  <2>2. f.record.sequence \in Nat
    BY <2>1, NumberAssumption DEF EvidenceRecord
  <2> QED BY <1>6, <2>1, <2>2 DEF Held
<1>10. ASSUME NEW k \in EvidenceKind, NEW p \in q.receipt.evidence[k]
       PROVE  p.sequence <= 6
  <2>1. p \in o.receipt.evidence[k] /\ p \in EvidenceRecord
    BY <1>1, <1>5 DEF Gate, Receipt, Optional
  <2>2. p.sequence \in Nat
    BY <2>1, NumberAssumption DEF EvidenceRecord
  <2> QED BY <1>6, <2>1, <2>2 DEF Held
<1>11. Held(q, 6, t)
  BY <1>1, <1>7, <1>8, <1>9, <1>10 DEF Held
<1> QED BY <1>1, <1>2, <1>3, <1>11 DEF Rebound

LEMMA CommitRebinds ==
  ASSUME NEW g, NEW o, NEW b, NEW t \in Time, Preparing(g, o, b, t),
         GateOK(o, t), Held(o, 1, t), Fresh(o.receipt), commits_rebind(g, b, t),
         NEW q, q = commit_rebind(g, b, t)
  PROVE  Rebound(q, o, t)
<1>1. PICK c, F, C :
        /\ c = g.candidate
        /\ F = [k \in Concern |-> {[value |-> TRUE, record |-> p.record] :
                                     p \in c.readiness[k]}]
        /\ C = {[binding |-> c.binding, value |-> p.value,
                 record |-> p.record, valid_until |-> p.valid_until] :
                        p \in c.capabilities}
  OBVIOUS
<1>2. g \in Gate /\ t \in Nat
  BY NumberAssumption DEF Preparing
<1>3. q = [g EXCEPT !.binding = c.binding, !.facts = F, !.capabilities = C,
                !.last_old_scope_record = {}, !.candidate = NoCandidate,
                !.last_binding_control_at = t, !.init = "ready", !.phase = "active"]
  BY <1>1 DEF commit_rebind
<1>4. q \in Gate
  BY <1>2, CommitType
<1>5. /\ SameReceipt(q, g) /\ q.last_native = g.last_native /\ q.candidate = NoCandidate
      /\ q.init = "ready" /\ q.phase = "active" /\ q.facts = F /\ q.capabilities = C
  BY <1>2, <1>3 DEF Gate, SameReceipt
<1>6. \A k \in Concern : \A f \in F[k] : \E p \in g.candidate.readiness[k] :
        f.record = p.record
  BY <1>1
<1>7. \A f \in C : \E p \in g.candidate.capabilities : f.record = p.record
  BY <1>1
<1> QED BY <1>2, <1>4, <1>5, <1>6, <1>7, ReboundIs

LEMMA WithdrawRebinds ==
  ASSUME NEW g, NEW o, NEW b, NEW t \in Time, Preparing(g, o, b, t),
         GateOK(o, t), Held(o, 1, t), Fresh(o.receipt),
         NEW q, q = withdraw_binding(g, b, t)
  PROVE  Rebound(q, o, t) /\ q.init # "ready"
<1>1. g \in Gate /\ t \in Nat /\ has_candidate(g) /\ SameReceipt(g, o)
  BY NumberAssumption DEF Preparing, has_candidate
<1>2. GateOK(g, t) /\ g.receipt \in Receipt /\ Timed(g.receipt, t)
  BY <1>1, SameReceiptOK DEF GateOK, Gate
<1>3. not_before(t, receipt_times(g.receipt))
  BY <1>1, <1>2, TimedCalls
<1>4. /\ \A c \in Concern : not_before(t, fact_times(g.facts[c]))
      /\ not_before(t, fact_times(g.capabilities))
  BY DEF Preparing, Held, fact_times, not_before
<1>5. /\ \A c \in Concern : not_before(t, fact_times(g.candidate.readiness[c]))
      /\ not_before(t, fact_times(g.candidate.capabilities))
  BY DEF Preparing, HeldSlot, fact_times, not_before
<1>6. g.last_binding_control_at <= t
  BY DEF Preparing
<1>7. not_before(t, binding_times(g))
  <2> SUFFICES ASSUME NEW x \in binding_times(g) PROVE x <= t
    BY DEF not_before
  <2>1. \/ x = g.last_binding_control_at
        \/ x \in receipt_times(g.receipt)
        \/ \E c \in Concern : x \in fact_times(g.facts[c])
        \/ x \in fact_times(g.capabilities)
        \/ x \in fact_times(g.candidate.capabilities)
        \/ \E c \in Concern : x \in fact_times(g.candidate.readiness[c])
    BY ONLY x \in binding_times(g) DEF binding_times
  <2> QED BY ONLY <1>3, <1>4, <1>5, <1>6, <2>1 DEF not_before
<1>8. withdraws_binding(g, b, t) /\ ~withdraws_current(g)
  BY <1>1, <1>7 DEF withdraws_binding, withdraws_current, Preparing
<1>9. PICK w : w = g.withdrawn_at
  OBVIOUS
<1>10. q = [g EXCEPT !.last_binding_control_at = t, !.init = "recovery_required",
                     !.phase = "withdrawn", !.candidate = NoCandidate,
                     !.withdrawn_at = w, !.receipt = g.receipt]
  BY <1>1, <1>8, <1>9 DEF withdraw_binding
<1>11. q \in Gate
  BY <1>1, WithdrawType
<1>12. /\ SameReceipt(q, g) /\ q.last_native = g.last_native /\ q.candidate = NoCandidate
       /\ q.init = "recovery_required" /\ q.phase = "withdrawn" /\ q.facts = g.facts
       /\ q.capabilities = g.capabilities
  BY <1>1, <1>10 DEF Gate, SameReceipt
<1> QED BY <1>1, <1>11, <1>12, ReboundIs

\* What a host that may rebind has behind it.
LEMMA ClearIs ==
  ASSUME NEW h, NEW t, Base(h, t), Operation(h), old_scope_is_clear(h)
  PROVE  Nothing(h) \/ Closed(h)
<1>1. /\ ~h.host.evidence_error
      /\ has_receipt(h.gate) => h.gate.receipt.disposition = "released"
  BY DEF old_scope_is_clear
<1>2. h.gate.receipt.settlement = "pending" => h.gate.receipt.disposition # "released"
  BY UnsettledHeld
<1>3. Prepared(h) \/ Pending(h) \/ Ended(h) \/ Failed(h)
        => has_receipt(h.gate) /\ h.gate.receipt.settlement = "pending"
  BY DEF Prepared, Untold, Pending, Ended, Running, Failed, Addressed
<1> QED BY <1>1, <1>2, <1>3 DEF Operation

\* The host with a gate that committed or gave up the candidate.
LEMMA ReboundHost ==
  ASSUME NEW h, NEW t, Base(h, t), Nothing(h) \/ Closed(h), NEW q,
         Rebound(q, h.gate, t), NEW f \in Flags,
         f.evidence_error = h.host.evidence_error,
         q.init = "ready" \/ h.host.initialized => f.initialized,
         NEW r, r = [gate |-> q, process |-> h.process, child |-> h.child,
                     host |-> f, sequence |-> 6]
  PROVE  Base(r, t) /\ Operation(r)
<1>1. /\ h.process \in ProcessRecord /\ h.child \in ChildRecord /\ q \in Gate
  BY BaseHas DEF Rebound, GateOK
<1>2. /\ r \in HostRecord /\ r.gate = q /\ r.process = h.process /\ r.child = h.child
      /\ r.host = f /\ r.sequence = 6
  BY <1>1 DEF HostRecord
<1>3. has_receipt(q) <=> has_receipt(h.gate)
  BY DEF Rebound, has_receipt
<1>4. Base(r, t)
  BY <1>2, <1>3 DEF Base, Rebound
<1>5. Nothing(h) => Nothing(r)
  BY <1>2, <1>3 DEF Nothing
<1>6. Closed(h) => Closed(r)
  BY <1>2, <1>3 DEF Closed, Rebound
<1> QED BY <1>4, <1>5, <1>6 DEF Operation

\* The observations of the provider.
Slot(b, t, c, n, value) ==
  [concern |-> c, binding |-> b, value |-> value,
   record |-> [source |-> observer_of(c), observed_at |-> t, sequence |-> n],
   valid_until |-> t + Validity]

Able(b, t, ready) ==
  [binding |-> b,
   value |-> [profile_id |-> Requirement.profile_id, available |-> ready,
              maximum_work_units |-> Requirement.work_units],
   record |-> [source |-> CapabilityObserver, observed_at |-> t, sequence |-> 6],
   valid_until |-> t + Validity]

LEMMA SlotPrepares ==
  ASSUME NEW g, NEW o, NEW b, NEW t \in 0..LastTime, Preparing(g, o, b, t),
         NEW c \in Concern, NEW n \in 1..6, NEW v \in BOOLEAN,
         NEW q, q = observe_rebind_readiness(g, Slot(b, t, c, n, v))
  PROVE  Preparing(q, o, b, t)
<1>1. PICK e, p, u : /\ e = Slot(b, t, c, n, v) /\ u = t + Validity
                     /\ p = [source |-> observer_of(c), observed_at |-> t, sequence |-> n]
  OBVIOUS
<1>2. e = [concern |-> c, binding |-> b, value |-> v, record |-> p, valid_until |-> u]
  BY <1>1 DEF Slot
<1>3. t \in Time /\ t \in Nat /\ u \in Time
  BY <1>1, TimeIs
<1>4. n \in Sequence /\ n <= 6 /\ observer_of(c) \in Source
  BY ComputeHostAssumption DEF observer_of, Concern, Source
<1>5. p \in EvidenceRecord /\ p.sequence = n /\ p.observed_at = t
  BY <1>1, <1>3, <1>4 DEF EvidenceRecord
<1>6. /\ e.concern = c /\ e.binding = b /\ e.value = v /\ e.record = p
      /\ e.valid_until = u
  BY ONLY <1>2
<1>7. Observes(e, b, t)
  BY <1>3, <1>4, <1>5, <1>6 DEF Observes
<1>8. e = [concern |-> e.concern, binding |-> b, value |-> e.value,
           record |-> e.record, valid_until |-> e.valid_until]
  BY ONLY <1>2, <1>6
<1>9. q = observe_rebind_readiness(g, e) /\ e.concern \in Concern /\ e.value \in BOOLEAN
  BY <1>1, <1>6
<1> QED BY <1>3, <1>7, <1>8, <1>9, ReadinessPrepares

LEMMA AblePrepares ==
  ASSUME NEW g, NEW o, NEW b \in Binding, NEW t \in 0..LastTime, Preparing(g, o, b, t),
         NEW v \in BOOLEAN,
         NEW q, q = observe_execution_capabilities(g, Able(b, t, v))
  PROVE  Preparing(q, o, b, t)
<1>1. PICK e, p, u, x :
        /\ e = Able(b, t, v) /\ u = t + Validity
        /\ p = [source |-> CapabilityObserver, observed_at |-> t, sequence |-> 6]
        /\ x = [profile_id |-> Requirement.profile_id, available |-> v,
                maximum_work_units |-> Requirement.work_units]
  OBVIOUS
<1>2. e = [binding |-> b, value |-> x, record |-> p, valid_until |-> u]
  BY <1>1 DEF Able
<1>3. t \in Time /\ t \in Nat /\ u \in Time
  BY <1>1, TimeIs
<1>4. 6 \in Sequence /\ CapabilityObserver \in Source
  BY ComputeHostAssumption DEF Source
<1>5. p \in EvidenceRecord /\ p.sequence = 6 /\ p.observed_at = t
  BY <1>1, <1>3, <1>4 DEF EvidenceRecord
<1>6. x \in Capabilities
  BY <1>1, ComputeHostAssumption DEF Capabilities, Requirements
<1>7. e.binding = b /\ e.value = x /\ e.record = p /\ e.valid_until = u
  BY ONLY <1>2
<1>8. Observes(e, b, t)
  BY <1>3, <1>5, <1>7 DEF Observes
<1>9. e = [binding |-> b, value |-> e.value, record |-> e.record,
           valid_until |-> e.valid_until]
  BY ONLY <1>2, <1>7
<1>10. q = observe_execution_capabilities(g, e) /\ e.value \in Capabilities
  BY <1>1, <1>6, <1>7
<1> QED BY <1>3, <1>8, <1>9, <1>10, CapabilitiesPrepare

\* Everything it observes of a provider.
Observed(g, b, t, ready) ==
  observe_execution_capabilities(observe_rebind_readiness(
    observe_rebind_readiness(observe_rebind_readiness(g,
      Slot(b, t, "idle", 3, TRUE)), Slot(b, t, "worker", 4, ready)),
    Slot(b, t, "sink", 5, TRUE)), Able(b, t, ready))

LEMMA ObservedPrepares ==
  ASSUME NEW g, NEW o, NEW b \in Binding, NEW t \in 0..LastTime, Preparing(g, o, b, t),
         NEW ready \in BOOLEAN, NEW q, q = Observed(g, b, t, ready)
  PROVE  Preparing(q, o, b, t)
<1>1. PICK x, y, z : /\ x = observe_rebind_readiness(g, Slot(b, t, "idle", 3, TRUE))
                     /\ y = observe_rebind_readiness(x, Slot(b, t, "worker", 4, ready))
                     /\ z = observe_rebind_readiness(y, Slot(b, t, "sink", 5, TRUE))
  OBVIOUS
<1>2. /\ "idle" \in Concern /\ "worker" \in Concern /\ "sink" \in Concern
      /\ 3 \in 1..6 /\ 4 \in 1..6 /\ 5 \in 1..6
  BY DEF Concern
<1>3. q = observe_execution_capabilities(z, Able(b, t, ready))
  BY <1>1 DEF Observed
<1>4. Preparing(x, o, b, t)
  BY <1>1, <1>2, SlotPrepares
<1>5. Preparing(y, o, b, t)
  BY <1>1, <1>2, <1>4, SlotPrepares
<1>6. Preparing(z, o, b, t)
  BY <1>1, <1>2, <1>5, SlotPrepares
<1> QED BY <1>3, <1>6, AblePrepares

\* The observation of the old scope.
OldScope ==
  [binding |-> gate.binding, valid_until |-> now + Validity,
   record |-> record(Host, BindingObserver, now)]

LEMMA OldScopeIs ==
  ASSUME IInv, NEW e, e = OldScope
  PROVE  /\ e.record \in EvidenceRecord /\ e.valid_until \in Time
         /\ e = [binding |-> gate.binding, record |-> e.record,
                 valid_until |-> e.valid_until]
<1>1. PICK p, u : p = record(Host, BindingObserver, now) /\ u = now + Validity
  OBVIOUS
<1>2. e = [binding |-> gate.binding, valid_until |-> u, record |-> p]
  BY <1>1 DEF OldScope
<1>3. e.record = p /\ e.valid_until = u
  BY ONLY <1>2
<1>4. p \in EvidenceRecord
  <2>1. PICK h : h = Host
    OBVIOUS
  <2>2. Base(h, now) /\ h.sequence <= 10 /\ BindingObserver \in Source
    BY <2>1, HostIs, SourcesAre
  <2> QED BY <1>1, <2>1, <2>2, RecordIs
<1>5. u \in Time
  BY <1>1, HostIs, TimeIs
<1>6. e = [binding |-> gate.binding, record |-> e.record, valid_until |-> e.valid_until]
  BY ONLY <1>2, <1>3
<1> QED BY <1>3, <1>4, <1>5, <1>6

\* The step for one provider, one readiness and one instant.
Rebinds(provider, ready, t) ==
  LET begun == begin_rebind(gate, gate.binding, provider, OldScope, now)
      b == begun.candidate.binding
  IN  /\ Idle /\ host.shutdown = "open" /\ gate.phase = "withdrawn"
      /\ old_scope_is_clear(Host)
      /\ begins_rebind(gate, gate.binding, OldScope, now)
      /\ \E g \in {Observed(begun, b, t, ready)} :
           IF commits_rebind(g, b, t)
             THEN /\ gate' = renumbered(commit_rebind(g, b, t))
                  /\ host' = [host EXCEPT !.initialized = TRUE]
                  /\ launchable' = ready
             ELSE /\ gate' = renumbered(withdraw_binding(g, b, t))
                  /\ UNCHANGED <<host, launchable>>
      /\ now' = t
      /\ UNCHANGED <<process, child, is_polling>>

LEMMA RebindStep ==
  ASSUME IInv, RebindProvider
  PROVE  IInv'
<1>a. PICK provider \in Provider, ready \in {TRUE, "executable" \notin Faults},
           t \in Later : Rebinds(provider, ready, t)
  BY ONLY RebindProvider DEF RebindProvider, Rebinds, OldScope, Observed, Slot, Able
<1>1. LET begun == begin_rebind(gate, gate.binding, provider, OldScope, now)
          b == begun.candidate.binding
      IN  /\ old_scope_is_clear(Host)
          /\ begins_rebind(gate, gate.binding, OldScope, now)
          /\ \E g \in {Observed(begun, b, t, ready)} :
               IF commits_rebind(g, b, t)
                 THEN /\ gate' = renumbered(commit_rebind(g, b, t))
                      /\ host' = [host EXCEPT !.initialized = TRUE]
                      /\ launchable' = ready
                 ELSE /\ gate' = renumbered(withdraw_binding(g, b, t))
                      /\ UNCHANGED <<host, launchable>>
          /\ now' = t /\ UNCHANGED <<process, child, is_polling>>
  BY ONLY <1>a DEF Rebinds
<1>2. PICK begun, b, e, h :
        /\ begun = begin_rebind(gate, gate.binding, provider, OldScope, now)
        /\ b = begun.candidate.binding /\ e = OldScope /\ h = Host
  OBVIOUS
<1>3. PICK g : g = Observed(begun, b, t, ready)
  OBVIOUS
<1>4. /\ old_scope_is_clear(h) /\ begins_rebind(gate, gate.binding, e, now)
      /\ IF commits_rebind(g, b, t)
           THEN /\ gate' = renumbered(commit_rebind(g, b, t))
                /\ host' = [host EXCEPT !.initialized = TRUE]
                /\ launchable' = ready
           ELSE /\ gate' = renumbered(withdraw_binding(g, b, t))
                /\ UNCHANGED <<host, launchable>>
      /\ now' = t /\ process' = process /\ child' = child
  BY <1>1, <1>2, <1>3
<1>5. /\ Base(h, now) /\ Operation(h) /\ h.gate = gate /\ h.host = host
      /\ h.process = process /\ h.child = child /\ h.sequence = 1
      /\ t \in 0..LastTime /\ now <= t /\ ready \in BOOLEAN
  BY <1>2, HostIs, LaterIs
<1>6. Base(h, t)
  BY <1>5, BaseLater
<1>7. t \in Time /\ t \in Nat /\ now \in Time
  BY <1>5, TimeIs, BaseHas
<1>8. Nothing(h) \/ Closed(h)
  BY <1>4, <1>5, ClearIs
<1>9. Preparing(begun, gate, b, t) /\ b \in Binding
  <2>1. gate \in Gate
    BY <1>5, BaseHas
  <2>2. /\ e.record \in EvidenceRecord /\ e.valid_until \in Time
        /\ e = [binding |-> gate.binding, record |-> e.record,
                valid_until |-> e.valid_until]
    BY <1>2, OldScopeIs
  <2>3. begun = begin_rebind(gate, gate.binding, provider, e, now)
    BY <1>2
  <2> QED BY <1>2, <1>4, <1>5, <1>7, <2>1, <2>2, <2>3, BeginPrepares
<1>10. Preparing(g, gate, b, t)
  BY <1>3, <1>5, <1>9, ObservedPrepares
<1>11. GateOK(gate, t) /\ Held(gate, 1, t) /\ Fresh(gate.receipt)
  BY <1>5, <1>6 DEF Base
<1>12. h.host \in Flags
  BY <1>5, BaseHas
<1>13. CASE commits_rebind(g, b, t)
  <2>1. PICK q, f : q = commit_rebind(g, b, t) /\ f = [host EXCEPT !.initialized = TRUE]
    OBVIOUS
  <2>2. Rebound(q, gate, t)
    BY <1>7, <1>10, <1>11, <1>13, <2>1, CommitRebinds
  <2>3. /\ f \in Flags /\ f.initialized /\ f.evidence_error = host.evidence_error
    BY <1>5, <1>12, <2>1 DEF Flags
  <2>4. PICK r : r = [gate |-> q, process |-> h.process, child |-> h.child,
                      host |-> f, sequence |-> 6]
    OBVIOUS
  <2>5. Base(r, t) /\ Operation(r)
    BY <1>5, <1>6, <1>8, <2>2, <2>3, <2>4, ReboundHost
  <2>6. Becomes(r) /\ launchable' = ready
    BY <1>4, <1>5, <1>13, <2>1, <2>4 DEF Becomes
  <2> QED BY <1>4, <1>5, <2>5, <2>6, CallEnds
<1>14. CASE ~commits_rebind(g, b, t)
  <2>1. PICK q : q = withdraw_binding(g, b, t)
    OBVIOUS
  <2>2. Rebound(q, gate, t) /\ q.init # "ready"
    BY <1>7, <1>10, <1>11, <2>1, WithdrawRebinds
  <2>3. PICK r : r = [gate |-> q, process |-> h.process, child |-> h.child,
                      host |-> host, sequence |-> 6]
    OBVIOUS
  <2>4. Base(r, t) /\ Operation(r)
    BY <1>5, <1>6, <1>8, <1>12, <2>2, <2>3, ReboundHost
  <2>5. Becomes(r) /\ launchable' = launchable
    BY <1>4, <1>5, <1>14, <2>1, <2>3 DEF Becomes
  <2> QED BY <1>4, <2>4, <2>5, CallEnds, HostIs
<1> QED BY <1>13, <1>14

-----------------------------------------------------------------------------
(* The theorems *)

\* What the gate of a new host says.
LEMMA NoReceiptIs ==
  /\ NoReceipt.authority.operation_id = 0
  /\ NoReceipt.authority.admitted_at = StartedAt
  /\ NoReceipt.disposition = "current" /\ NoReceipt.outcome = "pending"
  /\ NoReceipt.dispatch = "pending" /\ NoReceipt.output = "pending"
  /\ NoReceipt.settlement = "pending" /\ NoReceipt.dispatched_at = {}
  /\ NoReceipt.cancelled_at = {} /\ NoReceipt.expired_at = {}
  /\ NoReceipt.withdrawn_at = {} /\ NoReceipt.stop_requested_at = {}
  /\ \A k \in EvidenceKind : NoReceipt.evidence[k] = {}
BY DEF NoReceipt, new_receipt, NoAuthority

LEMMA InitialGateIs ==
  ASSUME NEW g, g = initial_gate
  PROVE  /\ GateOK(g, 0) /\ Held(g, 1, 0) /\ Fresh(g.receipt) /\ Phases(g)
         /\ ~has_receipt(g) /\ g.init = "recovery_required"
<1>1. /\ g \in Gate /\ g.receipt = NoReceipt /\ g.next_operation_id = 1
      /\ \A c \in Concern : g.facts[c] = {}
      /\ g.capabilities = {} /\ g.last_native = {} /\ g.init = "recovery_required"
      /\ g.phase = "active" /\ g.candidate = NoCandidate
  BY InitialGateType DEF initial_gate
<1>2. StartedAt = 0
  BY ComputeHostAssumption
<1>3. GateOK(g, 0)
  <2>1. Timed(NoReceipt, 0)
    BY <1>2, NoReceiptIs DEF Timed, revocations
  <2>2. Terminal \subseteq EvidenceKind
    BY DEF Terminal, EvidenceKind, NativeKind
  <2>3. Reliable(NoReceipt)
    BY <2>2, NoReceiptIs DEF Reliable, is_revoked, revocations
  <2> QED BY <1>1, <2>1, <2>3, NoReceiptIs DEF GateOK
<1>4. Held(g, 1, 0)
  BY <1>1, NoReceiptIs DEF Held
<1>5. Fresh(g.receipt)
  BY <1>1, NoReceiptIs
     DEF Fresh, authority_disposition, has_resolved_closure, is_revoked, revocations
<1>6. ~has_receipt(g)
  BY <1>1, NoReceiptIs DEF has_receipt
<1>7. Phases(g)
  <2>1. NoCandidate.binding.generation = 0
    BY NoCandidateIs
  <2> QED BY <1>1, <2>1 DEF Phases, has_candidate
<1> QED BY <1>1, <1>3, <1>4, <1>5, <1>6, <1>7

\* At the start there is no operation.
LEMMA InitInv == Init => IInv
<1> SUFFICES ASSUME Init PROVE IInv
  OBVIOUS
<1>1. /\ gate = initial_gate /\ process = new_process /\ child = no_child
      /\ host = new_host /\ now = 0 /\ launchable \in BOOLEAN
  BY ComputeHostAssumption DEF Init
<1>2. PICK h, g : h = Host /\ g = gate
  OBVIOUS
<1>3. /\ GateOK(g, 0) /\ Held(g, 1, 0) /\ Fresh(g.receipt) /\ Phases(g)
      /\ ~has_receipt(g) /\ g.init = "recovery_required"
  BY <1>1, <1>2, InitialGateIs
<1>4. /\ h.gate = g /\ h.process = new_process /\ h.child = no_child
      /\ h.host = new_host /\ h.sequence = 1
      /\ h = [gate |-> h.gate, process |-> h.process, child |-> h.child,
              host |-> h.host, sequence |-> h.sequence]
  BY <1>1, <1>2 DEF Host
<1>5. new_host \in Flags
  BY DEF new_host, Flags, ShutdownStatus
<1>6. g \in Gate
  BY <1>3 DEF GateOK
<1>7. h \in HostRecord
  BY <1>4, <1>5, <1>6, NewProcessIs DEF HostRecord
<1>8. 0 \in 0..LastTime
  BY ComputeHostAssumption
<1>9. Base(h, 0)
  BY <1>3, <1>4, <1>7, <1>8, NewProcessIs DEF Base
<1>10. Nothing(h)
  <2>1. ~new_process.launched /\ ~new_host.evidence_error
    BY DEF new_process, new_host
  <2> QED BY <1>3, <1>4, <2>1 DEF Nothing
<1> QED BY <1>1, <1>2, <1>9, <1>10 DEF IInv, Operation

\* Every call of the host and every step of the system around it keeps it.
LEMMA NextInv == IInv /\ [Next]_vars => IInv'
<1> SUFFICES ASSUME IInv, [Next]_vars PROVE IInv'
  OBVIOUS
<1>1. CASE Initialize
  BY <1>1, InitializeStep
<1>2. CASE WithdrawBinding
  BY <1>2, WithdrawStep
<1>3. CASE RebindProvider
  BY <1>3, RebindStep
<1>4. CASE Prepare
  BY <1>4, PrepareStep
<1>5. CASE DispatchPrepared
  BY <1>5, DispatchStep
<1>6. CASE RequestCancel
  BY <1>6, CancelStep
<1>7. CASE Poll
  BY <1>7, PollStep
<1>8. CASE FinishPoll
  BY <1>8, FinishPollStep
<1>9. CASE BeginShutdown
  BY <1>9, ShutdownStep
<1>10. CASE Work
  BY <1>10, WorkStep
<1>11. CASE Die
  BY <1>11, DieStep
<1>12. CASE Steal
  BY <1>12, StealStep
<1>13. CASE Executable
  BY <1>13, ExecutableStep
<1>14. CASE Tick
  BY <1>14, TickStep
<1>15. CASE UNCHANGED vars
  <2>1. Host' = Host /\ now' = now /\ launchable' = launchable
    BY <1>15 DEF vars, Host
  <2> QED BY <2>1 DEF IInv
<1> QED BY <1>1, <1>2, <1>3, <1>4, <1>5, <1>6, <1>7, <1>8, <1>9, <1>10, <1>11,
           <1>12, <1>13, <1>14, <1>15 DEF Next

-----------------------------------------------------------------------------
(* Theorems of ComputeExecutionHost (compute_execution.cpp) *)

\* compute_execution.cpp: after every call of the host, and whatever the child,
\* another program in its place or a signal did meanwhile, the records of the gate
\* are numbered and timed, and the gate, the flags of the host and the process
\* agree on where the operation stands, from no operation to its closed end.
THEOREM InvariantHolds == Spec => []IInv
BY InitInv, NextInv, PTL DEF Spec

\* Only a launch whose cleanup failed is an error, and it withholds the settlement.
LEMMA AcceptedFollows == IInv => ReportsAreAccepted
<1> SUFFICES ASSUME IInv PROVE ReportsAreAccepted
  OBVIOUS
<1>1. PICK h : h = Host
  OBVIOUS
<1>2. /\ Operation(h) /\ h.gate = gate /\ h.host = host /\ h.process = process
  BY <1>1, HostIs
<1>3. Operation(h) /\ h.host.evidence_error => Failed(h)
  BY DEF Operation, Nothing, Prepared, Pending, Ended, Running, Closed
<1> QED BY <1>2, <1>3 DEF ReportsAreAccepted, Failed

\* A settled operation is closed, and its child, if it had one, was waited for
\* and read to the end.
LEMMA ClosedFollows == IInv => SettledIsClosed
<1> SUFFICES ASSUME IInv, has_receipt(gate), gate.receipt.settlement = "settled"
             PROVE  LET r == gate.receipt
                    IN  /\ IF r.dispatch = "submitted"
                             THEN /\ child.status = "reaped" /\ child.pipe = <<>>
                                  /\ process.channels_closed
                             ELSE child.status = "absent"
                        /\ r.outcome = "succeeded" => child.exit = {"completed"}
                        /\ r.outcome = "cancelled" => child.exit = {"cancelled"}
  BY DEF SettledIsClosed
<1>1. PICK h, r, p, c : h = Host /\ r = gate.receipt /\ p = process /\ c = child
  OBVIOUS
<1>2. /\ Operation(h) /\ Base(h, now) /\ h.gate.receipt = r /\ h.process = p
      /\ h.child = c /\ has_receipt(h.gate) /\ r.settlement = "settled"
  BY <1>1, HostIs
<1>3. Closed(h)
  BY <1>2 DEF Operation, Nothing, Prepared, Untold, Pending, Ended, Running, Failed
<1>4. Lived(p, c)
  BY <1>2 DEF Base
<1>5. CASE r.dispatch = "submitted"
  <2>1. p.channels_closed /\ Agrees(r, p)
    BY <1>2, <1>3, <1>5 DEF Closed
  <2> QED BY <1>1, <1>4, <1>5, <2>1 DEF Lived, Agrees
<1>6. CASE r.dispatch # "submitted"
  <2>1. ~p.launched
    BY <1>2, <1>3, <1>6 DEF Closed
  <2>2. c.status = "absent"
    BY <1>4, <2>1 DEF Lived
  <2>3. r.outcome \notin {"succeeded", "cancelled"}
    BY <1>2, <1>3, <1>6 DEF Closed, has_resolved_effects
  <2> QED BY <1>1, <1>6, <2>2, <2>3
<1> QED BY <1>5, <1>6

\* compute_execution.cpp, accept: the gate never refuses a report of the
\* host, so evidence_error is set by a launch whose cleanup failed and by nothing
\* else, whatever frames, exit statuses, stops, deadlines and revocations come in
\* which order.
THEOREM ReportsAreAlwaysAccepted == Spec => []ReportsAreAccepted
BY InvariantHolds, AcceptedFollows, PTL

\* compute_execution.cpp, settle_closed_process and settle_unsubmitted: a settled
\* operation that was submitted has a child that was waited for, whose pipe was
\* read to the end and whose channels are closed; one that was not submitted has
\* no child; and the outcome it settled with is the way the child ended.
THEOREM SettledIsAlwaysClosed == Spec => []SettledIsClosed
BY InvariantHolds, ClosedFollows, PTL

-----------------------------------------------------------------------------
(* What a call does to the authority and the settlement.  The domain needs the
   fields by name only, so that nothing here asks for the types. *)

\* The fields the domain is read from.
ReceiptFields == {"authority", "settlement", "cancelled_at", "expired_at", "withdrawn_at"}
GateFields == {"receipt", "phase", "next_operation_id"}

Formed(g) == GateFields \subseteq DOMAIN g /\ ReceiptFields \subseteq DOMAIN g.receipt

\* A report leaves the authority alone; a settled operation stays settled.
Leaves(s, r) ==
  /\ ReceiptFields \subseteq DOMAIN s
  /\ s.authority = r.authority /\ s.cancelled_at = r.cancelled_at
  /\ s.expired_at = r.expired_at /\ s.withdrawn_at = r.withdrawn_at
  /\ s.settlement \in {r.settlement, "settled"}

LeavesGate(q, g) ==
  /\ Formed(q) /\ Leaves(q.receipt, g.receipt)
  /\ q.phase = g.phase /\ q.next_operation_id = g.next_operation_id

LEMMA RefreshLeaves ==
  ASSUME NEW r, NEW s, Leaves(s, r)
  PROVE  Leaves(refresh_authority_disposition(s), r)
BY DEF refresh_authority_disposition, ReceiptFields, Leaves

LEMMA ReceiptLeaves ==
  ASSUME NEW g, Formed(g), NEW s, Leaves(s, g.receipt)
  PROVE  /\ LeavesGate([g EXCEPT !.receipt = s], g)
         /\ LeavesGate([g EXCEPT !.receipt = refresh_authority_disposition(s)], g)
BY RefreshLeaves DEF Formed, GateFields, LeavesGate, Leaves

LEMMA LeavesSelf ==
  ASSUME NEW g, Formed(g)
  PROVE  LeavesGate(g, g)
BY DEF Formed, LeavesGate, Leaves

LEMMA SettlementLeaves ==
  ASSUME NEW g, Formed(g), NEW e
  PROVE  LeavesGate(observe_settlement(g, e), g)
<1> DEFINE s == [g.receipt EXCEPT !.settlement = "settled",
                                  !.evidence["settlement"] = {e.record}]
<1>1. Leaves(s, g.receipt)
  BY DEF Formed, ReceiptFields, Leaves
<1> QED BY <1>1, ReceiptLeaves, LeavesSelf DEF observe_settlement

LEMMA NonDeliveryLeaves ==
  ASSUME NEW g, Formed(g), NEW e
  PROVE  LeavesGate(observe_output_not_delivered(g, e), g)
<1> DEFINE s == [g.receipt EXCEPT !.output = "not_delivered", !.reason = {e.reason},
                                  !.evidence["non_delivery"] = {e.record}]
<1>1. Leaves(s, g.receipt)
  BY DEF Formed, ReceiptFields, Leaves
<1> QED BY <1>1, ReceiptLeaves, LeavesSelf DEF observe_output_not_delivered

LEMMA OutputLeaves ==
  ASSUME NEW g, Formed(g), NEW e
  PROVE  LeavesGate(observe_output_accepted(g, e), g)
<1> DEFINE s == [g.receipt EXCEPT !.output = "accepted",
                                  !.evidence["output"] = {e.record}]
<1>1. Leaves(s, g.receipt)
  BY DEF Formed, ReceiptFields, Leaves
<1> QED BY <1>1, ReceiptLeaves, LeavesSelf DEF observe_output_accepted

LEMMA NonSubmissionLeaves ==
  ASSUME NEW g, Formed(g), NEW e
  PROVE  LeavesGate(observe_non_submission(g, e), g)
<1> DEFINE s == [g.receipt EXCEPT !.dispatch = "not_submitted",
                                  !.outcome = "not_executed",
                                  !.evidence["non_submission"] = {e.record}]
<1>1. Leaves(s, g.receipt)
  BY DEF Formed, ReceiptFields, Leaves
<1> QED BY <1>1, ReceiptLeaves, LeavesSelf DEF observe_non_submission

LEMMA StopLeaves ==
  ASSUME NEW g, Formed(g), NEW e
  PROVE  LeavesGate(observe_stop_acknowledgement(g, e), g)
<1> DEFINE s == [g.receipt EXCEPT !.stop_acknowledgement = e.acknowledgement,
                                  !.evidence["stop"] = {e.record}]
           q == observe_stop_acknowledgement(g, e)
<1>1. Leaves(s, g.receipt)
  BY DEF Formed, ReceiptFields, Leaves
<1>2. q = [g EXCEPT !.receipt = s] \/ q = g
  BY DEF observe_stop_acknowledgement, Formed, GateFields
<1> QED BY <1>1, <1>2, ReceiptLeaves, LeavesSelf

LEMMA NativeLeaves ==
  ASSUME NEW g, Formed(g), NEW e
  PROVE  LeavesGate(observe_native(g, e), g)
<1> DEFINE r == g.receipt
           evidence == IF r.evidence[e.kind] = {}
                         THEN [r.evidence EXCEPT ![e.kind] = {e.record}]
                         ELSE r.evidence
           s == [r EXCEPT !.evidence = evidence,
                          !.native_identity = {e.native_identity},
                          !.acceptance = IF e.kind \in {"accepted", "rejected"}
                                           THEN e.kind ELSE @,
                          !.outcome = native_outcome(r, e.kind, evidence)]
           q == [g EXCEPT !.receipt = refresh_authority_disposition(s)]
           n == observe_native(g, e)
<1>1. Leaves(s, g.receipt)
  BY DEF Formed, ReceiptFields, Leaves
<1>2. LeavesGate(q, g)
  BY <1>1, ReceiptLeaves
<1>3. n = [q EXCEPT !.last_native = {[kind |-> e.kind, record |-> e.record]}] \/ n = g
  BY DEF observe_native, apply_native, Formed, GateFields
<1> QED BY <1>2, <1>3, LeavesSelf DEF LeavesGate, Formed, GateFields

LEMMA ClaimLeaves ==
  ASSUME NEW g, Formed(g), NEW a, NEW t
  PROVE  LeavesGate(claim_dispatch(g, a, t), g)
<1> DEFINE s == [g.receipt EXCEPT !.dispatch = "submitted", !.dispatched_at = {t}]
           q == claim_dispatch(g, a, t)
<1>1. Leaves(s, g.receipt)
  BY DEF Formed, ReceiptFields, Leaves
<1>2. q = [g EXCEPT !.receipt = s] \/ q = g
  BY DEF claim_dispatch, Formed, GateFields
<1> QED BY <1>1, <1>2, ReceiptLeaves, LeavesSelf

LEMMA StartupLeaves ==
  ASSUME NEW g, Formed(g), NEW e
  PROVE  LeavesGate(observe_startup(g, e), g)
BY DEF observe_startup, LeavesGate, Leaves, Formed, GateFields

\* Only what is known of the provider is new.
LEMMA CapabilitiesLeave ==
  ASSUME NEW g, Formed(g), NEW e
  PROVE  /\ LeavesGate(observe_execution_capabilities(g, e), g)
         /\ observe_execution_capabilities(g, e).receipt = g.receipt
BY DEF observe_execution_capabilities, LeavesGate, Leaves, Formed, GateFields

-----------------------------------------------------------------------------
(* The calls of the host that leave the authority and the result alone *)

HostFields == {"result", "initialized", "has_process", "stop_reported",
               "outcome_reported", "evidence_error", "shutdown"}

Shaped(h) ==
  /\ {"gate", "process", "child", "host", "sequence"} \subseteq DOMAIN h
  /\ Formed(h.gate) /\ HostFields \subseteq DOMAIN h.host

\* A call that leaves the authority and the result alone.
Calm(r, h) ==
  /\ Shaped(r) /\ LeavesGate(r.gate, h.gate) /\ r.host.result = h.host.result

LEMMA CalmSelf ==
  ASSUME NEW h, Shaped(h)
  PROVE  Calm(h, h)
BY LeavesSelf DEF Calm, Shaped

LEMMA CalmThen ==
  ASSUME NEW h, NEW x, NEW r, Calm(x, h), Calm(r, x)
  PROVE  Calm(r, h)
BY DEF Calm, LeavesGate, Leaves

\* Only the flags, the process or the child are others.
LEMMA CalmBeside ==
  ASSUME NEW h, Shaped(h), NEW r, DOMAIN r = DOMAIN h, r.gate = h.gate,
         DOMAIN r.host = DOMAIN h.host, r.host.result = h.host.result
  PROVE  Calm(r, h)
BY LeavesSelf DEF Calm, Shaped

LEMMA CalmGate ==
  ASSUME NEW h, Shaped(h), NEW g, LeavesGate(g, h.gate), NEW r, r = [h EXCEPT !.gate = g]
  PROVE  Calm(r, h) /\ r.gate = g
BY DEF Calm, Shaped, LeavesGate

LEMMA AcceptCalm ==
  ASSUME NEW h, Shaped(h), NEW b, NEW g, LeavesGate(g, h.gate), NEW r, r = accept(h, b, g)
  PROVE  Calm(r, h) /\ r.gate = g
BY DEF accept, Calm, Shaped, LeavesGate, HostFields

LEMMA NativeCalm ==
  ASSUME NEW h, Shaped(h), NEW k, NEW t
  PROVE  Calm(native(h, k, t), h)
BY AcceptCalm, NativeLeaves DEF native, Shaped

LEMMA NotDeliveredCalm ==
  ASSUME NEW h, Shaped(h), NEW reason, NEW t
  PROVE  Calm(not_delivered(h, reason, t), h)
BY AcceptCalm, NonDeliveryLeaves DEF not_delivered, Shaped

LEMMA SettleCalm ==
  ASSUME NEW h, Shaped(h), NEW t
  PROVE  Calm(settle(h, t), h)
BY AcceptCalm, SettlementLeaves DEF settle, Shaped

LEMMA NotSubmittedCalm ==
  ASSUME NEW h, Shaped(h), NEW t
  PROVE  Calm(not_submitted(h, t), h)
BY AcceptCalm, NonSubmissionLeaves DEF not_submitted, Shaped

LEMMA SettleUnsubmittedCalm ==
  ASSUME NEW h, Shaped(h), NEW t
  PROVE  \A confirmed \in BOOLEAN : Calm(settle_unsubmitted(h, t, confirmed), h)
<1> SUFFICES ASSUME NEW confirmed \in BOOLEAN,
                    NEW r, r = settle_unsubmitted(h, t, confirmed)
             PROVE  Calm(r, h)
  OBVIOUS
<1>1. PICK x : x = not_submitted(h, t)
  OBVIOUS
<1>2. PICK y : y = not_delivered(x, "no_output", t)
  OBVIOUS
<1>3. Calm(x, h) /\ Calm(y, x) /\ Shaped(y)
  BY <1>1, <1>2, NotSubmittedCalm, NotDeliveredCalm DEF Calm
<1>4. r = IF confirmed THEN settle(y, t) ELSE [y EXCEPT !.host.evidence_error = TRUE]
  BY <1>1, <1>2 DEF settle_unsubmitted, then
<1>5. Calm([y EXCEPT !.host.evidence_error = TRUE], y)
  BY <1>3, CalmBeside DEF Shaped, HostFields
<1>6. Calm(r, y)
  BY <1>3, <1>4, <1>5, SettleCalm
<1> QED BY <1>3, <1>6, CalmThen

LEMMA ApplyStopCalm ==
  ASSUME NEW h, Shaped(h), NEW stop, NEW t
  PROVE  Calm(apply_stop(h, stop, t), h)
BY CalmBeside, CalmSelf DEF apply_stop, request_stop, Shaped

LEMMA LaunchCalm ==
  ASSUME NEW h, Shaped(h), NEW spawned, NEW unclean
  PROVE  Calm(launch(h, spawned, unclean), h)
BY CalmBeside, CalmSelf DEF launch, Shaped

LEMMA BeginPollCalm ==
  ASSUME NEW h, Shaped(h), NEW fails
  PROVE  Calm(begin_poll(h, fails), h)
BY CalmBeside, CalmSelf DEF begin_poll, drain_events, Shaped

LEMMA CloseChannelsCalm ==
  ASSUME NEW h, Shaped(h), NEW fails
  PROVE  Calm(close_channels(h, fails), h)
BY CalmBeside, CalmSelf DEF close_channels, Shaped

LEMMA FinishPollCalm ==
  ASSUME NEW h, Shaped(h), NEW t
  PROVE  Calm(finish_poll(h, t, FALSE), h)
<1>1. PICK c : c = collect_exit(h)
  OBVIOUS
<1>2. Calm(c, h)
  BY <1>1, CalmBeside, CalmSelf DEF collect_exit, Shaped
<1>3. PICK d : d = [c EXCEPT !.process.termination_pending = should_terminate(c.process, t)]
  OBVIOUS
<1>4. Calm(d, c) /\ Shaped(d)
  BY <1>2, <1>3, CalmBeside DEF Calm, Shaped
<1>5. Calm(request_termination_once(d, FALSE), d)
  BY <1>4, CalmBeside, CalmSelf DEF request_termination_once, Shaped
<1>6. finish_poll(h, t, FALSE) = IF polls(h.process) THEN request_termination_once(d, FALSE) ELSE h
  BY <1>1, <1>3 DEF finish_poll
<1> QED BY <1>2, <1>4, <1>5, <1>6, CalmThen, CalmSelf

LEMMA UpdateCalm ==
  ASSUME NEW h, Shaped(h)
  PROVE  Calm(update_shutdown_status(h), h)
<1>1. \A s : Calm([h EXCEPT !.host.shutdown = s], h)
  BY CalmBeside DEF Shaped, HostFields
<1> QED BY <1>1, CalmSelf DEF update_shutdown_status

-----------------------------------------------------------------------------
(* The controls, which may revoke the authority *)

\* What a control may do to the authority: revoke it, if there is one.
MovesGate(q, g) ==
  /\ Formed(q) /\ q.receipt.authority = g.receipt.authority
  /\ is_revoked(g.receipt) => is_revoked(q.receipt)
  /\ is_revoked(q.receipt) => is_revoked(g.receipt) \/ has_receipt(g)
  /\ g.receipt.settlement = "settled" => q.receipt.settlement = "settled"
  /\ q.next_operation_id = g.next_operation_id

\* A call that may revoke the authority and leaves the result alone.
Minds(r, h) ==
  /\ Shaped(r) /\ MovesGate(r.gate, h.gate) /\ r.host.result = h.host.result

LEMMA LeavesMoves ==
  ASSUME NEW g, Formed(g), NEW q, LeavesGate(q, g)
  PROVE  MovesGate(q, g)
BY DEF LeavesGate, Leaves, MovesGate, is_revoked, revocations

LEMMA CalmMinds ==
  ASSUME NEW h, Shaped(h), NEW r, Calm(r, h)
  PROVE  Minds(r, h)
BY LeavesMoves DEF Calm, Minds, Shaped

LEMMA MindsThen ==
  ASSUME NEW h, NEW x, NEW r, Minds(x, h), Minds(r, x)
  PROVE  Minds(r, h)
BY DEF Minds, MovesGate, has_receipt

\* The receipt with one more revocation.
LEMMA RevokeMoves ==
  ASSUME NEW g, Formed(g), has_receipt(g), NEW s, NEW t,
         ReceiptFields \subseteq DOMAIN s, s.authority = g.receipt.authority,
         s.settlement = g.receipt.settlement, is_revoked(s),
         NEW q, q = [g EXCEPT !.receipt = revoke(s, t)]
  PROVE  MovesGate(q, g)
<1> DEFINE asked == [s EXCEPT !.stop_requested_at = {t},
                              !.stop_acknowledgement = "pending"]
<1>1. Leaves(s, s) /\ Leaves(asked, s)
  BY DEF Leaves, ReceiptFields
<1>2. Leaves(revoke(s, t), s)
  BY <1>1, RefreshLeaves DEF revoke
<1>3. Formed(q) /\ q.receipt = revoke(s, t) /\ q.next_operation_id = g.next_operation_id
  BY <1>2 DEF Formed, GateFields, Leaves
<1> QED BY <1>2, <1>3 DEF MovesGate, Leaves, is_revoked, revocations

LEMMA CancelMoves ==
  ASSUME NEW g, Formed(g), NEW a, NEW t
  PROVE  MovesGate(request_cancel(g, a, t), g)
<1> DEFINE s == [g.receipt EXCEPT !.cancelled_at = {t}]
<1>1. /\ ReceiptFields \subseteq DOMAIN s /\ s.authority = g.receipt.authority
      /\ s.settlement = g.receipt.settlement /\ is_revoked(s)
  BY DEF Formed, ReceiptFields, is_revoked, revocations
<1>2. applies_cancel(g, a, t) => has_receipt(g)
  BY DEF applies_cancel, is_controllable, current_authority_matches
<1> QED BY <1>1, <1>2, RevokeMoves, LeavesSelf, LeavesMoves DEF request_cancel

LEMMA ExpiryMoves ==
  ASSUME NEW g, Formed(g), NEW a, NEW t
  PROVE  MovesGate(observe_time(g, a, t), g)
<1> DEFINE s == [g.receipt EXCEPT !.expired_at = {t}]
<1>1. /\ ReceiptFields \subseteq DOMAIN s /\ s.authority = g.receipt.authority
      /\ s.settlement = g.receipt.settlement /\ is_revoked(s)
  BY DEF Formed, ReceiptFields, is_revoked, revocations
<1>2. applies_expiry(g, a, t) => has_receipt(g)
  BY DEF applies_expiry, is_controllable, current_authority_matches
<1> QED BY <1>1, <1>2, RevokeMoves, LeavesSelf, LeavesMoves DEF observe_time

\* Withdrawing the binding revokes its work; a candidate has none.
LEMMA WithdrawMoves ==
  ASSUME NEW g, Formed(g), NEW b, NEW t, NEW q, q = withdraw_binding(g, b, t)
  PROVE  /\ MovesGate(q, g)
         /\ has_candidate(g) => q.receipt = g.receipt
         /\ withdraws_binding(g, b, t) => q.phase = "withdrawn"
<1> DEFINE s == [g.receipt EXCEPT !.withdrawn_at = {t}]
           x == [g EXCEPT !.receipt = revoke(s, t)]
<1>1. /\ ReceiptFields \subseteq DOMAIN s /\ s.authority = g.receipt.authority
      /\ s.settlement = g.receipt.settlement /\ is_revoked(s)
  BY DEF Formed, ReceiptFields, is_revoked, revocations
<1>2. withdraws_current(g) => has_receipt(g) /\ ~has_candidate(g)
  BY DEF withdraws_current, current_authority_matches
<1>3. MovesGate(g, g)
  BY LeavesSelf, LeavesMoves
<1>4. withdraws_current(g) => MovesGate(x, g) /\ x.receipt = revoke(s, t)
  BY <1>1, <1>2, RevokeMoves DEF Formed, GateFields
<1>5. CASE ~withdraws_binding(g, b, t)
  BY <1>3, <1>5 DEF withdraw_binding
<1>6. CASE withdraws_binding(g, b, t)
  <2>1. /\ DOMAIN q = DOMAIN g /\ q.phase = "withdrawn"
        /\ q.next_operation_id = g.next_operation_id
        /\ q.receipt = IF withdraws_current(g) THEN revoke(s, t) ELSE g.receipt
    BY <1>6 DEF withdraw_binding, Formed, GateFields
  <2>2. CASE withdraws_current(g)
    BY <1>2, <1>4, <2>1, <2>2 DEF MovesGate, Formed
  <2>3. CASE ~withdraws_current(g)
    BY <1>3, <2>1, <2>3 DEF MovesGate, Formed
  <2> QED BY <2>1, <2>2, <2>3
<1> QED BY <1>5, <1>6

LEMMA MindsGate ==
  ASSUME NEW h, Shaped(h), NEW g, MovesGate(g, h.gate), NEW r, r = [h EXCEPT !.gate = g]
  PROVE  Minds(r, h) /\ r.gate = g
BY DEF Minds, Shaped, MovesGate

\* An operation that was not dispatched is settled.
LEMMA SettlesMinds ==
  ASSUME NEW h, NEW x, Minds(x, h), NEW t, NEW y, Calm(y, x),
         NEW r, r \in {y, settle_unsubmitted(y, t, TRUE)}
  PROVE  Minds(r, h) /\ Calm(r, x)
<1>1. Calm(y, x) /\ Shaped(y)
  BY DEF Calm
<1>2. Calm(r, y)
  BY <1>1, SettleUnsubmittedCalm, CalmSelf
<1>3. Calm(r, x)
  BY <1>1, <1>2, CalmThen
<1> QED BY <1>3, CalmMinds, MindsThen DEF Minds, Calm, LeavesGate

LEMMA MindsSelf ==
  ASSUME NEW h, Shaped(h)
  PROVE  Minds(h, h)
BY CalmSelf, CalmMinds

LEMMA WithdrawHostMinds ==
  ASSUME NEW h, Shaped(h), NEW b, NEW t, NEW r, r = withdraw_host_binding(h, b, t)
  PROVE  /\ Minds(r, h)
         /\ r = h \/ r.gate.phase = "withdrawn"
<1>1. PICK stop : stop = (/\ withdraws_current(h.gate)
                          /\ should_request_native_stop(h.gate.receipt))
  OBVIOUS
<1>2. PICK x : x = [h EXCEPT !.gate = withdraw_binding(@, b, t)]
  OBVIOUS
<1>3. CASE ~withdraws_binding(h.gate, b, t)
  BY <1>3, MindsSelf DEF withdraw_host_binding
<1>4. CASE withdraws_binding(h.gate, b, t)
  <2>1. Formed(h.gate)
    BY DEF Shaped
  <2>2. Minds(x, h) /\ x.gate.phase = "withdrawn"
    BY <1>2, <1>4, <2>1, WithdrawMoves, MindsGate
  <2>3. PICK y : y = apply_stop(x, stop, t)
    OBVIOUS
  <2>4. r = IF is_undispatched(y) THEN settle_unsubmitted(y, t, TRUE) ELSE y
    <3>1. r = then(then(x, LAMBDA z : apply_stop(z,
                     /\ withdraws_current(h.gate)
                     /\ should_request_native_stop(h.gate.receipt), t)),
                   LAMBDA z : IF is_undispatched(z) THEN settle_unsubmitted(z, t, TRUE)
                              ELSE z)
      BY <1>2, <1>4 DEF withdraw_host_binding
    <3>2. y = then(x, LAMBDA z : apply_stop(z,
                     /\ withdraws_current(h.gate)
                     /\ should_request_native_stop(h.gate.receipt), t))
      BY <1>1, <2>3 DEF then
    <3> QED BY ONLY <3>1, <3>2 DEF then
  <2>5. Calm(y, x)
    BY <2>2, <2>3, ApplyStopCalm DEF Minds
  <2>6. r \in {y, settle_unsubmitted(y, t, TRUE)}
    BY <2>4
  <2>7. Minds(r, h) /\ Calm(r, x)
    BY <2>2, <2>5, <2>6, SettlesMinds
  <2> QED BY <2>2, <2>7 DEF Calm, LeavesGate
<1> QED BY <1>3, <1>4

LEMMA ExpireMinds ==
  ASSUME NEW h, Shaped(h), NEW t
  PROVE  Minds(expire(h, t), h)
<1>1. PICK x : x = [h EXCEPT !.gate = observe_time(@, authority(h), t)]
  OBVIOUS
<1>2. Minds(x, h)
  BY <1>1, ExpiryMoves, MindsGate DEF Shaped
<1>3. PICK y : y = apply_stop(x, should_request_native_stop(h.gate.receipt), t)
  OBVIOUS
<1>4. Minds(y, x)
  BY <1>2, <1>3, ApplyStopCalm, CalmMinds DEF Minds
<1>5. expire(h, t) = y \/ expire(h, t) = h
  BY <1>1, <1>3 DEF expire, then
<1> QED BY <1>2, <1>4, <1>5, MindsThen, MindsSelf

LEMMA CancelMinds ==
  ASSUME NEW h, Shaped(h), NEW t
  PROVE  Minds(cancel(h, t), h)
<1>1. PICK x : x = [h EXCEPT !.gate = request_cancel(@, authority(h), t)]
  OBVIOUS
<1>2. Minds(x, h)
  BY <1>1, CancelMoves, MindsGate DEF Shaped
<1>3. PICK stop : stop = should_request_native_stop(h.gate.receipt)
  OBVIOUS
<1>4. PICK y : y = apply_stop(x, stop, t)
  OBVIOUS
<1>5. PICK r : r = IF is_undispatched(y) THEN settle_unsubmitted(y, t, TRUE) ELSE y
  OBVIOUS
<1>6. cancel(h, t) = r \/ cancel(h, t) = h
  BY <1>1, <1>3, <1>4, <1>5 DEF cancel, then
<1>7. Calm(y, x)
  BY <1>2, <1>4, ApplyStopCalm DEF Minds
<1> QED BY <1>2, <1>5, <1>6, <1>7, SettlesMinds, MindsSelf

\* Where the operation is another one afterwards, the binding was withdrawn.
LEMMA CapabilitiesMind ==
  ASSUME NEW h, Shaped(h), NEW t, NEW r, r = observe_capabilities(h, t)
  PROVE  /\ Minds(r, h)
         /\ r.gate.receipt = h.gate.receipt \/ r.gate.phase = "withdrawn"
<1>1. PICK e : e = [binding |-> h.gate.binding,
            value |-> [profile_id |-> Requirement.profile_id,
                       maximum_work_units |-> Requirement.work_units,
                       available |-> launchable],
            record |-> record(h, CapabilityObserver, t),
            valid_until |-> t + Validity]
  OBVIOUS
<1>2. PICK x : x = accept(h, accepts_capabilities(h.gate, e),
                          observe_execution_capabilities(h.gate, e))
  OBVIOUS
<1>3. Calm(x, h) /\ x.gate.receipt = h.gate.receipt
  BY <1>2, CapabilitiesLeave, AcceptCalm DEF Shaped
<1>4. Shaped(x) /\ Minds(x, h)
  BY <1>3, CalmMinds DEF Calm
<1>5. PICK y : y = withdraw_host_binding(x, x.gate.binding, t)
  OBVIOUS
<1>6. Minds(y, x) /\ (y = x \/ y.gate.phase = "withdrawn")
  BY <1>4, <1>5, WithdrawHostMinds
<1>7. r = h \/ r = x \/ r = y
  BY <1>1, <1>2, <1>5 DEF observe_capabilities, then
<1> QED BY <1>3, <1>4, <1>6, <1>7, MindsThen, MindsSelf

LEMMA ObserveEventsCalm ==
  ASSUME NEW h, Shaped(h), NEW t
  PROVE  Calm(observe_process_events(h, t), h)
<1>1. PICK x : x = IF h.process.started /\ h.gate.receipt.evidence["started"] = {}
                     THEN native(h, "started", t) ELSE h
  OBVIOUS
<1>2. Calm(x, h) /\ Shaped(x)
  BY <1>1, NativeCalm, CalmSelf DEF Calm
<1>3. \A b, e : Calm([accept(x, b, observe_stop_acknowledgement(x.gate, e))
                        EXCEPT !.host.stop_reported = TRUE], x)
  <2>1. SUFFICES ASSUME NEW b, NEW e,
                        NEW y, y = accept(x, b, observe_stop_acknowledgement(x.gate, e))
                 PROVE  Calm([y EXCEPT !.host.stop_reported = TRUE], x)
    OBVIOUS
  <2>2. Calm(y, x)
    BY <1>2, <2>1, StopLeaves, AcceptCalm DEF Shaped
  <2>3. Calm([y EXCEPT !.host.stop_reported = TRUE], y)
    BY <2>2, CalmBeside DEF Calm, Shaped, HostFields
  <2> QED BY <2>2, <2>3, CalmThen
<1>4. Calm(observe_process_events(h, t), x)
  <2>1. PICK answer :
          answer = IF ~h.process.stop_delivered THEN "unavailable"
                   ELSE IF h.process.stop_ignored THEN "refused" ELSE "acknowledged"
    OBVIOUS
  <2>2. PICK e : e = [authority |-> authority(x), acknowledgement |-> answer,
                      record |-> record(x, StopSource, t)]
    OBVIOUS
  <2>3. PICK y : y = [accept(x, accepts_stop_acknowledgement(x.gate, e),
                             observe_stop_acknowledgement(x.gate, e))
                        EXCEPT !.host.stop_reported = TRUE]
    OBVIOUS
  <2>4. PICK r : r = observe_process_events(h, t)
    OBVIOUS
  <2>5. r = then(x, LAMBDA z :
              IF ~(/\ ~h.host.stop_reported /\ stop_requested(h.process)
                   /\ ~h.process.stop_delivered \/ h.process.stop_acknowledged
                        \/ h.process.stop_ignored)
                THEN z
                ELSE [accept(z, accepts_stop_acknowledgement(z.gate,
                        [authority |-> authority(z), acknowledgement |-> answer,
                         record |-> record(z, StopSource, t)]),
                      observe_stop_acknowledgement(z.gate,
                        [authority |-> authority(z), acknowledgement |-> answer,
                         record |-> record(z, StopSource, t)]))
                       EXCEPT !.host.stop_reported = TRUE])
    BY ONLY <1>1, <2>1, <2>4 DEF observe_process_events
  <2>6. r = x \/ r = y
    BY ONLY <2>2, <2>3, <2>5 DEF then
  <2>7. Calm(y, x)
    BY <1>3, <2>3
  <2> QED BY <1>2, <2>4, <2>6, <2>7, CalmSelf
<1> QED BY <1>2, <1>4, CalmThen

\* A call that may revoke the authority first, and store the result while it lasts.
Yields(r, h) ==
  /\ Shaped(r) /\ MovesGate(r.gate, h.gate)
  /\ \/ r.host.result = h.host.result
     \/ r.host.result = TRUE /\ ~is_revoked(r.gate.receipt)

LEMMA MindsYields ==
  ASSUME NEW h, NEW x, NEW r, Minds(x, h), Yields(r, x)
  PROVE  Yields(r, h)
BY DEF Minds, Yields, MovesGate, has_receipt

LEMMA YieldsCalm ==
  ASSUME NEW h, NEW x, NEW r, Yields(x, h), Calm(r, x)
  PROVE  Yields(r, h)
BY DEF Yields, Calm, MovesGate, LeavesGate, Leaves, is_revoked, revocations

LEMMA DeliverYields ==
  ASSUME NEW h, Shaped(h), NEW t, NEW r, r = deliver(h, t)
  PROVE  Yields(r, h)
<1>1. PICK x : x = expire(h, t)
  OBVIOUS
<1>2. Minds(x, h) /\ Shaped(x)
  BY <1>1, ExpireMinds DEF Minds
<1>3. PICK e : e = [authority |-> authority(x), record |-> record(x, ResultSinkObserver, t)]
  OBVIOUS
<1>4. PICK y : y = accept(x, accepts_output(x.gate, e), observe_output_accepted(x.gate, e))
  OBVIOUS
<1>5. Calm(y, x)
  BY <1>2, <1>4, OutputLeaves, AcceptCalm DEF Shaped
<1>6. CASE can_deliver_result(x.gate, authority(x))
           /\ r = [y EXCEPT !.host.result = TRUE]
  <2>1. ~is_revoked(x.gate.receipt)
    BY <1>6 DEF can_deliver_result
  <2>2. /\ DOMAIN r = DOMAIN y /\ r.gate = y.gate /\ DOMAIN r.host = DOMAIN y.host
        /\ r.host.result = TRUE
    BY <1>5, <1>6 DEF Calm, Shaped, HostFields
  <2>3. Shaped(r) /\ LeavesGate(r.gate, x.gate)
    BY <1>5, <2>2 DEF Calm, Shaped
  <2>4. Yields(r, x)
    BY <1>2, <2>1, <2>2, <2>3, LeavesMoves
       DEF Yields, LeavesGate, Leaves, is_revoked, revocations, Shaped
  <2> QED BY <1>2, <2>4, MindsYields
<1>7. CASE r = not_delivered(x, "authority_revoked", t)
  <2>1. Yields(r, x)
    BY <1>2, <1>7, NotDeliveredCalm, CalmMinds DEF Minds, Yields
  <2> QED BY <1>2, <2>1, MindsYields
<1> QED BY <1>1, <1>3, <1>4, <1>6, <1>7 DEF deliver, then

LEMMA ReportYields ==
  ASSUME NEW h, Shaped(h), NEW t, NEW u, NEW r, r = report_outcome(h, t, u)
  PROVE  Yields(r, h)
<1>1. PICK x : x = expire(h, t)
  OBVIOUS
<1>2. PICK y : y = native(x, outcome(x.process), t)
  OBVIOUS
<1>3. Minds(x, h) /\ Minds(y, x) /\ Shaped(y)
  BY <1>1, <1>2, ExpireMinds, NativeCalm, CalmMinds DEF Minds
<1>4. PICK z : z = IF outcome(y.process) = "succeeded" THEN deliver(y, u)
                   ELSE not_delivered(y, "no_output", t)
  OBVIOUS
<1>5. Yields(z, y)
  <2>1. Calm(not_delivered(y, "no_output", t), y)
    BY <1>3, NotDeliveredCalm
  <2>2. Yields(not_delivered(y, "no_output", t), y)
    BY <1>3, <2>1, CalmMinds DEF Minds, Yields
  <2> QED BY <1>3, <1>4, <2>2, DeliverYields
<1>6. r = [z EXCEPT !.host.outcome_reported = TRUE]
  BY <1>1, <1>2, <1>4 DEF report_outcome, then
<1>7. Calm(r, z)
  BY <1>5, <1>6, CalmBeside DEF Yields, Shaped, HostFields
<1> QED BY <1>3, <1>5, <1>7, MindsYields, YieldsCalm

LEMMA CloseAndSettleCalm ==
  ASSUME NEW h, Shaped(h), NEW u, NEW fails
  PROVE  Calm(close_and_settle(h, u, fails), h)
<1>1. PICK x : x = close_channels(h, fails)
  OBVIOUS
<1>2. Calm(x, h) /\ Calm(settle(x, u), x)
  BY <1>1, CloseChannelsCalm, SettleCalm DEF Calm
<1>3. close_and_settle(h, u, fails) \in {x, settle(x, u)}
  BY <1>1 DEF close_and_settle, then
<1> QED BY <1>2, <1>3, CalmThen

LEMMA FinishYields ==
  ASSUME NEW h, Shaped(h), NEW t, NEW u, NEW fails, NEW r, r = finish(h, t, u, fails)
  PROVE  Yields(r, h)
<1>1. PICK x : x = IF h.host.outcome_reported THEN h ELSE report_outcome(h, t, u)
  OBVIOUS
<1>2. Yields(h, h)
  BY MindsSelf DEF Minds, Yields
<1>3. Yields(x, h)
  BY <1>1, <1>2, ReportYields
<1>4. Calm(close_and_settle(x, u, fails), x)
  BY <1>3, CloseAndSettleCalm DEF Yields
<1>5. r = close_and_settle(x, u, fails) \/ r = h
  BY <1>1 DEF finish, then
<1> QED BY <1>2, <1>3, <1>4, <1>5, YieldsCalm

\* The second half of a poll; without a process it sees to the shutdown only.
LEMMA PollFinishedYields ==
  ASSUME NEW h, Shaped(h), NEW t, NEW u, NEW fails, NEW r,
         r = poll_finished(h, t, u, fails)
  PROVE  /\ Yields(r, h)
         /\ ~observes(h) => Calm(r, h)
<1>1. PICK x, y, z, w : FinishingPoll(h, t, u, fails, x, y, z, w)
  BY DEF FinishingPoll
<1>2. /\ x = finish_poll(h, t, FALSE)
      /\ y = x \/ y = cancel(x, t)
      /\ z = observe_process_events(y, t)
      /\ w = IF ~observes(h) THEN h ELSE finish(z, t, u, fails)
  BY <1>1 DEF FinishingPoll
<1>5. r = update_shutdown_status(w)
  BY <1>1, PollFinishedIs
<1>6. Minds(x, h) /\ Shaped(x)
  BY <1>2, FinishPollCalm, CalmMinds DEF Calm
<1>7. Minds(y, x) /\ Shaped(y)
  BY <1>2, <1>6, CancelMinds, MindsSelf DEF Minds
<1>8. Minds(z, y) /\ Shaped(z)
  BY <1>2, <1>7, ObserveEventsCalm, CalmMinds DEF Calm
<1>9. Minds(z, h)
  BY <1>6, <1>7, <1>8, MindsThen
<1>10. CASE observes(h)
  <2>1. Yields(w, h)
    BY <1>2, <1>8, <1>9, <1>10, FinishYields, MindsYields
  <2>2. Calm(r, w)
    BY <1>5, <2>1, UpdateCalm DEF Yields
  <2> QED BY <1>10, <2>1, <2>2, YieldsCalm
<1>11. CASE ~observes(h)
  <2>1. Calm(r, h)
    BY <1>2, <1>5, <1>11, UpdateCalm
  <2> QED BY <2>1, CalmMinds DEF Minds, Yields
<1> QED BY <1>10, <1>11

LEMMA PollBegunMinds ==
  ASSUME NEW h, Shaped(h), NEW t, NEW fails, NEW r, r = poll_begun(h, t, fails)
  PROVE  Minds(r, h)
<1>1. PICK a, b, c, d : BeginningPoll(h, t, fails, a, b, c, d)
  BY DEF BeginningPoll
<1>2. /\ a = observe_capabilities(h, t) \/ a = h
      /\ b = expire(a, t)
      /\ c = settle_unsubmitted(b, t, TRUE) \/ c = b
      /\ d = withdraw_host_binding(c, c.gate.binding, t) \/ d = c
  BY <1>1 DEF BeginningPoll
<1>5. r = IF observes(c) THEN begin_poll(d, fails) ELSE c
  BY <1>1, PollBegunIs
<1>6. Minds(a, h) /\ Shaped(a)
  BY <1>2, CapabilitiesMind, MindsSelf DEF Minds
<1>7. Minds(b, a) /\ Shaped(b)
  BY <1>2, <1>6, ExpireMinds DEF Minds
<1>8. Calm(c, b) /\ Shaped(c)
  BY <1>2, <1>7, SettleUnsubmittedCalm, CalmSelf DEF Calm
<1>9. Minds(c, h)
  BY <1>6, <1>7, <1>8, CalmMinds, MindsThen
<1>10. Minds(d, c) /\ Shaped(d)
  BY <1>2, <1>8, WithdrawHostMinds, MindsSelf DEF Minds
<1>11. Minds(begin_poll(d, fails), d)
  BY <1>10, BeginPollCalm, CalmMinds
<1> QED BY <1>5, <1>9, <1>10, <1>11, MindsThen

LEMMA DispatchedCalm ==
  ASSUME NEW h, Shaped(h), NEW t, NEW spawned, NEW unclean, NEW r,
         r = dispatched(h, t, spawned, unclean)
  PROVE  Calm(r, h)
<1>1. PICK a : a = [h EXCEPT !.gate = claim_dispatch(@, authority(h), t)]
  OBVIOUS
<1>2. PICK x : x = [a EXCEPT !.host.has_process = TRUE]
  OBVIOUS
<1>3. Calm(a, h) /\ Shaped(a)
  BY <1>1, ClaimLeaves, CalmGate DEF Shaped, Calm
<1>4. Calm(x, a) /\ Shaped(x)
  BY <1>2, <1>3, CalmBeside DEF Shaped, HostFields, Calm
<1>5. PICK y : y = launch(x, spawned, unclean)
  OBVIOUS
<1>6. Calm(y, x) /\ Shaped(y)
  BY <1>4, <1>5, LaunchCalm DEF Calm
<1>7. \E b \in BOOLEAN : r \in {native(y, "accepted", t), settle_unsubmitted(y, t, b)}
  BY <1>1, <1>2, <1>5 DEF dispatched, then
<1>8. Calm(r, y)
  BY <1>6, <1>7, NativeCalm, SettleUnsubmittedCalm
<1> QED BY <1>3, <1>4, <1>6, <1>8, CalmThen

-----------------------------------------------------------------------------
(* The calls of the gate on which the steps of the host rest *)

LEMMA MovesThen ==
  ASSUME NEW g, NEW x, NEW q, MovesGate(x, g), MovesGate(q, x)
  PROVE  MovesGate(q, g)
BY DEF MovesGate, has_receipt

LEMMA MovesIf ==
  ASSUME NEW g, Formed(g), NEW q, DOMAIN q = DOMAIN g, q.receipt = g.receipt,
         q.next_operation_id = g.next_operation_id
  PROVE  MovesGate(q, g)
BY DEF MovesGate, Formed

LEMMA RenumberedLeaves ==
  ASSUME NEW g, Formed(g), NEW q, q = renumbered(g)
  PROVE  /\ LeavesGate(q, g) /\ q.receipt.settlement = g.receipt.settlement
<1>1. PICK v : v = [k \in EvidenceKind |->
                      {[x EXCEPT !.sequence = 1] : x \in g.receipt.evidence[k]}]
  OBVIOUS
<1>2. /\ DOMAIN q = DOMAIN g /\ q.phase = g.phase
      /\ q.next_operation_id = g.next_operation_id
      /\ q.receipt = [g.receipt EXCEPT !.evidence = v]
  BY <1>1 DEF renumbered, Formed, GateFields
<1> QED BY <1>2 DEF LeavesGate, Leaves, Formed, ReceiptFields

LEMMA RenumberedMoves ==
  ASSUME NEW g, Formed(g)
  PROVE  MovesGate(renumbered(g), g)
BY RenumberedLeaves, LeavesMoves

LEMMA BeginMoves ==
  ASSUME NEW g, Formed(g), NEW b, NEW p, NEW e, NEW t
  PROVE  MovesGate(begin_rebind(g, b, p, e, t), g)
BY MovesIf DEF begin_rebind, Formed, GateFields

LEMMA ReadinessMoves ==
  ASSUME NEW g, Formed(g), NEW e
  PROVE  MovesGate(observe_rebind_readiness(g, e), g)
BY MovesIf DEF observe_rebind_readiness, Formed, GateFields

LEMMA CommitMoves ==
  ASSUME NEW g, Formed(g), NEW b, NEW t
  PROVE  MovesGate(commit_rebind(g, b, t), g)
BY MovesIf DEF commit_rebind, Formed, GateFields

LEMMA CloseMoves ==
  ASSUME NEW g, Formed(g)
  PROVE  MovesGate(close_admission(g), g)
BY MovesIf DEF close_admission, Formed, GateFields

LEMMA InvShaped == IInv => Shaped(Host)
<1> SUFFICES ASSUME IInv PROVE Shaped(Host)
  OBVIOUS
<1>1. PICK h : h = Host
  OBVIOUS
<1>2. h \in HostRecord
  BY <1>1 DEF IInv, Base
<1>3. h.gate \in Gate /\ h.gate.receipt \in Receipt /\ h.host \in Flags
  BY <1>2 DEF HostRecord, Gate
<1> QED BY <1>1, <1>2, <1>3 DEF Shaped, Formed, HostRecord, Gate, GateFields, Receipt,
           ReceiptFields, Flags, HostFields

-----------------------------------------------------------------------------
(* The steps of the host keep the operation or admit the next one *)

\* A step that keeps the operation: its authority may be revoked, its result stored
\* while the authority lasts, or its end be seen.
Keeps ==
  /\ MovesGate(gate', gate)
  /\ \/ host'.result = host.result
     \/ /\ host'.result = TRUE /\ ~is_revoked(gate'.receipt)
        /\ has_receipt(gate) /\ gate.receipt.settlement = "pending"

\* A step that admits the next operation.
Admits ==
  /\ ~has_receipt(gate) \/ gate.receipt.settlement = "settled"
  /\ gate.next_operation_id # 0
  /\ gate'.receipt.authority.operation_id = gate.next_operation_id
  /\ gate'.next_operation_id = following_operation_id(gate.next_operation_id)
  /\ gate'.receipt.settlement = "pending" /\ ~is_revoked(gate'.receipt)
  /\ host'.result = FALSE

LEMMA KeepsIf ==
  ASSUME NEW h, Becomes(h), Minds(h, Host)
  PROVE  Keeps
<1>1. gate' = renumbered(h.gate) /\ host' = h.host
  BY DEF Becomes
<1>2. MovesGate(h.gate, gate) /\ Formed(h.gate) /\ h.host.result = host.result
  BY DEF Minds, Shaped, Host
<1> QED BY <1>1, <1>2, RenumberedMoves, MovesThen DEF Keeps

LEMMA StartupCalm ==
  ASSUME NEW h, Shaped(h), NEW t, NEW c
  PROVE  \A v \in BOOLEAN : Calm(Startup(h, t, c, v), h)
<1> SUFFICES ASSUME NEW v \in BOOLEAN PROVE Calm(Startup(h, t, c, v), h)
  OBVIOUS
<1>1. PICK e : e = [concern |-> c, binding |-> h.gate.binding, value |-> v,
                    record |-> record(h, observer_of(c), t)]
  OBVIOUS
<1>2. Startup(h, t, c, v) = accept(h, accepts_startup(h.gate, e), observe_startup(h.gate, e))
  BY <1>1 DEF Startup
<1> QED BY <1>2, AcceptCalm, StartupLeaves DEF Shaped

LEMMA InitializingCalm ==
  ASSUME NEW h, Shaped(h), NEW t, NEW able \in BOOLEAN, NEW known,
         NEW r, r = Initializing(h, t, able, known)
  PROVE  Calm(r, h)
<1>1. PICK x, y, z : /\ x = Startup(h, t, "idle", TRUE)
                     /\ y = Startup(x, t, "worker", able)
                     /\ z = Startup(y, t, "sink", TRUE)
  OBVIOUS
<1>2. r = h \/ r = Flagged(z, able)
  BY <1>1 DEF Initializing, Started, then
<1>3. Calm(x, h) /\ Shaped(x)
  BY <1>1, StartupCalm DEF Calm
<1>4. Calm(y, x) /\ Shaped(y)
  <2>1. \A v \in BOOLEAN : Calm(Startup(x, t, "worker", v), x)
    BY <1>3, StartupCalm
  <2> QED BY <1>1, <2>1 DEF Calm
<1>5. Calm(z, y) /\ Shaped(z)
  <2>1. Calm(Startup(y, t, "sink", TRUE), y)
    BY <1>4, StartupCalm
  <2> QED BY <1>1, <2>1 DEF Calm
<1>6. Calm(Flagged(z, able), z)
  BY <1>5, CalmBeside DEF Flagged, Shaped, HostFields
<1> QED BY <1>2, <1>3, <1>4, <1>5, <1>6, CalmThen, CalmSelf

LEMMA InitializeKeeps ==
  ASSUME IInv, Initialize
  PROVE  Keeps
<1>1. PICK h, known : h = observe_capabilities(Host, now) /\ known = host.initialized
  OBVIOUS
<1>2. PICK r : r = Initializing(h, now, launchable, known)
  OBVIOUS
<1>3. Becomes(r)
  <2>1. Becomes(then(h, LAMBDA x : Initializing(x, now, launchable, known)))
    BY ONLY <1>1, Initialize DEF Initialize, Initializing, Started, Startup, Flagged
  <2>2. then(h, LAMBDA x : Initializing(x, now, launchable, known)) = r
    BY ONLY <1>2 DEF then
  <2> QED BY <2>1, <2>2
<1>4. Minds(h, Host) /\ Shaped(h)
  BY <1>1, InvShaped, CapabilitiesMind DEF Minds
<1>5. Calm(r, h)
  BY <1>2, <1>4, InitializingCalm DEF IInv
<1> QED BY <1>3, <1>4, <1>5, CalmMinds, MindsThen, KeepsIf

LEMMA PrepareServes ==
  ASSUME IInv, Prepare
  PROVE  Keeps \/ Admits
<1>a. PICK t \in Later, d \in Optional(Deadlines), h \in {observe_capabilities(Host, now)} :
        LET q == [requested_at |-> t, deadline |-> d, requirements |-> {Requirement}]
        IN  Becomes(IF ~admits(h.gate, q) THEN h
             ELSE [h EXCEPT !.gate = admit(@, q),
                            !.process = new_process, !.child = no_child,
                            !.host = [@ EXCEPT !.has_process = FALSE,
                                               !.result = FALSE,
                                               !.stop_reported = FALSE,
                                               !.outcome_reported = FALSE]])
  BY DEF Prepare
<1>1. PICK q, r :
        /\ h = observe_capabilities(Host, now)
        /\ q = [requested_at |-> t, deadline |-> d, requirements |-> {Requirement}]
        /\ r = IF ~admits(h.gate, q) THEN h
               ELSE [h EXCEPT !.gate = admit(@, q),
                              !.process = new_process, !.child = no_child,
                              !.host = [@ EXCEPT !.has_process = FALSE,
                                                 !.result = FALSE,
                                                 !.stop_reported = FALSE,
                                                 !.outcome_reported = FALSE]]
        /\ Becomes(r)
  BY <1>a
<1>2. /\ Minds(h, Host) /\ Shaped(h) /\ Host.gate = gate
      /\ h.gate.receipt = gate.receipt \/ h.gate.phase = "withdrawn"
  BY InvShaped, CapabilitiesMind DEF Minds, Host
<1>3. CASE ~admits(h.gate, q)
  BY <1>1, <1>2, <1>3, KeepsIf
<1>4. CASE admits(h.gate, q)
  <2>1. /\ h.gate.phase = "active" /\ h.gate.next_operation_id # 0
        /\ has_receipt(h.gate) => h.gate.receipt.settlement = "settled"
    BY <1>4 DEF admits, current_is_releasable, has_resolved_closure
  <2>2. /\ h.gate.receipt = gate.receipt
        /\ h.gate.next_operation_id = gate.next_operation_id
    BY <1>2, <2>1 DEF Minds, MovesGate
  <2>3. PICK s : s = new_receipt([operation_id |-> h.gate.next_operation_id,
                                  binding |-> h.gate.binding,
                                  admitted_at |-> q.requested_at],
                                 q.deadline, q.requirements)
    OBVIOUS
  <2>4. /\ s.authority.operation_id = h.gate.next_operation_id
        /\ s.settlement = "pending" /\ ~is_revoked(s)
        /\ ReceiptFields \subseteq DOMAIN s
    BY <2>3 DEF new_receipt, is_revoked, revocations, ReceiptFields
  <2>5. PICK g : g = admit(h.gate, q)
    OBVIOUS
  <2>6. /\ g.receipt = s /\ Formed(g)
        /\ g.next_operation_id = following_operation_id(h.gate.next_operation_id)
    BY <1>2, <1>4, <2>3, <2>4, <2>5 DEF admit, Shaped, Formed, GateFields
  <2>7. gate' = renumbered(g) /\ host'.result = FALSE
    <3>1. /\ gate' = renumbered(r.gate) /\ host' = r.host
          /\ r = [h EXCEPT !.gate = g, !.process = new_process, !.child = no_child,
                           !.host = [@ EXCEPT !.has_process = FALSE,
                                              !.result = FALSE,
                                              !.stop_reported = FALSE,
                                              !.outcome_reported = FALSE]]
      BY <1>1, <1>4, <2>5 DEF Becomes
    <3> QED BY <1>2, <3>1 DEF Shaped, HostFields
  <2>8. /\ Leaves(gate'.receipt, g.receipt) /\ gate'.receipt.settlement = g.receipt.settlement
        /\ gate'.next_operation_id = g.next_operation_id
    BY <2>6, <2>7, RenumberedLeaves DEF LeavesGate
  <2> QED BY <2>1, <2>2, <2>4, <2>6, <2>7, <2>8
          DEF Admits, Leaves, is_revoked, revocations, has_receipt
<1> QED BY <1>3, <1>4

LEMMA DispatchKeeps ==
  ASSUME IInv, DispatchPrepared
  PROVE  Keeps
<1>1. PICK t \in Later, fails \in May("spawn"), unclean \in May("close"),
           h \in {observe_capabilities(Host, now)} :
        Becomes(IF ~is_undispatched(h) THEN h
         ELSE then(expire(h, t), LAMBDA x :
                IF x.host.evidence_error \/ ~claims_dispatch(x.gate, authority(x), t)
                  THEN settle_unsubmitted(x, t, TRUE)
                  ELSE dispatched(x, t, ~fails, unclean)))
  BY DEF DispatchPrepared
<1>2. Minds(h, Host) /\ Shaped(h)
  BY InvShaped, CapabilitiesMind DEF Minds
<1>3. PICK x : x = expire(h, t)
  OBVIOUS
<1>4. Minds(x, h) /\ Shaped(x)
  BY <1>2, <1>3, ExpireMinds DEF Minds
<1>5. PICK a, b : a = settle_unsubmitted(x, t, TRUE) /\ b = dispatched(x, t, ~fails, unclean)
  OBVIOUS
<1>6. Calm(a, x) /\ Calm(b, x)
  BY <1>4, <1>5, SettleUnsubmittedCalm, DispatchedCalm
<1>7. Minds(a, Host) /\ Minds(b, Host)
  BY <1>2, <1>4, <1>6, CalmMinds, MindsThen
<1>8. Becomes(h) \/ Becomes(a) \/ Becomes(b)
  BY <1>1, <1>3, <1>5 DEF then
<1> QED BY <1>2, <1>7, <1>8, KeepsIf

LEMMA CancelKeeps ==
  ASSUME IInv, RequestCancel
  PROVE  Keeps
<1>1. Becomes(cancel(Host, now))
  BY DEF RequestCancel
<1> QED BY <1>1, InvShaped, CancelMinds, KeepsIf

LEMMA WithdrawKeeps ==
  ASSUME IInv, WithdrawBinding
  PROVE  Keeps
<1>1. PICK r : r = withdraw_host_binding(Host, gate.binding, now) /\ Becomes(r)
  BY DEF WithdrawBinding
<1> QED BY <1>1, InvShaped, WithdrawHostMinds, KeepsIf

LEMMA PollKeeps ==
  ASSUME IInv, Poll
  PROVE  Keeps
<1>1. PICK fails \in May("read") : Becomes(poll_begun(Host, now, fails))
  BY DEF Poll
<1>2. PICK r : r = poll_begun(Host, now, fails) /\ Becomes(r)
  BY <1>1
<1> QED BY <1>2, InvShaped, PollBegunMinds, KeepsIf

LEMMA ShutdownKeeps ==
  ASSUME IInv, BeginShutdown
  PROVE  Keeps
<1>1. PICK x : x = [Host EXCEPT !.gate = close_admission(@), !.host.shutdown = "closing"]
  OBVIOUS
<1>2. PICK y : y = IF has_receipt(gate) THEN cancel(x, now) ELSE x
  OBVIOUS
<1>a. PICK fails \in May("read") : Becomes(poll_begun(y, now, fails))
  BY <1>1, <1>2 DEF BeginShutdown, then
<1>3. PICK r : r = poll_begun(y, now, fails) /\ Becomes(r)
  BY <1>a
<1>4. Shaped(Host) /\ MovesGate(close_admission(gate), gate) /\ Host.gate = gate
  BY InvShaped, CloseMoves DEF Host, Shaped
<1>5. Minds(x, Host) /\ Shaped(x)
  BY <1>1, <1>4 DEF Minds, Shaped, HostFields, MovesGate
<1>6. Minds(y, x) /\ Shaped(y)
  BY <1>2, <1>5, CancelMinds, MindsSelf DEF Minds
<1>7. Minds(r, y)
  BY <1>3, <1>6, PollBegunMinds
<1> QED BY <1>3, <1>5, <1>6, <1>7, MindsThen, KeepsIf

\* The result is stored by a poll that finds the process running, and not after.
LEMMA FinishPollKeeps ==
  ASSUME IInv, FinishPoll
  PROVE  Keeps
<1>a. PICK u \in Later, fails \in May("close") : Becomes(poll_finished(Host, now, u, fails))
  BY DEF FinishPoll
<1>1. PICK r : r = poll_finished(Host, now, u, fails) /\ Becomes(r)
  BY <1>a
<1>2. /\ Shaped(Host) /\ Yields(r, Host)
      /\ ~observes(Host) => Calm(r, Host)
  BY <1>1, InvShaped, PollFinishedYields
<1>3. CASE ~observes(Host)
  BY <1>1, <1>2, <1>3, CalmMinds, KeepsIf
<1>4. CASE observes(Host)
  <2>a. PICK h : h = Host
    OBVIOUS
  <2>1. h = Host /\ h.gate = gate /\ h.host = host
    BY <2>a, HostIs
  <2>2. Pending(h) \/ Ended(h)
    BY <1>4, <2>1, ObservedRuns DEF IInv
  <2>3. has_receipt(gate) /\ gate.receipt.settlement = "pending"
    BY <2>1, <2>2 DEF Pending, Ended, Running, Addressed
  <2>4. gate' = renumbered(r.gate) /\ host' = r.host
    BY <1>1 DEF Becomes
  <2>5. Formed(r.gate) /\ MovesGate(r.gate, gate)
    BY <1>2, <2>1 DEF Yields, Shaped
  <2>6. MovesGate(gate', gate)
    BY <2>4, <2>5, RenumberedMoves, MovesThen
  <2>7. is_revoked(gate'.receipt) <=> is_revoked(r.gate.receipt)
    BY <2>4, <2>5, RenumberedLeaves DEF LeavesGate, Leaves, is_revoked, revocations
  <2>8. \/ host'.result = host.result
        \/ host'.result = TRUE /\ ~is_revoked(r.gate.receipt)
    BY <1>2, <2>1, <2>4 DEF Yields
  <2> QED BY <2>3, <2>6, <2>7, <2>8 DEF Keeps
<1> QED BY <1>3, <1>4

\* A rebinding leaves the receipt of the old operation as it is.
LEMMA RebindKeeps ==
  ASSUME IInv, RebindProvider
  PROVE  Keeps
<1> DEFINE Moved(q) == Formed(q) /\ MovesGate(q, gate)
<1>1. Moved(gate)
  BY InvShaped, LeavesSelf, LeavesMoves DEF Shaped, Host
<1>2. \A q, e : Moved(q) => /\ Moved(observe_rebind_readiness(q, e))
                            /\ Moved(observe_execution_capabilities(q, e))
  BY ReadinessMoves, CapabilitiesLeave, LeavesMoves, MovesThen DEF MovesGate
<1>3. \A q, b, t : Moved(q) => /\ Moved(commit_rebind(q, b, t))
                               /\ Moved(withdraw_binding(q, b, t))
  BY CommitMoves, WithdrawMoves, MovesThen DEF MovesGate
<1>4. \A b, p, e, t : Moved(begin_rebind(gate, b, p, e, t))
  BY <1>1, BeginMoves DEF MovesGate
<1>5. \E q : /\ Moved(q) /\ gate' = renumbered(q)
             /\ \/ host' = [host EXCEPT !.initialized = TRUE]
                \/ host' = host
  <2>1. PICK provider \in Provider, ready \in {TRUE, "executable" \notin Faults},
             t \in Later : Rebinds(provider, ready, t)
    BY ONLY RebindProvider DEF RebindProvider, Rebinds, OldScope, Observed, Slot, Able
  <2>2. PICK begun, b : /\ begun = begin_rebind(gate, gate.binding, provider, OldScope, now)
                        /\ b = begun.candidate.binding
    OBVIOUS
  <2>3. PICK i, w, s, c : /\ i = Slot(b, t, "idle", 3, TRUE)
                          /\ w = Slot(b, t, "worker", 4, ready)
                          /\ s = Slot(b, t, "sink", 5, TRUE)
                          /\ c = Able(b, t, ready)
    OBVIOUS
  <2>4. PICK x, y, z, g : /\ x = observe_rebind_readiness(begun, i)
                          /\ y = observe_rebind_readiness(x, w)
                          /\ z = observe_rebind_readiness(y, s)
                          /\ g = observe_execution_capabilities(z, c)
    OBVIOUS
  <2>5. g = Observed(begun, b, t, ready)
    BY ONLY <2>3, <2>4 DEF Observed
  <2>6. PICK q : /\ q \in {commit_rebind(g, b, t), withdraw_binding(g, b, t)}
                 /\ gate' = renumbered(q)
                 /\ host' = [host EXCEPT !.initialized = TRUE] \/ host' = host
    BY ONLY <2>1, <2>2, <2>5 DEF Rebinds
  <2>7. Moved(begun)
    BY <1>4, <2>2
  <2>8. Moved(z)
    <3>1. Moved(x) BY <1>2, <2>4, <2>7
    <3>2. Moved(y) BY <1>2, <2>4, <3>1
    <3> QED BY <1>2, <2>4, <3>2
  <2>9. Moved(g)
    BY <1>2, <2>4, <2>8
  <2>10. Moved(q)
    BY <1>3, <2>6, <2>9
  <2> QED BY <2>6, <2>10
<1>6. host'.result = host.result
  BY <1>5, InvShaped DEF Shaped, Host, HostFields
<1>7. MovesGate(gate', gate)
  BY <1>5, RenumberedMoves, MovesThen
<1> QED BY <1>6, <1>7 DEF Keeps

\* The system around the host leaves the gate and the host alone.
LEMMA OthersKeep ==
  ASSUME IInv, Work \/ Die \/ Steal \/ Executable \/ Tick \/ UNCHANGED vars
  PROVE  Keeps
<1>1. gate' = gate /\ host' = host
  BY DEF Work, Die, Steal, Executable, Tick, vars
<1>2. MovesGate(gate, gate)
  BY InvShaped, LeavesSelf, LeavesMoves DEF Shaped, Host
<1> QED BY <1>1, <1>2 DEF Keeps

LEMMA StepServes == IInv /\ [Next]_vars => Keeps \/ Admits
BY InitializeKeeps, WithdrawKeeps, RebindKeeps, PrepareServes, DispatchKeeps, CancelKeeps,
   PollKeeps, FinishPollKeeps, ShutdownKeeps, OthersKeep DEF Next

-----------------------------------------------------------------------------
(* The refinement *)

LEMMA StateOf ==
  ASSUME NEW h, NEW t, Base(h, t), Operation(h)
  PROVE  /\ domain_state(h.gate) =
              IF ~has_receipt(h.gate) \/ h.gate.receipt.settlement = "settled"
                THEN "free" ELSE "held"
         /\ h.gate.receipt.settlement \in {"pending", "settled"}
         /\ h.host.result \in BOOLEAN
<1>1. h \in HostRecord /\ h.gate \in Gate /\ h.gate.receipt \in Receipt /\ h.host \in Flags
  BY DEF Base, HostRecord, Gate
<1>2. h.gate.receipt.settlement \in {"pending", "settled"} /\ h.host.result \in BOOLEAN
  BY <1>1 DEF Receipt, Flags
<1>3. CASE ~has_receipt(h.gate)
  BY <1>2, <1>3 DEF domain_state
<1>4. CASE has_receipt(h.gate) /\ h.gate.receipt.settlement = "settled"
  <2>1. Closed(h)
    BY <1>4 DEF Operation, Nothing, Prepared, Untold, Pending, Ended, Running, Failed
  <2> QED BY <1>2, <1>4, <2>1, ClosedReleased DEF domain_state
<1>5. CASE has_receipt(h.gate) /\ h.gate.receipt.settlement = "pending"
  <2>1. h.gate.receipt.disposition # "released"
    BY <1>5, UnsettledHeld
  <2>2. h.gate.receipt.outcome # "unknown"
    BY <1>5 DEF Operation, Nothing, Prepared, Untold, Pending, Ended, Closed, Failed,
                has_resolved_effects
  <2>3. h.gate.receipt.disposition # "blocked_unknown"
    BY <2>2 DEF Base, Fresh, authority_disposition
  <2> QED BY <1>2, <1>5, <2>1, <2>3 DEF domain_state
<1> QED BY <1>2, <1>3, <1>4, <1>5

\* What the domain reads of the host.
DomainIs ==
  /\ domain_state(gate) =
       IF ~has_receipt(gate) \/ gate.receipt.settlement = "settled" THEN "free" ELSE "held"
  /\ gate.receipt.settlement \in {"pending", "settled"}
  /\ host.result \in BOOLEAN

LEMMA DomainRead == IInv => DomainIs
<1> SUFFICES ASSUME IInv PROVE DomainIs
  OBVIOUS
<1>1. PICK h : h = Host
  OBVIOUS
<1>2. Base(h, now) /\ Operation(h) /\ h.gate = gate /\ h.host = host
  BY <1>1, HostIs
<1> QED BY <1>2, StateOf DEF DomainIs

LEMMA DomainReadNext == IInv' => DomainIs'
BY DomainRead, PTL

\* The operations are numbered in the order of their admission, until the
\* numbers are used up.
Numbered ==
  gate.next_operation_id \in {0, gate.receipt.authority.operation_id + 1}

DInv == IInv /\ Numbered

LEMMA InitDInv == Init => DInv
<1>1. Init => Numbered
  BY DEF Init, Numbered, initial_gate, NoReceipt, new_receipt, NoAuthority
<1> QED BY <1>1, InitInv DEF DInv

LEMMA NextDInv == DInv /\ [Next]_vars => DInv'
<1> SUFFICES ASSUME DInv, [Next]_vars PROVE DInv'
  OBVIOUS
<1>1. IInv /\ IInv' /\ (Keeps \/ Admits)
  BY NextInv, StepServes DEF DInv
<1>2. CASE Keeps
  <2>1. gate'.next_operation_id = gate.next_operation_id
        /\ gate'.receipt.authority = gate.receipt.authority
    BY <1>2 DEF Keeps, MovesGate
  <2> QED BY <1>1, <2>1 DEF DInv, Numbered
<1>3. CASE Admits
  BY <1>1, <1>3 DEF Admits, DInv, Numbered, following_operation_id
<1> QED BY <1>1, <1>2, <1>3

\* A step that keeps the operation revokes it, delivers its result, releases it,
\* or is none of the domain.
LEMMA KeepsMapped ==
  ASSUME IInv, IInv', Keeps
  PROVE  [Domain!Next]_(Domain!domain)
<1>1. DomainIs /\ DomainIs'
  BY DomainRead, DomainReadNext
<1>2. /\ gate'.receipt.authority = gate.receipt.authority
      /\ has_receipt(gate') <=> has_receipt(gate)
      /\ gate.receipt.settlement = "settled" => gate'.receipt.settlement = "settled"
  BY DEF Keeps, MovesGate, has_receipt
<1>3. /\ is_revoked(gate.receipt) \in BOOLEAN /\ is_revoked(gate'.receipt) \in BOOLEAN
      /\ is_revoked(gate.receipt) => is_revoked(gate'.receipt)
      /\ is_revoked(gate'.receipt) => is_revoked(gate.receipt) \/ has_receipt(gate)
  BY DEF Keeps, MovesGate, is_revoked
<1>4. \/ host'.result = host.result
      \/ /\ host'.result = TRUE /\ ~is_revoked(gate'.receipt)
         /\ has_receipt(gate) /\ gate.receipt.settlement = "pending"
  BY DEF Keeps
<1> USE DEF Domain!Next, Domain!domain
<1>5. CASE domain_state(gate') = domain_state(gate)
  <2>1. CASE host'.result = host.result
    <3>1. CASE is_revoked(gate'.receipt) = is_revoked(gate.receipt)
      BY <1>2, <1>5, <2>1, <3>1
    <3>2. CASE is_revoked(gate'.receipt) # is_revoked(gate.receipt)
      <4>1. has_receipt(gate) /\ ~is_revoked(gate.receipt) /\ is_revoked(gate'.receipt)
        BY <1>3, <3>2
      <4> QED BY <1>2, <1>5, <2>1, <4>1 DEF Domain!Revoke, has_receipt
    <3> QED BY <3>1, <3>2
  <2>2. CASE host'.result # host.result
    <3>1. /\ host'.result = TRUE /\ host.result = FALSE /\ domain_state(gate) = "held"
          /\ ~is_revoked(gate'.receipt) /\ ~is_revoked(gate.receipt)
      BY <1>1, <1>3, <1>4, <2>2 DEF DomainIs
    <3>2. is_revoked(gate'.receipt) = FALSE /\ is_revoked(gate.receipt) = FALSE
      BY <1>3, <3>1
    <3>3. Domain!Deliver
      BY <1>2, <1>5, <3>1, <3>2 DEF Domain!Deliver
    <3> QED BY <3>3
  <2> QED BY <2>1, <2>2
<1>6. CASE domain_state(gate') # domain_state(gate)
  <2>1. domain_state(gate) = "held" /\ domain_state(gate') = "free"
    BY <1>1, <1>2, <1>6 DEF DomainIs
  <2>2. host.result \in BOOLEAN /\ host'.result \in BOOLEAN
    BY <1>1 DEF DomainIs
  <2> QED BY <1>2, <1>3, <1>4, <2>1, <2>2 DEF Domain!Release
<1> QED BY <1>5, <1>6

LEMMA AdmitsMapped ==
  ASSUME DInv, IInv', Admits
  PROVE  [Domain!Next]_(Domain!domain)
<1>1. DomainIs /\ DomainIs'
  BY DomainRead, DomainReadNext DEF DInv
<1>2. gate'.receipt.authority.operation_id = gate.receipt.authority.operation_id + 1
      /\ gate'.receipt.authority.operation_id # 0
  BY DEF DInv, Numbered, Admits
<1>3. has_receipt(gate') /\ gate'.receipt.settlement = "pending"
      /\ ~is_revoked(gate'.receipt) /\ host'.result = FALSE
      /\ (~has_receipt(gate) \/ gate.receipt.settlement = "settled")
  BY <1>2 DEF Admits, has_receipt
<1>4. domain_state(gate) = "free" /\ domain_state(gate') = "held"
  BY <1>1, <1>3 DEF DomainIs
<1>5. is_revoked(gate'.receipt) = FALSE
  BY <1>3 DEF is_revoked
<1> QED BY <1>2, <1>3, <1>4, <1>5 DEF Domain!Next, Domain!Admit

LEMMA StepMapped == DInv /\ [Next]_vars => [Domain!Next]_(Domain!domain)
BY NextDInv, StepServes, KeepsMapped, AdmitsMapped DEF DInv

LEMMA InitMapped == Init => Domain!Init
  BY DEF Init, Domain!Init, initial_gate, NoReceipt, new_receipt, NoAuthority, new_host,
         domain_state, has_receipt, is_revoked, revocations

\* compute_execution.cpp: the gate of the host and the result it has stored are one
\* effect domain.  At most one operation holds it, its result is stored at most once
\* and never after its authority was revoked, and the next operation is admitted
\* when the one before it has been released.
THEOREM HostImplementsDomain == Spec => ImplementsDomain
<1>1. Spec => []DInv
  BY InitDInv, NextDInv, PTL DEF Spec
<1> QED
  BY <1>1, InitMapped, StepMapped, PTL DEF Spec, ImplementsDomain, Domain!Spec
=============================================================================
