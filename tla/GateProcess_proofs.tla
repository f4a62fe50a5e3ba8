------------------------- MODULE GateProcess_proofs -------------------------
(***************************************************************************)
(* Facts about operators that the proofs about several owners share.  Those  *)
(* of the gate: each keeps the gate well typed, for every width of the       *)
(* counters and every set of times and evidence records.  Those of the       *)
(* ComputeProcess: what reading frames one after the other comes to, for     *)
(* every number of frames.                                                   *)
(***************************************************************************)
EXTENDS AuthorityGate, ComputeProcess, WellFoundedInduction, TLAPS

-----------------------------------------------------------------------------
(* Types: one lemma per operator *)

\* An absent value is an optional one.
LEMMA OptionalNone == ASSUME NEW S PROVE {} \in Optional(S)
  BY DEF Optional

\* A present value is an optional one.
LEMMA OptionalSome == ASSUME NEW S, NEW x \in S PROVE {x} \in Optional(S)
  BY DEF Optional

\* authority_disposition yields one of its four values.
LEMMA DispositionType ==
  ASSUME NEW r
  PROVE authority_disposition(r) \in {"current", "revoked", "released", "blocked_unknown"}
  BY DEF authority_disposition

\* refresh_authority_disposition keeps a receipt well typed.
LEMMA RefreshType ==
  ASSUME NEW r \in Receipt
  PROVE refresh_authority_disposition(r) \in Receipt
<1> DEFINE d == authority_disposition(r)
<1>1. d \in {"current", "revoked", "released", "blocked_unknown"}
  BY DispositionType
<1> HIDE DEF d
<1>2. [r EXCEPT !.disposition = d] \in Receipt
  BY <1>1 DEF Receipt
<1> QED BY <1>2 DEF refresh_authority_disposition, d

\* Revoking, with or without a stop request, keeps a receipt well typed.
LEMMA RevokeType ==
  ASSUME NEW r \in Receipt, NEW now \in Time
  PROVE revoke(r, now) \in Receipt
<1>1. {now} \in Optional(Time)
  BY OptionalSome
<1>2. [r EXCEPT !.stop_requested_at = {now},
                     !.stop_acknowledgement = "pending"] \in Receipt
  BY <1>1 DEF Receipt
<1> QED BY <1>2, RefreshType DEF revoke

\* A gate with another receipt is a gate.
LEMMA GateReceiptType ==
  ASSUME NEW g \in Gate, NEW r \in Receipt
  PROVE [g EXCEPT !.receipt = r] \in Gate
  BY DEF Gate

\* A receipt with one more evidence record is a receipt.
LEMMA EvidenceType ==
  ASSUME NEW r \in Receipt, NEW k \in EvidenceKind, NEW record \in EvidenceRecord
  PROVE [r EXCEPT !.evidence[k] = {record}] \in Receipt
<1>1. {record} \in Optional(EvidenceRecord)
  BY OptionalSome
<1>2. [r.evidence EXCEPT ![k] = {record}] \in [EvidenceKind -> Optional(EvidenceRecord)]
  BY <1>1 DEF Receipt
<1> QED BY <1>2 DEF Receipt

\* observe_native keeps the gate well typed; in particular the outcome is one of
\* the known ones also when terminal reports contradict each other.
LEMMA NativeType ==
  ASSUME NEW g \in Gate, NEW a, NEW id \in NativeIdentity,
         NEW kind \in NativeKind, NEW record \in EvidenceRecord
  PROVE observe_native(g,
          [authority |-> a, native_identity |-> id, kind |-> kind,
           record |-> record]) \in Gate
<1> DEFINE e == [authority |-> a, native_identity |-> id, kind |-> kind,
                 record |-> record]
           r == g.receipt
           evidence == IF r.evidence[e.kind] = {}
                    THEN [r.evidence EXCEPT ![e.kind] = {e.record}]
                    ELSE r.evidence
           outcome == native_outcome(r, e.kind, evidence)
           acceptance == IF e.kind \in {"accepted", "rejected"} THEN e.kind
                         ELSE r.acceptance
           s == [r EXCEPT !.evidence = evidence,
                  !.native_identity = {e.native_identity},
                  !.acceptance = acceptance,
                  !.outcome = outcome]
<1>1. r \in Receipt
  BY DEF Gate
<1>2. evidence \in [EvidenceKind -> Optional(EvidenceRecord)]
  BY <1>1, OptionalSome DEF Receipt, EvidenceKind
<1>3. outcome \in {"pending", "not_executed", "unknown"} \cup Terminal
  <2>1. seen_terminals(evidence) # {} =>
          (CHOOSE k \in Terminal : evidence[k] # {}) \in Terminal
    BY DEF seen_terminals
  <2> HIDE DEF evidence
  <2> QED BY <1>1, <2>1 DEF native_outcome, Receipt
<1>4. acceptance \in {"pending", "accepted", "rejected"}
  BY <1>1 DEF Receipt
<1>5. {e.native_identity} \in Optional(NativeIdentity)
  BY OptionalSome
<1>6. s \in Receipt
  <2> HIDE DEF evidence, outcome, acceptance, r, e
  <2> QED BY <1>1, <1>2, <1>3, <1>4, <1>5 DEF Receipt
<1>7. apply_native(r, e) \in Receipt
  BY <1>6, RefreshType DEF apply_native
<1>8. {[kind |-> e.kind, record |-> e.record]} \in
        Optional([kind : NativeKind, record : EvidenceRecord])
  BY OptionalSome
<1>9. [g EXCEPT !.receipt = apply_native(r, e),
                   !.last_native = {[kind |-> e.kind, record |-> e.record]}] \in Gate
  BY <1>7, <1>8 DEF Gate
<1> QED BY <1>9 DEF observe_native

\* observe_output_accepted keeps the gate well typed.
LEMMA OutputType ==
  ASSUME NEW g \in Gate, NEW a, NEW record \in EvidenceRecord
  PROVE observe_output_accepted(g, [authority |-> a, record |-> record]) \in Gate
<1>1. g.receipt \in Receipt
  BY DEF Gate
<1>2. [g.receipt EXCEPT !.output = "accepted",
                        !.evidence["output"] = {record}] \in Receipt
  <2>1. [g.receipt EXCEPT !.output = "accepted"] \in Receipt
    BY <1>1 DEF Receipt
  <2> QED BY <2>1, EvidenceType DEF EvidenceKind
<1> QED BY <1>1, <1>2, GateReceiptType, RefreshType DEF observe_output_accepted, Gate

\* A candidate slot stays well typed when it is filled, repeated or poisoned.
LEMMA SlotType ==
  \A V, slot, e, valid :
    /\ slot \in Optional(Observation(V))
    /\ e.value \in V /\ e.record \in EvidenceRecord /\ e.valid_until \in Time
    => observe_slot(slot, e, valid) \in Optional(Observation(V))
<1> SUFFICES ASSUME NEW V, NEW slot, NEW e, NEW valid,
                    slot \in Optional(Observation(V)),
                    e.value \in V, e.record \in EvidenceRecord,
                    e.valid_until \in Time
             PROVE observe_slot(slot, e, valid) \in Optional(Observation(V))
  OBVIOUS
<1> DEFINE same(p) == /\ p.record = e.record
                 /\ p.value = e.value /\ p.valid_until = e.valid_until
      poisoned(p) == [p EXCEPT !.conflicted = TRUE,
                        !.record.observed_at =
                          IF @ < e.record.observed_at
                            THEN e.record.observed_at ELSE @]
      fresh == [value |-> e.value, record |-> e.record,
               valid_until |-> e.valid_until, conflicted |-> FALSE]
      kept == {IF same(p) THEN p ELSE poisoned(p) : p \in slot}
<1>1. slot \subseteq Observation(V) /\ \A x, y \in slot : x = y
  BY DEF Optional
<1>2. \A p \in slot : poisoned(p) \in Observation(V)
  BY <1>1 DEF Observation, EvidenceRecord
<1>3. kept \in Optional(Observation(V))
  <2> HIDE DEF same, poisoned
  <2> QED BY <1>1, <1>2 DEF Optional
<1>4. {fresh} \in Optional(Observation(V))
  <2>1. fresh \in Observation(V)
    BY DEF Observation
  <2> QED BY <2>1, OptionalSome
<1> QED BY <1>3, <1>4 DEF observe_slot

\* observe_rebind_readiness keeps the gate well typed.
LEMMA ReadinessType ==
  ASSUME NEW g \in Gate, NEW c \in Concern, NEW b, NEW v \in BOOLEAN,
         NEW t \in Time, NEW record \in EvidenceRecord
  PROVE observe_rebind_readiness(g,
          [concern |-> c, binding |-> b, value |-> v,
           record |-> record, valid_until |-> t]) \in Gate
<1> DEFINE e == [concern |-> c, binding |-> b, value |-> v,
                 record |-> record, valid_until |-> t]
           slot == observe_slot(g.candidate.readiness[e.concern], e, TRUE)
<1>1. slot \in Optional(Observation(BOOLEAN))
  <2>1. g.candidate.readiness[e.concern] \in Optional(Observation(BOOLEAN))
    BY DEF Gate, Candidate
  <2>2. e.value \in BOOLEAN /\ e.record \in EvidenceRecord /\ e.valid_until \in Time
    OBVIOUS
  <2> QED BY <2>1, <2>2, SlotType
<1>2. [g.candidate EXCEPT !.readiness[e.concern] = slot] \in Candidate
  <2> HIDE DEF slot
  <2> QED BY <1>1 DEF Gate, Candidate
<1>3. [g EXCEPT !.candidate.readiness[e.concern] = slot] \in Gate
  <2> HIDE DEF slot
  <2> QED BY <1>2 DEF Gate
<1> QED BY <1>3 DEF observe_rebind_readiness

\* request_cancel keeps the gate well typed.
LEMMA CancelType ==
  ASSUME NEW g \in Gate, NEW a, NEW now \in Time
  PROVE request_cancel(g, a, now) \in Gate
<1>1. g.receipt \in Receipt
  BY DEF Gate
<1>2. [g.receipt EXCEPT !.cancelled_at = {now}] \in Receipt
  BY <1>1, OptionalSome DEF Receipt
<1> QED BY <1>1, <1>2, RevokeType, GateReceiptType DEF request_cancel

\* observe_time keeps the gate well typed.
LEMMA ExpiryType ==
  ASSUME NEW g \in Gate, NEW a, NEW now \in Time
  PROVE observe_time(g, a, now) \in Gate
<1>1. g.receipt \in Receipt
  BY DEF Gate
<1>2. [g.receipt EXCEPT !.expired_at = {now}] \in Receipt
  BY <1>1, OptionalSome DEF Receipt
<1> QED BY <1>1, <1>2, RevokeType, GateReceiptType DEF observe_time

\* observe_stop_acknowledgement keeps the gate well typed.
LEMMA StopType ==
  ASSUME NEW g \in Gate, NEW a, NEW k \in StopResponse,
         NEW record \in EvidenceRecord
  PROVE observe_stop_acknowledgement(g,
          [authority |-> a, acknowledgement |-> k, record |-> record]) \in Gate
<1>1. g.receipt \in Receipt
  BY DEF Gate
<1>2. [g.receipt EXCEPT !.stop_acknowledgement = k,
                        !.evidence["stop"] = {record}] \in Receipt
  <2>1. [g.receipt EXCEPT !.stop_acknowledgement = k] \in Receipt
    BY <1>1 DEF Receipt
  <2> QED BY <2>1, EvidenceType DEF EvidenceKind
<1> QED
  BY <1>1, <1>2, GateReceiptType DEF observe_stop_acknowledgement, Gate

\* observe_non_submission keeps the gate well typed.
LEMMA NonSubmissionType ==
  ASSUME NEW g \in Gate, NEW a, NEW record \in EvidenceRecord
  PROVE observe_non_submission(g, [authority |-> a, record |-> record]) \in Gate
<1>1. g.receipt \in Receipt
  BY DEF Gate
<1>2. [g.receipt EXCEPT !.dispatch = "not_submitted",
                        !.outcome = "not_executed",
                        !.evidence["non_submission"] = {record}] \in Receipt
  <2>1. [g.receipt EXCEPT !.dispatch = "not_submitted",
                          !.outcome = "not_executed"] \in Receipt
    BY <1>1 DEF Receipt
  <2> QED BY <2>1, EvidenceType DEF EvidenceKind
<1> QED
  BY <1>1, <1>2, GateReceiptType, RefreshType DEF observe_non_submission, Gate

\* observe_output_not_delivered keeps the gate well typed.
LEMMA NonDeliveryType ==
  ASSUME NEW g \in Gate, NEW a, NEW why \in NonDeliveryReason,
         NEW record \in EvidenceRecord
  PROVE observe_output_not_delivered(g,
          [authority |-> a, reason |-> why, record |-> record]) \in Gate
<1>1. g.receipt \in Receipt
  BY DEF Gate
<1>2. [g.receipt EXCEPT !.output = "not_delivered", !.reason = {why},
                        !.evidence["non_delivery"] = {record}] \in Receipt
  <2>1. [g.receipt EXCEPT !.output = "not_delivered",
                          !.reason = {why}] \in Receipt
    BY <1>1, OptionalSome DEF Receipt
  <2> QED BY <2>1, EvidenceType DEF EvidenceKind
<1> QED
  BY <1>1, <1>2, GateReceiptType, RefreshType
     DEF observe_output_not_delivered, Gate

\* observe_settlement keeps the gate well typed.
LEMMA SettlementType ==
  ASSUME NEW g \in Gate, NEW a, NEW permits, NEW record \in EvidenceRecord
  PROVE observe_settlement(g,
          [authority |-> a, permits_same_domain_admission |-> permits,
           record |-> record]) \in Gate
<1>1. g.receipt \in Receipt
  BY DEF Gate
<1>2. [g.receipt EXCEPT !.settlement = "settled",
                        !.evidence["settlement"] = {record}] \in Receipt
  <2>1. [g.receipt EXCEPT !.settlement = "settled"] \in Receipt
    BY <1>1 DEF Receipt
  <2> QED BY <2>1, EvidenceType DEF EvidenceKind
<1> QED
  BY <1>1, <1>2, GateReceiptType, RefreshType DEF observe_settlement, Gate

\* claim_dispatch keeps the gate well typed.
LEMMA DispatchType ==
  ASSUME NEW g \in Gate, NEW a, NEW now \in Time
  PROVE claim_dispatch(g, a, now) \in Gate
<1>1. g.receipt \in Receipt
  BY DEF Gate
<1>2. [g.receipt EXCEPT !.dispatch = "submitted",
                        !.dispatched_at = {now}] \in Receipt
  BY <1>1, OptionalSome DEF Receipt
<1> QED BY <1>1, <1>2, GateReceiptType DEF claim_dispatch, Gate

\* A receipt made by admit is well typed.
LEMMA NewReceiptType ==
  ASSUME NEW a \in Authority, NEW d \in Optional(Time),
         NEW x \in Optional(Requirements)
  PROVE new_receipt(a, d, x) \in Receipt
<1>1. \A S : {} \in Optional(S)
  BY OptionalNone
<1> QED BY <1>1 DEF new_receipt, Receipt

\* The absent candidate is well typed.
LEMMA NoCandidateType == NoCandidate \in Candidate
<1>1. \A S : {} \in Optional(S)
  BY OptionalNone
<1>2. NoBinding \in Binding
  BY NumberAssumption, BindingAssumption DEF NoBinding, Binding
<1> QED
  BY <1>1, <1>2, NumberAssumption, BindingAssumption
  DEF NoCandidate, new_candidate, Candidate

\* A new gate is well typed.
LEMMA InitialGateType == initial_gate \in Gate
<1>1. \A S : {} \in Optional(S)
  BY OptionalNone
<1>2. NoBinding \in Binding /\ InitialBinding \in Binding
  BY NumberAssumption, BindingAssumption DEF NoBinding, Binding
<1>3. NoAuthority \in Authority
  BY <1>2, NumberAssumption, BindingAssumption DEF NoAuthority, Authority
<1>4. NoReceipt \in Receipt
  BY <1>1, <1>3, NewReceiptType DEF NoReceipt
<1>5. InitialBinding.generation \in 0..LastGeneration
  BY <1>2 DEF Binding
<1>6. 1 \in 0..LastOperationId
  BY NumberAssumption, BindingAssumption
<1> QED
  BY <1>1, <1>2, <1>4, <1>5, <1>6, NoCandidateType, NumberAssumption, BindingAssumption
     DEF initial_gate, Gate

\* observe_startup keeps the gate well typed.
LEMMA StartupType ==
  ASSUME NEW g \in Gate, NEW c \in Concern, NEW b, NEW v \in BOOLEAN,
         NEW record \in EvidenceRecord
  PROVE observe_startup(g, [concern |-> c, binding |-> b, value |-> v,
                            record |-> record]) \in Gate
<1> DEFINE f == [value |-> v, record |-> record]
           facts == [g.facts EXCEPT ![c] = {f}]
           init == IF all_facts_hold(facts) THEN "ready" ELSE "recovery_required"
<1>1. {f} \in Optional(Fact)
  <2>1. f \in Fact
    BY DEF Fact
  <2> QED BY <2>1, OptionalSome
<1>2. facts \in [Concern -> Optional(Fact)]
  <2> HIDE DEF f
  <2> QED BY <1>1 DEF Gate
<1>3. init \in {"recovery_required", "ready", "closed"}
  OBVIOUS
<1>4. [g EXCEPT !.facts = facts, !.init = init] \in Gate
  <2> HIDE DEF facts, init
  <2> QED BY <1>2, <1>3 DEF Gate
<1> QED BY <1>4 DEF observe_startup

\* observe_execution_capabilities keeps the gate well typed, on both its paths.
LEMMA CapabilitiesType ==
  ASSUME NEW g \in Gate, NEW b \in Binding, NEW v \in Capabilities, NEW t \in Time,
         NEW record \in EvidenceRecord
  PROVE observe_execution_capabilities(g,
          [binding |-> b, value |-> v, record |-> record,
           valid_until |-> t]) \in Gate
<1> DEFINE e == [binding |-> b, value |-> v, record |-> record,
                 valid_until |-> t]
           slot == observe_slot(g.candidate.capabilities, e,
                                e.value.maximum_work_units # 0)
           f == [binding |-> b, value |-> v, record |-> record,
                 valid_until |-> t]
<1>1. slot \in Optional(Observation(Capabilities))
  <2>1. g.candidate.capabilities \in Optional(Observation(Capabilities))
    BY DEF Gate, Candidate
  <2>2. /\ e.value \in Capabilities
        /\ e.record \in EvidenceRecord /\ e.valid_until \in Time
    OBVIOUS
  <2> QED BY <2>1, <2>2, SlotType
<1>2. [g EXCEPT !.candidate.capabilities = slot] \in Gate
  <2> HIDE DEF slot
  <2>1. [g.candidate EXCEPT !.capabilities = slot] \in Candidate
    BY <1>1 DEF Gate, Candidate
  <2> QED BY <2>1 DEF Gate
<1>3. [g EXCEPT !.capabilities = {f}] \in Gate
  <2>1. {f} \in Optional(CapabilityFact)
    BY OptionalSome DEF CapabilityFact
  <2> QED BY <2>1 DEF Gate
<1> QED BY <1>2, <1>3 DEF observe_execution_capabilities

\* withdraw_binding keeps the gate well typed.
LEMMA WithdrawType ==
  ASSUME NEW g \in Gate, NEW b, NEW now \in Time
  PROVE withdraw_binding(g, b, now) \in Gate
<1> DEFINE withdrawn == IF has_candidate(g) THEN g.withdrawn_at ELSE {now}
           r == IF withdraws_current(g)
                  THEN revoke([g.receipt EXCEPT !.withdrawn_at = {now}], now)
                  ELSE g.receipt
<1>1. withdrawn \in Optional(Time)
  BY OptionalSome DEF Gate
<1>2. r \in Receipt
  <2>1. g.receipt \in Receipt
    BY DEF Gate
  <2>2. [g.receipt EXCEPT !.withdrawn_at = {now}] \in Receipt
    BY <2>1, OptionalSome DEF Receipt
  <2> QED BY <2>1, <2>2, RevokeType
<1> DEFINE h == [g EXCEPT
            !.last_binding_control_at = now,
            !.init = "recovery_required",
            !.phase = "withdrawn",
            !.candidate = NoCandidate,
            !.withdrawn_at = withdrawn,
            !.receipt = r]
<1>3. h \in Gate
  <2> HIDE DEF withdrawn, r
  <2> QED BY <1>1, <1>2, NoCandidateType DEF Gate
<1> QED BY <1>3 DEF withdraw_binding

\* begin_rebind keeps the gate well typed: its guard keeps the generation inside
\* its width.
LEMMA BeginType ==
  ASSUME NEW g \in Gate, NEW b, NEW p \in Provider, NEW now \in Time,
         NEW t \in Time, NEW record \in EvidenceRecord
  PROVE begin_rebind(g, b, p,
          [binding |-> b, record |-> record, valid_until |-> t], now) \in Gate
<1> DEFINE e == [binding |-> b, record |-> record, valid_until |-> t]
           binding == [provider |-> p, generation |-> g.generation_high_water + 1]
           scope == [record |-> record, valid_until |-> t]
           c == new_candidate(binding, now, {scope})
<1> SUFFICES ASSUME begins_rebind(g, b, e, now)
             PROVE begin_rebind(g, b, p, e, now) \in Gate
  BY DEF begin_rebind
<1>1. g.generation_high_water + 1 \in 0..LastGeneration
  BY NumberAssumption DEF begins_rebind, Gate
<1>2. binding \in Binding
  BY <1>1 DEF Binding
<1>3. {scope} \in Optional([record : EvidenceRecord, valid_until : Time])
  BY OptionalSome
<1>4. c \in Candidate
  <2> HIDE DEF binding, scope
  <2> QED BY <1>2, <1>3, OptionalNone DEF new_candidate, Candidate
<1>5. {record} \in Optional(EvidenceRecord)
  BY OptionalSome
<1>6. [g EXCEPT !.candidate = c, !.last_old_scope_record = {record},
                !.generation_high_water = g.generation_high_water + 1,
                !.last_binding_control_at = now,
                !.phase = "preparing"] \in Gate
  <2> HIDE DEF c
  <2> QED BY <1>1, <1>4, <1>5 DEF Gate
<1> QED BY <1>6 DEF begin_rebind

\* commit_rebind keeps the gate well typed.
LEMMA CommitType ==
  ASSUME NEW g \in Gate, NEW b, NEW now \in Time
  PROVE commit_rebind(g, b, now) \in Gate
<1> DEFINE c == g.candidate
           facts == [k \in Concern |->
                      {[value |-> TRUE, record |-> p.record] :
                         p \in c.readiness[k]}]
           capabilities == {[binding |-> c.binding, value |-> p.value,
                             record |-> p.record,
                             valid_until |-> p.valid_until] :
                               p \in c.capabilities}
<1>1. c \in Candidate
  BY DEF Gate
<1>2. facts \in [Concern -> Optional(Fact)]
  <2> SUFFICES ASSUME NEW k \in Concern
               PROVE {[value |-> TRUE, record |-> p.record] :
                         p \in c.readiness[k]} \in Optional(Fact)
    OBVIOUS
  <2>1. /\ c.readiness[k] \subseteq Observation(BOOLEAN)
        /\ \A x, y \in c.readiness[k] : x = y
    BY <1>1 DEF Candidate, Optional
  <2>2. \A p \in c.readiness[k] : [value |-> TRUE, record |-> p.record] \in Fact
    BY <2>1 DEF Observation, Fact
  <2> QED BY <2>1, <2>2 DEF Optional
<1>3. capabilities \in Optional(CapabilityFact)
  <2>1. /\ c.capabilities \subseteq Observation(Capabilities)
        /\ \A x, y \in c.capabilities : x = y
    BY <1>1 DEF Candidate, Optional
  <2>2. \A p \in c.capabilities :
          [binding |-> c.binding, value |-> p.value, record |-> p.record,
           valid_until |-> p.valid_until] \in CapabilityFact
    BY <1>1, <2>1 DEF Observation, CapabilityFact, Candidate
  <2> QED BY <2>1, <2>2 DEF Optional
<1>4. [g EXCEPT !.binding = c.binding, !.facts = facts,
                !.capabilities = capabilities,
                !.last_old_scope_record = {}, !.candidate = NoCandidate,
                !.last_binding_control_at = now,
                !.init = "ready", !.phase = "active"] \in Gate
  <2>1. c.binding \in Binding /\ {} \in Optional(EvidenceRecord)
    BY <1>1, OptionalNone DEF Candidate
  <2> HIDE DEF facts, capabilities
  <2> QED BY <2>1, <1>2, <1>3, NoCandidateType DEF Gate
<1> QED BY <1>4 DEF commit_rebind

\* close_admission keeps the gate well typed.
LEMMA CloseType == ASSUME NEW g \in Gate PROVE close_admission(g) \in Gate
  BY NoCandidateType DEF close_admission, Gate

\* admit keeps the gate well typed, also when the operation counter wraps.
LEMMA AdmitType ==
  ASSUME NEW g \in Gate, NEW now \in Time, NEW d \in Optional(Time),
         NEW x \in Optional(Requirements)
  PROVE admit(g, [requested_at |-> now, deadline |-> d,
                  requirements |-> x]) \in Gate
<1> DEFINE a == [operation_id |-> g.next_operation_id,
                 binding |-> g.binding, admitted_at |-> now]
           r == new_receipt(a, d, x)
           next == following_operation_id(g.next_operation_id)
<1>1. r \in Receipt
  <2>1. a \in Authority
    BY DEF Gate, Authority
  <2> QED BY <2>1, NewReceiptType
<1>2. next \in 0..LastOperationId
  BY NumberAssumption DEF following_operation_id, Gate
<1>3. {} \in Optional([kind : NativeKind, record : EvidenceRecord])
  BY OptionalNone
<1>4. [g EXCEPT !.next_operation_id = next, !.receipt = r,
                !.last_native = {}] \in Gate
  <2> HIDE DEF r, next
  <2> QED BY <1>1, <1>2, <1>3 DEF Gate
<1> QED BY <1>4 DEF admit
-----------------------------------------------------------------------------
(* What the owner of a gate relies on: its receipt, at the time it last read *)

\* No time in the receipt is later than t.
Timed(r, t) ==
  /\ r.authority.admitted_at <= t
  /\ \A x \in r.dispatched_at \cup revocations(r) : x <= t
  /\ \A k \in EvidenceKind : \A p \in r.evidence[k] : p.observed_at <= t

\* What is released is over; a success was seen; work that may still be running
\* for a revoked authority was asked to stop.
Reliable(r) ==
  /\ r.disposition = "released" => r.output # "pending" /\ r.outcome # "pending"
  /\ r.outcome = "succeeded" => r.evidence["succeeded"] # {}
  /\ r.outcome = "pending" => \A k \in Terminal : r.evidence[k] = {}
  /\ r.dispatch = "pending" => r.outcome = "pending"
  /\ is_revoked(r) /\ r.dispatch = "submitted" /\ r.outcome = "pending"
       => r.stop_requested_at # {}

\* An identity that is still to be given is a new one.
GateOK(g, t) ==
  /\ g \in Gate /\ Reliable(g.receipt) /\ Timed(g.receipt, t)
  /\ g.next_operation_id # 0
       => g.receipt.authority.operation_id < g.next_operation_id

\* The gate h is about the same operation on the same binding as g.
SameSubject(h, g) ==
  /\ h.receipt.authority = g.receipt.authority
  /\ h.receipt.deadline = g.receipt.deadline
  /\ h.binding = g.binding /\ h.next_operation_id = g.next_operation_id
  /\ h.candidate = g.candidate

\* A report to the gate revokes nothing and asks nothing of the work.
OnlyReported(h, g, t) ==
  /\ GateOK(h, t) /\ SameSubject(h, g)
  /\ h.phase = g.phase /\ h.init = g.init
  /\ revocations(h.receipt) = revocations(g.receipt)
  /\ h.receipt.stop_requested_at = g.receipt.stop_requested_at

SameWork(h, g) ==
  h.receipt.dispatch = g.receipt.dispatch /\ h.receipt.outcome = g.receipt.outcome

SameOutput(h, g) == h.receipt.output = g.receipt.output

\* Times only pass.
LEMMA TimedLater ==
  ASSUME NEW g, NEW t \in Nat, NEW u \in Nat, t <= u, GateOK(g, t)
  PROVE  GateOK(g, u)
<1>1. g.receipt \in Receipt
  BY DEF GateOK, Gate
<1>2. /\ g.receipt.authority.admitted_at \in Nat
      /\ g.receipt.dispatched_at \subseteq Nat /\ revocations(g.receipt) \subseteq Nat
      /\ \A k \in EvidenceKind : \A p \in g.receipt.evidence[k] : p.observed_at \in Nat
  <2> DEFINE r == g.receipt
  <2>1. Time \subseteq Nat /\ \A S : \A T \in Optional(S) : T \subseteq S
    BY NumberAssumption DEF Optional
  <2>2. /\ r.authority \in Authority
        /\ r.dispatched_at \in Optional(Time) /\ r.cancelled_at \in Optional(Time)
        /\ r.expired_at \in Optional(Time) /\ r.withdrawn_at \in Optional(Time)
        /\ \A k \in EvidenceKind : r.evidence[k] \in Optional(EvidenceRecord)
    BY <1>1 DEF Receipt
  <2> HIDE DEF r
  <2>3. /\ r.dispatched_at \subseteq Nat /\ revocations(r) \subseteq Nat
        /\ \A k \in EvidenceKind : r.evidence[k] \subseteq EvidenceRecord
    BY <2>1, <2>2 DEF revocations
  <2>4. r.authority.admitted_at \in Nat
    BY <2>1, <2>2 DEF Authority
  <2>5. \A p \in EvidenceRecord : p.observed_at \in Nat
    BY <2>1 DEF EvidenceRecord
  <2> QED BY <2>3, <2>4, <2>5 DEF r
<1>3. Timed(g.receipt, u)
  BY <1>2 DEF GateOK, Timed
<1> QED BY <1>3 DEF GateOK

\* The code compares a time with the latest one of the receipt.
LEMMA TimedCalls ==
  ASSUME NEW r \in Receipt, NEW t \in Nat, Timed(r, t)
  PROVE  not_before(t, receipt_times(r)) /\ not_before(t, effect_times(r))
<1>1. \A k \in EvidenceKind : \A x \in times_of(r.evidence[k]) : x <= t
  BY DEF Timed, times_of
<1>2. \A x \in effect_times(r) : x <= t
  BY <1>1 DEF Timed, effect_times
<1>3. "stop" \in EvidenceKind
  BY DEF EvidenceKind
<1> QED BY <1>1, <1>2, <1>3 DEF not_before, receipt_times, Timed

\* What refreshing changes, and that a released receipt is over.
LEMMA Refreshed ==
  ASSUME NEW r \in Receipt
  PROVE  /\ refresh_authority_disposition(r) \in Receipt
         /\ refresh_authority_disposition(r)
              = [r EXCEPT !.disposition = refresh_authority_disposition(r).disposition]
         /\ refresh_authority_disposition(r).disposition = "released"
              => r.output # "pending" /\ r.outcome # "pending"
<1> DEFINE d == authority_disposition(r)
<1>1. refresh_authority_disposition(r) = [r EXCEPT !.disposition = d]
  BY DEF refresh_authority_disposition
<1>2. d = "released" => has_resolved_effects(r)
  BY DEF authority_disposition, has_resolved_closure
<1>3. has_resolved_effects(r) => r.output # "pending" /\ r.outcome # "pending"
  BY DEF has_resolved_effects
<1> HIDE DEF d
<1>4. refresh_authority_disposition(r).disposition = d
  BY <1>1 DEF Receipt
<1> QED BY <1>1, <1>2, <1>3, <1>4, RefreshType

\* A receipt that differs in its disposition, as it was refreshed, only.
LEMMA RefreshedReceipt ==
  ASSUME NEW s \in Receipt, NEW r, NEW t, r = refresh_authority_disposition(s),
         Timed(s, t), Reliable([s EXCEPT !.disposition = "current"])
  PROVE  /\ r \in Receipt /\ Timed(r, t) /\ Reliable(r)
         /\ r.authority = s.authority /\ r.deadline = s.deadline
         /\ revocations(r) = revocations(s)
         /\ r.stop_requested_at = s.stop_requested_at
         /\ r.dispatch = s.dispatch /\ r.outcome = s.outcome /\ r.output = s.output
         /\ r.evidence = s.evidence
<1> DEFINE d == r.disposition
           q == [s EXCEPT !.disposition = "current"]
<1>1. /\ r \in Receipt /\ r = [s EXCEPT !.disposition = d]
      /\ d = "released" => s.output # "pending" /\ s.outcome # "pending"
  BY Refreshed
<1>2. /\ r.authority = s.authority /\ r.deadline = s.deadline
      /\ r.cancelled_at = s.cancelled_at /\ r.expired_at = s.expired_at
      /\ r.withdrawn_at = s.withdrawn_at /\ r.dispatched_at = s.dispatched_at
      /\ r.stop_requested_at = s.stop_requested_at
      /\ r.dispatch = s.dispatch /\ r.outcome = s.outcome /\ r.output = s.output
      /\ r.evidence = s.evidence
  <2> HIDE DEF d
  <2> QED BY <1>1 DEF Receipt
<1>3. /\ q.cancelled_at = s.cancelled_at /\ q.expired_at = s.expired_at
      /\ q.withdrawn_at = s.withdrawn_at
      /\ q.stop_requested_at = s.stop_requested_at
      /\ q.dispatch = s.dispatch /\ q.outcome = s.outcome /\ q.evidence = s.evidence
  BY DEF Receipt
<1> HIDE DEF q
<1>4. revocations(r) = revocations(s) /\ revocations(q) = revocations(s)
  BY <1>2, <1>3 DEF revocations
<1>5. Timed(r, t)
  BY <1>2, <1>4 DEF Timed
<1>6. Reliable(q)
  BY DEF q
<1>7. Reliable(r)
  BY <1>1, <1>2, <1>3, <1>4, <1>6 DEF Reliable, is_revoked
<1> QED BY <1>1, <1>2, <1>4, <1>5, <1>7
\* A receipt in the place of another of the same operation.
LEMMA ReceiptReport ==
  ASSUME NEW t, NEW g, GateOK(g, t), NEW r \in Receipt, Timed(r, t), Reliable(r),
         r.authority = g.receipt.authority, r.deadline = g.receipt.deadline,
         revocations(r) = revocations(g.receipt),
         r.stop_requested_at = g.receipt.stop_requested_at,
         NEW h, h = [g EXCEPT !.receipt = r]
  PROVE  OnlyReported(h, g, t) /\ h.receipt = r
<1>1. g \in Gate
  BY DEF GateOK
<1>2. /\ h \in Gate /\ h.receipt = r /\ h.binding = g.binding /\ h.phase = g.phase
      /\ h.init = g.init /\ h.candidate = g.candidate
      /\ h.next_operation_id = g.next_operation_id
  BY <1>1 DEF Gate
<1> QED BY <1>2 DEF OnlyReported, GateOK, SameSubject

\* A report that is not taken.
LEMMA NoReport == ASSUME NEW t, NEW g, GateOK(g, t) PROVE OnlyReported(g, g, t)
BY DEF OnlyReported, SameSubject

\* Non-submission ends the operation.
LEMMA NonSubmissionReport ==
  ASSUME NEW t, NEW g, GateOK(g, t), NEW a, NEW record \in EvidenceRecord,
         record.observed_at <= t,
         NEW h, h = observe_non_submission(g, [authority |-> a, record |-> record])
  PROVE  OnlyReported(h, g, t) /\ SameOutput(h, g)
<1> DEFINE e == [authority |-> a, record |-> record]
           q == g.receipt
           s == [q EXCEPT !.dispatch = "not_submitted", !.outcome = "not_executed",
                          !.evidence["non_submission"] = {record}]
           r == refresh_authority_disposition(s)
<1>1. CASE ~accepts_non_submission(g, e)
  BY <1>1, NoReport DEF observe_non_submission, SameOutput
<1>2. CASE accepts_non_submission(g, e)
  <2>1. h = [g EXCEPT !.receipt = r]
    BY <1>2 DEF observe_non_submission
  <2>2. q \in Receipt /\ Timed(q, t) /\ Reliable(q)
    BY DEF GateOK, Gate
  <2>3. [q EXCEPT !.dispatch = "not_submitted", !.outcome = "not_executed"] \in Receipt
    BY <2>2 DEF Receipt
  <2>4. s \in Receipt
    BY <2>3, EvidenceType DEF EvidenceKind
  <2> HIDE DEF q
  <2>5. /\ s.authority = q.authority /\ s.deadline = q.deadline
        /\ s.dispatched_at = q.dispatched_at /\ revocations(s) = revocations(q)
        /\ s.stop_requested_at = q.stop_requested_at /\ s.output = q.output
        /\ s.dispatch = "not_submitted" /\ s.outcome = "not_executed"
        /\ \A k \in EvidenceKind : s.evidence[k] =
             IF k = "non_submission" THEN {record} ELSE q.evidence[k]
    BY <2>2 DEF Receipt, revocations
  <2>6. Timed(s, t)
    BY <2>2, <2>5 DEF Timed
  <2>7. Reliable([s EXCEPT !.disposition = "current"])
    <3> HIDE DEF s
    <3> QED BY <2>2, <2>4, <2>5 DEF Reliable, Receipt
  <2> HIDE DEF s, e
  <2>8. /\ r \in Receipt /\ Timed(r, t) /\ Reliable(r)
        /\ r.authority = q.authority /\ r.deadline = q.deadline
        /\ revocations(r) = revocations(q)
        /\ r.stop_requested_at = q.stop_requested_at /\ r.output = q.output
    BY <2>4, <2>5, <2>6, <2>7, RefreshedReceipt
  <2> HIDE DEF r
  <2>9. OnlyReported(h, g, t) /\ h.receipt = r
    BY <2>1, <2>8, ReceiptReport DEF q
  <2> QED BY <2>8, <2>9 DEF SameOutput, q
<1> QED BY <1>1, <1>2
\* Non-delivery is about the output only.
LEMMA NonDeliveryReport ==
  ASSUME NEW t, NEW g, GateOK(g, t), NEW a, NEW why \in NonDeliveryReason,
         NEW record \in EvidenceRecord, record.observed_at <= t,
         NEW h, h = observe_output_not_delivered(g,
                      [authority |-> a, reason |-> why, record |-> record])
  PROVE  /\ OnlyReported(h, g, t) /\ SameWork(h, g)
         /\ h.receipt.output = "accepted" <=> g.receipt.output = "accepted"
<1> DEFINE e == [authority |-> a, reason |-> why, record |-> record]
           q == g.receipt
           s == [q EXCEPT !.output = "not_delivered", !.reason = {why},
                          !.evidence["non_delivery"] = {record}]
           r == refresh_authority_disposition(s)
<1>1. CASE ~accepts_non_delivery(g, e)
  BY <1>1, NoReport DEF observe_output_not_delivered, SameWork
<1>2. CASE accepts_non_delivery(g, e)
  <2>1. h = [g EXCEPT !.receipt = r] /\ q.output = "pending"
    BY <1>2 DEF observe_output_not_delivered, accepts_non_delivery
  <2>2. q \in Receipt /\ Timed(q, t) /\ Reliable(q)
    BY DEF GateOK, Gate
  <2>3. [q EXCEPT !.output = "not_delivered", !.reason = {why}] \in Receipt
    BY <2>2, OptionalSome DEF Receipt
  <2>4. s \in Receipt
    BY <2>3, EvidenceType DEF EvidenceKind
  <2> HIDE DEF q
  <2>5. /\ s.authority = q.authority /\ s.deadline = q.deadline
        /\ s.dispatched_at = q.dispatched_at /\ revocations(s) = revocations(q)
        /\ s.stop_requested_at = q.stop_requested_at /\ s.output = "not_delivered"
        /\ s.dispatch = q.dispatch /\ s.outcome = q.outcome
        /\ \A k \in EvidenceKind : s.evidence[k] =
             IF k = "non_delivery" THEN {record} ELSE q.evidence[k]
    BY <2>2 DEF Receipt, revocations
  <2>6. Timed(s, t)
    BY <2>2, <2>5 DEF Timed
  <2>7. Reliable([s EXCEPT !.disposition = "current"])
    <3> DEFINE x == [s EXCEPT !.disposition = "current"]
    <3>1. /\ x.disposition = "current" /\ revocations(x) = revocations(s)
          /\ x.dispatch = s.dispatch /\ x.outcome = s.outcome
          /\ x.stop_requested_at = s.stop_requested_at
          /\ x.evidence = s.evidence
      <4> HIDE DEF s
      <4> QED BY <2>4 DEF Receipt, revocations
    <3> HIDE DEF s, x
    <3>2. "non_delivery" \notin Terminal /\ Terminal \subseteq EvidenceKind
      BY DEF Terminal, EvidenceKind, NativeKind
    <3>3. Reliable(x)
      BY <2>2, <2>5, <3>1, <3>2 DEF Reliable, is_revoked, Terminal
    <3> QED BY <3>3 DEF x
  <2> HIDE DEF s, e
  <2>8. /\ r \in Receipt /\ Timed(r, t) /\ Reliable(r)
        /\ r.authority = q.authority /\ r.deadline = q.deadline
        /\ revocations(r) = revocations(q)
        /\ r.stop_requested_at = q.stop_requested_at /\ r.output = "not_delivered"
        /\ r.dispatch = q.dispatch /\ r.outcome = q.outcome
    BY <2>4, <2>5, <2>6, <2>7, RefreshedReceipt
  <2> HIDE DEF r
  <2>9. OnlyReported(h, g, t) /\ h.receipt = r
    BY <2>1, <2>8, ReceiptReport DEF q
  <2> QED BY <2>1, <2>8, <2>9 DEF SameWork, q
<1> QED BY <1>1, <1>2

\* Settlement is about the settlement only.
LEMMA SettlementReport ==
  ASSUME NEW t, NEW g, GateOK(g, t), NEW a, NEW permits,
         NEW record \in EvidenceRecord, record.observed_at <= t,
         NEW h, h = observe_settlement(g,
                      [authority |-> a, permits_same_domain_admission |-> permits,
                       record |-> record])
  PROVE  OnlyReported(h, g, t) /\ SameWork(h, g) /\ SameOutput(h, g)
<1> DEFINE e == [authority |-> a, permits_same_domain_admission |-> permits,
                 record |-> record]
           q == g.receipt
           s == [q EXCEPT !.settlement = "settled",
                          !.evidence["settlement"] = {record}]
           r == refresh_authority_disposition(s)
<1>1. CASE ~accepts_settlement(g, e)
  BY <1>1, NoReport DEF observe_settlement, SameWork, SameOutput
<1>2. CASE accepts_settlement(g, e)
  <2>1. h = [g EXCEPT !.receipt = r]
    BY <1>2 DEF observe_settlement
  <2>2. q \in Receipt /\ Timed(q, t) /\ Reliable(q)
    BY DEF GateOK, Gate
  <2>3. [q EXCEPT !.settlement = "settled"] \in Receipt
    BY <2>2 DEF Receipt
  <2>4. s \in Receipt
    BY <2>3, EvidenceType DEF EvidenceKind
  <2> HIDE DEF q
  <2>5. /\ s.authority = q.authority /\ s.deadline = q.deadline
        /\ s.dispatched_at = q.dispatched_at /\ revocations(s) = revocations(q)
        /\ s.stop_requested_at = q.stop_requested_at /\ s.output = q.output
        /\ s.dispatch = q.dispatch /\ s.outcome = q.outcome
        /\ \A k \in EvidenceKind : s.evidence[k] =
             IF k = "settlement" THEN {record} ELSE q.evidence[k]
    BY <2>2 DEF Receipt, revocations
  <2>6. Timed(s, t)
    BY <2>2, <2>5 DEF Timed
  <2>7. Reliable([s EXCEPT !.disposition = "current"])
    <3> DEFINE x == [s EXCEPT !.disposition = "current"]
    <3>1. /\ x.disposition = "current" /\ revocations(x) = revocations(s)
          /\ x.dispatch = s.dispatch /\ x.outcome = s.outcome
          /\ x.stop_requested_at = s.stop_requested_at
          /\ x.evidence = s.evidence
      <4> HIDE DEF s
      <4> QED BY <2>4 DEF Receipt, revocations
    <3> HIDE DEF s, x
    <3>2. "settlement" \notin Terminal /\ Terminal \subseteq EvidenceKind
      BY DEF Terminal, EvidenceKind, NativeKind
    <3>3. Reliable(x)
      BY <2>2, <2>5, <3>1, <3>2 DEF Reliable, is_revoked, Terminal
    <3> QED BY <3>3 DEF x
  <2> HIDE DEF s, e
  <2>8. /\ r \in Receipt /\ Timed(r, t) /\ Reliable(r)
        /\ r.authority = q.authority /\ r.deadline = q.deadline
        /\ revocations(r) = revocations(q)
        /\ r.stop_requested_at = q.stop_requested_at /\ r.output = q.output
        /\ r.dispatch = q.dispatch /\ r.outcome = q.outcome
    BY <2>4, <2>5, <2>6, <2>7, RefreshedReceipt
  <2> HIDE DEF r
  <2>9. OnlyReported(h, g, t) /\ h.receipt = r
    BY <2>1, <2>8, ReceiptReport DEF q
  <2> QED BY <2>8, <2>9 DEF SameWork, SameOutput, q
<1> QED BY <1>1, <1>2
\* An accepted output is about the output only, and it is taken whenever the result
\* may be delivered, was seen and its deadline is not reached.
LEMMA OutputReport ==
  ASSUME NEW t \in Nat, NEW g, GateOK(g, t), NEW a, NEW record \in EvidenceRecord,
         record.observed_at = t, record.source = ResultSinkObserver,
         record.sequence # 0, can_deliver_result(g, a),
         ~has_reached_deadline(g.receipt, t),
         NEW h, h = observe_output_accepted(g, [authority |-> a, record |-> record])
  PROVE  OnlyReported(h, g, t) /\ SameWork(h, g) /\ h.receipt.output = "accepted"
<1> DEFINE e == [authority |-> a, record |-> record]
           q == g.receipt
           s == [q EXCEPT !.output = "accepted", !.evidence["output"] = {record}]
           r == refresh_authority_disposition(s)
<1>1. q \in Receipt /\ Timed(q, t) /\ Reliable(q)
  BY DEF GateOK, Gate
<1>2. accepts_output(g, e)
  <2>1. is_record_well_formed(e.record, ResultSinkObserver, {e.authority.admitted_at})
    BY <1>1 DEF is_record_well_formed, can_deliver_result, current_authority_matches,
                Timed
  <2>2. "succeeded" \in EvidenceKind
    BY DEF EvidenceKind, NativeKind
  <2>3. \E p \in q.evidence["succeeded"] : p.observed_at <= e.record.observed_at
    BY <1>1, <2>2 DEF can_deliver_result, Reliable, Timed
  <2> QED BY <2>1, <2>3 DEF accepts_output
<1>3. h = [g EXCEPT !.receipt = r]
  BY <1>2 DEF observe_output_accepted
<1>4. [q EXCEPT !.output = "accepted"] \in Receipt
  BY <1>1 DEF Receipt
<1>5. s \in Receipt
  BY <1>4, EvidenceType DEF EvidenceKind
<1> HIDE DEF q
<1>6. /\ s.authority = q.authority /\ s.deadline = q.deadline
      /\ s.dispatched_at = q.dispatched_at /\ revocations(s) = revocations(q)
      /\ s.stop_requested_at = q.stop_requested_at /\ s.output = "accepted"
      /\ s.dispatch = q.dispatch /\ s.outcome = q.outcome
      /\ \A k \in EvidenceKind : s.evidence[k] =
           IF k = "output" THEN {record} ELSE q.evidence[k]
  BY <1>1 DEF Receipt, revocations
<1>7. Timed(s, t)
  BY <1>1, <1>6 DEF Timed
<1>8. Reliable([s EXCEPT !.disposition = "current"])
  <2> DEFINE x == [s EXCEPT !.disposition = "current"]
  <2>1. /\ x.disposition = "current" /\ revocations(x) = revocations(s)
        /\ x.dispatch = s.dispatch /\ x.outcome = s.outcome
        /\ x.stop_requested_at = s.stop_requested_at
        /\ x.evidence = s.evidence
    <3> HIDE DEF s
    <3> QED BY <1>5 DEF Receipt, revocations
  <2> HIDE DEF s, x
  <2>2. "output" \notin Terminal /\ Terminal \subseteq EvidenceKind
    BY DEF Terminal, EvidenceKind, NativeKind
  <2>3. Reliable(x)
    BY <1>1, <1>6, <2>1, <2>2 DEF Reliable, is_revoked, Terminal
  <2> QED BY <2>3 DEF x
<1> HIDE DEF s, e
<1>9. /\ r \in Receipt /\ Timed(r, t) /\ Reliable(r)
      /\ r.authority = q.authority /\ r.deadline = q.deadline
      /\ revocations(r) = revocations(q)
      /\ r.stop_requested_at = q.stop_requested_at /\ r.output = "accepted"
      /\ r.dispatch = q.dispatch /\ r.outcome = q.outcome
  BY <1>5, <1>6, <1>7, <1>8, RefreshedReceipt
<1> HIDE DEF r
<1>10. OnlyReported(h, g, t) /\ h.receipt = r
  BY <1>3, <1>9, ReceiptReport DEF q
<1> QED BY <1>9, <1>10 DEF SameWork, q

\* The answer to a stop request changes nothing else.
LEMMA StopReport ==
  ASSUME NEW t, NEW g, GateOK(g, t), NEW a, NEW k \in StopResponse,
         NEW record \in EvidenceRecord, record.observed_at <= t,
         NEW h, h = observe_stop_acknowledgement(g,
                      [authority |-> a, acknowledgement |-> k, record |-> record])
  PROVE  OnlyReported(h, g, t) /\ SameWork(h, g) /\ SameOutput(h, g)
<1> DEFINE e == [authority |-> a, acknowledgement |-> k, record |-> record]
           q == g.receipt
           r == [q EXCEPT !.stop_acknowledgement = k, !.evidence["stop"] = {record}]
<1>1. CASE ~accepts_stop_acknowledgement(g, e)
  BY <1>1, NoReport DEF observe_stop_acknowledgement, SameWork, SameOutput
<1>2. CASE accepts_stop_acknowledgement(g, e)
  <2>1. q \in Receipt /\ Timed(q, t) /\ Reliable(q)
    BY DEF GateOK, Gate
  <2>2. h = [g EXCEPT !.receipt = r]
    <3>1. h = [g EXCEPT !.receipt.stop_acknowledgement = k,
                        !.receipt.evidence["stop"] = {record}]
      BY <1>2 DEF observe_stop_acknowledgement
    <3>2. g \in Gate
      BY DEF GateOK
    <3> QED BY <3>1, <3>2 DEF Gate
  <2>3. [q EXCEPT !.stop_acknowledgement = k] \in Receipt
    BY <2>1 DEF Receipt
  <2>4. r \in Receipt
    BY <2>3, EvidenceType DEF EvidenceKind
  <2> HIDE DEF q
  <2>5. /\ r.authority = q.authority /\ r.deadline = q.deadline
        /\ r.dispatched_at = q.dispatched_at /\ revocations(r) = revocations(q)
        /\ r.stop_requested_at = q.stop_requested_at /\ r.output = q.output
        /\ r.dispatch = q.dispatch /\ r.outcome = q.outcome
        /\ r.disposition = q.disposition
        /\ \A x \in EvidenceKind : r.evidence[x] =
             IF x = "stop" THEN {record} ELSE q.evidence[x]
    BY <2>1 DEF Receipt, revocations
  <2> HIDE DEF r, e
  <2>6. Timed(r, t)
    BY <2>1, <2>5 DEF Timed
  <2>7. Reliable(r)
    <3>1. "stop" \notin Terminal /\ Terminal \subseteq EvidenceKind
      BY DEF Terminal, EvidenceKind, NativeKind
    <3> QED BY <2>1, <2>5, <3>1 DEF Reliable, is_revoked, Terminal
  <2>8. OnlyReported(h, g, t) /\ h.receipt = r
    BY <2>2, <2>4, <2>5, <2>6, <2>7, ReceiptReport DEF q
  <2> QED BY <2>5, <2>8 DEF SameWork, SameOutput, q
<1> QED BY <1>1, <1>2

\* Native evidence is about the work; work whose end was not seen has not ended
\* because it was accepted.
LEMMA NativeReport ==
  ASSUME NEW t, NEW g, GateOK(g, t), NEW a, NEW id \in NativeIdentity,
         NEW kind \in NativeKind, NEW record \in EvidenceRecord, record.observed_at <= t,
         NEW h, h = observe_native(g,
                      [authority |-> a, kind |-> kind, native_identity |-> id,
                       record |-> record])
  PROVE  /\ OnlyReported(h, g, t) /\ SameOutput(h, g)
         /\ h.receipt.dispatch = g.receipt.dispatch
         /\ kind = "accepted" /\ g.receipt.outcome = "pending"
              => h.receipt.outcome = "pending"
<1> DEFINE e == [authority |-> a, kind |-> kind, native_identity |-> id,
                 record |-> record]
           q == g.receipt
           evidence == IF q.evidence[kind] = {}
                         THEN [q.evidence EXCEPT ![kind] = {record}] ELSE q.evidence
           acceptance == IF kind \in {"accepted", "rejected"} THEN kind
                         ELSE q.acceptance
           outcome == native_outcome(q, kind, evidence)
           s == [q EXCEPT !.evidence = evidence, !.native_identity = {id},
                          !.acceptance = acceptance, !.outcome = outcome]
           r == refresh_authority_disposition(s)
<1>1. CASE ~accepts_native(g, e)
  BY <1>1, NoReport DEF observe_native, SameOutput
<1>2. CASE accepts_native(g, e)
  <2>1. q \in Receipt /\ Timed(q, t) /\ Reliable(q) /\ g \in Gate
    BY DEF GateOK, Gate
  <2>2. q.dispatch = "submitted"
    BY <1>2 DEF accepts_native
  <2>3. /\ evidence \in [EvidenceKind -> Optional(EvidenceRecord)]
        /\ evidence[kind] # {}
        /\ \A k \in EvidenceKind : q.evidence[k] # {} => evidence[k] = q.evidence[k]
        /\ \A k \in EvidenceKind : evidence[k] \in {q.evidence[k], {record}}
        /\ \A k \in EvidenceKind : k # kind => evidence[k] = q.evidence[k]
    BY <2>1, OptionalSome DEF Receipt, EvidenceKind
  <2>4. acceptance \in {"pending", "accepted", "rejected"}
    BY <2>1 DEF Receipt
  <2>5. {id} \in Optional(NativeIdentity)
    BY OptionalSome
  <2>6. h = [g EXCEPT !.receipt = r,
                      !.last_native = {[kind |-> kind, record |-> record]}]
    BY <1>2 DEF observe_native, apply_native
  <2> HIDE DEF evidence, acceptance
  <2>7. /\ outcome \in {"pending", "not_executed", "unknown"} \cup Terminal
        /\ outcome \in Terminal => evidence[outcome] # {} \/ outcome = q.outcome
        /\ outcome = "pending" => /\ q.outcome = "pending"
                                  /\ \A k \in Terminal : evidence[k] = {}
        /\ kind = "accepted" /\ q.outcome = "pending" => outcome = "pending"
    <3> DEFINE one == CHOOSE k \in Terminal : evidence[k] # {}
    <3>1. /\ Terminal \subseteq EvidenceKind
          /\ "pending" \notin Terminal /\ "not_executed" \notin Terminal
          /\ "unknown" \notin Terminal /\ "accepted" \notin Terminal
      BY DEF Terminal, EvidenceKind, NativeKind
    <3>2. /\ seen_terminals(evidence) # {} => one \in Terminal /\ evidence[one] # {}
          /\ seen_terminals(evidence) = {} <=> \A k \in Terminal : evidence[k] = {}
      BY DEF seen_terminals
    <3>3. q.outcome \in {"pending", "not_executed", "unknown"} \cup Terminal
      BY <2>1 DEF Receipt
    <3>4. kind = "accepted" /\ q.outcome = "pending" => seen_terminals(evidence) = {}
      BY <2>1, <2>3, <3>1, <3>2 DEF Reliable
    <3>5. \/ outcome = "unknown"
          \/ seen_terminals(evidence) # {} /\ outcome = one
          \/ seen_terminals(evidence) = {} /\ kind = "rejected" /\ outcome = "not_executed"
          \/ seen_terminals(evidence) = {} /\ kind # "rejected" /\ outcome = q.outcome
      BY DEF native_outcome
    <3>6. outcome = "unknown" => seen_terminals(evidence) # {} \/ q.outcome = "unknown"
      BY <3>1, <3>2 DEF native_outcome
    <3> HIDE DEF one, outcome
    <3> QED BY <3>1, <3>2, <3>3, <3>4, <3>5, <3>6
  <2> HIDE DEF outcome
  <2>8. s \in Receipt
    <3>1. /\ evidence \in [EvidenceKind -> Optional(EvidenceRecord)]
          /\ outcome \in {"pending", "not_executed", "unknown"} \cup Terminal
          /\ q \in Receipt
      BY <2>1, <2>3, <2>7
    <3> DEFINE X == Optional(EvidenceRecord)
               O == {"pending", "not_executed", "unknown"} \cup Terminal
               I == Optional(NativeIdentity)
    <3>2. /\ evidence \in [EvidenceKind -> X] /\ outcome \in O /\ {id} \in I
      BY <3>1, <2>5
    <3> HIDE DEF q, X, O, I
    <3>3. q \in Receipt => s \in Receipt
      <4>1. Receipt = [authority : Authority,
              dispatch : {"pending", "submitted", "not_submitted"},
              acceptance : {"pending", "accepted", "rejected"},
              outcome : O,
              output : {"pending", "accepted", "not_delivered"},
              reason : Optional(NonDeliveryReason),
              settlement : {"pending", "settled"},
              disposition : {"current", "revoked", "released", "blocked_unknown"},
              deadline : Optional(Time),
              dispatched_at : Optional(Time),
              cancelled_at : Optional(Time),
              expired_at : Optional(Time),
              withdrawn_at : Optional(Time),
              stop_requested_at : Optional(Time),
              stop_acknowledgement : {"not_requested", "pending"} \cup StopResponse,
              native_identity : I,
              requirements : Optional(Requirements),
              evidence : [EvidenceKind -> X]]
        BY DEF Receipt, X, O, I
      <4> QED BY <4>1, <3>2, <2>4
    <3> QED BY <3>1, <3>3
  <2>9. /\ s.authority = q.authority /\ s.deadline = q.deadline
        /\ s.dispatched_at = q.dispatched_at /\ revocations(s) = revocations(q)
        /\ s.stop_requested_at = q.stop_requested_at /\ s.output = q.output
        /\ s.dispatch = q.dispatch /\ s.outcome = outcome /\ s.evidence = evidence
    <3> HIDE DEF q
    <3> QED BY <2>1 DEF Receipt, revocations
  <2> HIDE DEF q, s, e
  <2>10. Timed(s, t)
    BY <2>1, <2>3, <2>9 DEF Timed
  <2>11. Reliable([s EXCEPT !.disposition = "current"])
    <3> DEFINE x == [s EXCEPT !.disposition = "current"]
    <3>1. /\ x.disposition = "current" /\ revocations(x) = revocations(s)
          /\ x.dispatch = s.dispatch /\ x.outcome = s.outcome
          /\ x.stop_requested_at = s.stop_requested_at
          /\ x.evidence = s.evidence
      BY <2>8 DEF Receipt, revocations
    <3> HIDE DEF x
    <3>2. "succeeded" \in Terminal /\ Terminal \subseteq EvidenceKind
      BY DEF Terminal, EvidenceKind, NativeKind
    <3>3. Reliable(x)
      BY <2>1, <2>2, <2>3, <2>7, <2>9, <3>1, <3>2 DEF Reliable, is_revoked
    <3> QED BY <3>3 DEF x
  <2>12. /\ r \in Receipt /\ Timed(r, t) /\ Reliable(r)
        /\ r.authority = q.authority /\ r.deadline = q.deadline
        /\ revocations(r) = revocations(q)
        /\ r.stop_requested_at = q.stop_requested_at /\ r.output = q.output
        /\ r.dispatch = q.dispatch /\ r.outcome = outcome
    BY <2>8, <2>9, <2>10, <2>11, RefreshedReceipt
  <2> HIDE DEF r
  <2>13. /\ h \in Gate /\ h.receipt = r /\ h.binding = g.binding /\ h.phase = g.phase
         /\ h.init = g.init /\ h.candidate = g.candidate
         /\ h.next_operation_id = g.next_operation_id
    <3>1. {[kind |-> kind, record |-> record]} \in
            Optional([kind : NativeKind, record : EvidenceRecord])
      BY OptionalSome
    <3> QED BY <2>1, <2>6, <2>12, <3>1 DEF Gate
  <2>14. OnlyReported(h, g, t)
    BY <2>12, <2>13 DEF OnlyReported, GateOK, SameSubject, q
  <2> QED BY <2>7, <2>12, <2>13, <2>14 DEF SameOutput, q
<1> QED BY <1>1, <1>2
\* The claim of a dispatch: nothing was revoked, and the work may now run.
LEMMA DispatchClaim ==
  ASSUME NEW t \in Time, NEW g, GateOK(g, t), NEW a, claims_dispatch(g, a, t),
         NEW h, h = claim_dispatch(g, a, t)
  PROVE  /\ OnlyReported(h, g, t) /\ SameOutput(h, g)
         /\ h.receipt.authority = a /\ h.receipt.dispatch = "submitted"
         /\ h.receipt.outcome = "pending" /\ has_receipt(h)
<1> DEFINE q == g.receipt
           r == [q EXCEPT !.dispatch = "submitted", !.dispatched_at = {t}]
<1>1. q \in Receipt /\ Timed(q, t) /\ Reliable(q) /\ g \in Gate
  BY DEF GateOK, Gate
<1>2. h = [g EXCEPT !.receipt = r]
  <2>1. h = [g EXCEPT !.receipt.dispatch = "submitted", !.receipt.dispatched_at = {t}]
    BY DEF claim_dispatch
  <2> QED BY <1>1, <2>1 DEF Gate
<1>3. q.dispatch = "pending" /\ ~is_revoked(q) /\ has_receipt(g) /\ a = q.authority
  BY DEF claims_dispatch, current_authority_matches
<1> HIDE DEF q
<1>4. r \in Receipt
  BY <1>1, OptionalSome DEF Receipt
<1>5. /\ r.authority = q.authority /\ r.deadline = q.deadline
      /\ r.dispatched_at = {t} /\ revocations(r) = revocations(q)
      /\ r.stop_requested_at = q.stop_requested_at /\ r.output = q.output
      /\ r.dispatch = "submitted" /\ r.outcome = q.outcome
      /\ r.disposition = q.disposition /\ r.evidence = q.evidence
  BY <1>1 DEF Receipt, revocations
<1> HIDE DEF r
<1>6. t <= t
  BY NumberAssumption
<1>7. Timed(r, t)
  BY <1>1, <1>5, <1>6 DEF Timed
<1>8. Reliable(r)
  BY <1>1, <1>3, <1>5 DEF Reliable, is_revoked
<1>9. OnlyReported(h, g, t) /\ h.receipt = r
  BY <1>2, <1>4, <1>5, <1>7, <1>8, ReceiptReport DEF q
<1>10. r.outcome = "pending"
  BY <1>1, <1>3, <1>5 DEF Reliable
<1> QED BY <1>3, <1>5, <1>9, <1>10 DEF SameOutput, q, has_receipt

-----------------------------------------------------------------------------
(* Revocation *)

\* The work is asked to stop if it may still run and was not asked yet.
Revoked(h, g, t) ==
  /\ GateOK(h, t) /\ h.receipt.authority = g.receipt.authority
  /\ h.receipt.deadline = g.receipt.deadline
  /\ h.binding = g.binding /\ h.next_operation_id = g.next_operation_id
  /\ SameWork(h, g) /\ SameOutput(h, g) /\ is_revoked(h.receipt)
  /\ h.receipt.stop_requested_at =
       IF should_request_native_stop(g.receipt) THEN {t}
       ELSE g.receipt.stop_requested_at

\* revoke, on a receipt to which a revocation was added.
LEMMA RevokedReceipt ==
  ASSUME NEW t \in Time, NEW q \in Receipt, Timed(q, t), Reliable(q),
         NEW p \in Receipt, p.authority = q.authority, p.deadline = q.deadline,
         p.dispatched_at = q.dispatched_at, t \in revocations(p),
         revocations(p) \subseteq revocations(q) \cup {t},
         p.stop_requested_at = q.stop_requested_at, p.dispatch = q.dispatch,
         p.outcome = q.outcome, p.output = q.output, p.evidence = q.evidence,
         NEW r, r = revoke(p, t)
  PROVE  /\ r \in Receipt /\ Timed(r, t) /\ Reliable(r)
         /\ r.authority = q.authority /\ r.deadline = q.deadline
         /\ is_revoked(r) /\ r.dispatch = q.dispatch /\ r.outcome = q.outcome
         /\ r.output = q.output
         /\ r.stop_requested_at =
              IF should_request_native_stop(q) THEN {t} ELSE q.stop_requested_at
<1> DEFINE s == IF should_request_native_stop(p)
                  THEN [p EXCEPT !.stop_requested_at = {t},
                                 !.stop_acknowledgement = "pending"]
                  ELSE p
           stop == IF should_request_native_stop(q) THEN {t} ELSE q.stop_requested_at
<1>1. r = refresh_authority_disposition(s)
  BY DEF revoke
<1>2. should_request_native_stop(p) <=> should_request_native_stop(q)
  BY DEF should_request_native_stop
<1>3. /\ s \in Receipt /\ s.authority = q.authority /\ s.deadline = q.deadline
      /\ s.dispatched_at = q.dispatched_at /\ revocations(s) = revocations(p)
      /\ s.stop_requested_at = stop /\ s.dispatch = q.dispatch
      /\ s.outcome = q.outcome /\ s.output = q.output /\ s.evidence = q.evidence
  <2>1. {t} \in Optional(Time)
    BY OptionalSome
  <2>2. CASE should_request_native_stop(q)
    <3>1. s = [p EXCEPT !.stop_requested_at = {t}, !.stop_acknowledgement = "pending"]
      BY <1>2, <2>2
    <3> HIDE DEF s
    <3> QED BY <2>1, <2>2, <3>1 DEF Receipt, revocations
  <2>3. CASE ~should_request_native_stop(q)
    <3>1. s = p /\ stop = q.stop_requested_at
      BY <1>2, <2>3
    <3> QED BY <3>1
  <2> QED BY <2>2, <2>3
<1> HIDE DEF s
<1>4. t <= t
  BY NumberAssumption
<1>5. Timed(s, t)
  BY <1>3, <1>4 DEF Timed
<1>6. Reliable([s EXCEPT !.disposition = "current"])
  <2> DEFINE x == [s EXCEPT !.disposition = "current"]
  <2>1. /\ x.disposition = "current"
        /\ x.dispatch = s.dispatch /\ x.outcome = s.outcome
        /\ x.stop_requested_at = s.stop_requested_at
        /\ x.evidence = s.evidence
    BY <1>3 DEF Receipt
  <2> HIDE DEF x
  <2>2. q.dispatch = "submitted" /\ q.outcome = "pending" => stop # {}
    BY DEF should_request_native_stop
  <2> HIDE DEF stop
  <2>3. Reliable(x)
    BY <1>3, <2>1, <2>2 DEF Reliable
  <2> QED BY <2>3 DEF x
<1>7. /\ r \in Receipt /\ Timed(r, t) /\ Reliable(r)
      /\ r.authority = s.authority /\ r.deadline = s.deadline
      /\ revocations(r) = revocations(s)
      /\ r.stop_requested_at = s.stop_requested_at
      /\ r.dispatch = s.dispatch /\ r.outcome = s.outcome /\ r.output = s.output
  BY <1>1, <1>3, <1>5, <1>6, RefreshedReceipt
<1>8. is_revoked(r)
  BY <1>3, <1>7 DEF is_revoked
<1> QED BY <1>3, <1>7, <1>8

\* Cancellation by the caller.
LEMMA CancelRevokes ==
  ASSUME NEW t \in Time, NEW g, GateOK(g, t), NEW a, applies_cancel(g, a, t),
         NEW h, h = request_cancel(g, a, t)
  PROVE  Revoked(h, g, t) /\ h.phase = g.phase /\ h.init = g.init
         /\ h.candidate = g.candidate
<1> DEFINE q == g.receipt
           p == [q EXCEPT !.cancelled_at = {t}]
           r == revoke(p, t)
<1>1. q \in Receipt /\ Timed(q, t) /\ Reliable(q) /\ g \in Gate
  BY DEF GateOK, Gate
<1>2. h = [g EXCEPT !.receipt = r]
  BY DEF request_cancel
<1> HIDE DEF q
<1>3. p \in Receipt
  BY <1>1, OptionalSome DEF Receipt
<1>4. /\ p.authority = q.authority /\ p.deadline = q.deadline
      /\ p.dispatched_at = q.dispatched_at /\ t \in revocations(p)
      /\ revocations(p) \subseteq revocations(q) \cup {t}
      /\ p.stop_requested_at = q.stop_requested_at /\ p.dispatch = q.dispatch
      /\ p.outcome = q.outcome /\ p.output = q.output /\ p.evidence = q.evidence
  BY <1>1 DEF Receipt, revocations
<1>0. r = revoke(p, t)
  OBVIOUS
<1> HIDE DEF p, r
<1>5. /\ r \in Receipt /\ Timed(r, t) /\ Reliable(r)
      /\ r.authority = q.authority /\ r.deadline = q.deadline
      /\ is_revoked(r) /\ r.dispatch = q.dispatch /\ r.outcome = q.outcome
      /\ r.output = q.output
      /\ r.stop_requested_at =
           IF should_request_native_stop(q) THEN {t} ELSE q.stop_requested_at
  BY <1>0, <1>1, <1>3, <1>4, RevokedReceipt
<1>6. /\ h \in Gate /\ h.receipt = r /\ h.binding = g.binding /\ h.phase = g.phase
      /\ h.init = g.init /\ h.candidate = g.candidate
      /\ h.next_operation_id = g.next_operation_id
  BY <1>1, <1>2, <1>5 DEF Gate
<1> QED BY <1>5, <1>6 DEF Revoked, GateOK, SameWork, SameOutput, q

\* The deadline, found at any look at the clock.
LEMMA ExpiryRevokes ==
  ASSUME NEW t \in Time, NEW g, GateOK(g, t), NEW a, applies_expiry(g, a, t),
         NEW h, h = observe_time(g, a, t)
  PROVE  Revoked(h, g, t) /\ h.phase = g.phase /\ h.init = g.init
         /\ h.candidate = g.candidate
<1> DEFINE q == g.receipt
           p == [q EXCEPT !.expired_at = {t}]
           r == revoke(p, t)
<1>1. q \in Receipt /\ Timed(q, t) /\ Reliable(q) /\ g \in Gate
  BY DEF GateOK, Gate
<1>2. h = [g EXCEPT !.receipt = r]
  BY DEF observe_time
<1> HIDE DEF q
<1>3. p \in Receipt
  BY <1>1, OptionalSome DEF Receipt
<1>4. /\ p.authority = q.authority /\ p.deadline = q.deadline
      /\ p.dispatched_at = q.dispatched_at /\ t \in revocations(p)
      /\ revocations(p) \subseteq revocations(q) \cup {t}
      /\ p.stop_requested_at = q.stop_requested_at /\ p.dispatch = q.dispatch
      /\ p.outcome = q.outcome /\ p.output = q.output /\ p.evidence = q.evidence
  BY <1>1 DEF Receipt, revocations
<1>0. r = revoke(p, t)
  OBVIOUS
<1> HIDE DEF p, r
<1>5. /\ r \in Receipt /\ Timed(r, t) /\ Reliable(r)
      /\ r.authority = q.authority /\ r.deadline = q.deadline
      /\ is_revoked(r) /\ r.dispatch = q.dispatch /\ r.outcome = q.outcome
      /\ r.output = q.output
      /\ r.stop_requested_at =
           IF should_request_native_stop(q) THEN {t} ELSE q.stop_requested_at
  BY <1>0, <1>1, <1>3, <1>4, RevokedReceipt
<1>6. /\ h \in Gate /\ h.receipt = r /\ h.binding = g.binding /\ h.phase = g.phase
      /\ h.init = g.init /\ h.candidate = g.candidate
      /\ h.next_operation_id = g.next_operation_id
  BY <1>1, <1>2, <1>5 DEF Gate
<1> QED BY <1>5, <1>6 DEF Revoked, GateOK, SameWork, SameOutput, q

\* The withdrawal of the binding the operation runs on.
LEMMA WithdrawRevokes ==
  ASSUME NEW t \in Time, NEW g, GateOK(g, t), NEW b, withdraws_binding(g, b, t),
         NEW h, h = withdraw_binding(g, b, t)
  PROVE  /\ GateOK(h, t) /\ h.phase = "withdrawn" /\ h.binding = g.binding
         /\ IF withdraws_current(g) THEN Revoked(h, g, t)
            ELSE h.receipt = g.receipt /\ h.next_operation_id = g.next_operation_id
<1>1. g.receipt \in Receipt /\ Timed(g.receipt, t) /\ Reliable(g.receipt) /\ g \in Gate
  BY DEF GateOK, Gate
<1>2. h \in Gate
  BY <1>1, WithdrawType
<1>3. CASE ~withdraws_current(g)
  <2>1. /\ h.receipt = g.receipt /\ h.phase = "withdrawn" /\ h.binding = g.binding
        /\ h.next_operation_id = g.next_operation_id
    BY <1>1, <1>3 DEF withdraw_binding, Gate
  <2> QED BY <1>1, <1>2, <1>3, <2>1 DEF GateOK
<1>4. CASE withdraws_current(g)
  <2> DEFINE q == g.receipt
             p == [q EXCEPT !.withdrawn_at = {t}]
             r == revoke(p, t)
  <2>1. /\ h.receipt = r /\ h.phase = "withdrawn" /\ h.binding = g.binding
        /\ h.next_operation_id = g.next_operation_id
    <3> HIDE DEF r
    <3>1. r = revoke([g.receipt EXCEPT !.withdrawn_at = {t}], t)
      BY DEF r
    <3>2. h = [g EXCEPT !.last_binding_control_at = t, !.init = "recovery_required",
                 !.phase = "withdrawn", !.candidate = NoCandidate,
                 !.withdrawn_at = IF has_candidate(g) THEN g.withdrawn_at ELSE {t},
                 !.receipt = r]
      BY <1>4, <3>1 DEF withdraw_binding
    <3> QED BY <1>1, <3>2 DEF Gate
  <2>2. q \in Receipt /\ Timed(q, t) /\ Reliable(q)
    BY <1>1
  <2> HIDE DEF q
  <2>3. p \in Receipt
    BY <2>2, OptionalSome DEF Receipt
  <2>4. /\ p.authority = q.authority /\ p.deadline = q.deadline
        /\ p.dispatched_at = q.dispatched_at /\ t \in revocations(p)
        /\ revocations(p) \subseteq revocations(q) \cup {t}
        /\ p.stop_requested_at = q.stop_requested_at /\ p.dispatch = q.dispatch
        /\ p.outcome = q.outcome /\ p.output = q.output /\ p.evidence = q.evidence
    BY <2>2 DEF Receipt, revocations
  <2> HIDE DEF p
  <2>5. /\ r \in Receipt /\ Timed(r, t) /\ Reliable(r)
        /\ r.authority = q.authority /\ r.deadline = q.deadline
        /\ is_revoked(r) /\ r.dispatch = q.dispatch /\ r.outcome = q.outcome
        /\ r.output = q.output
        /\ r.stop_requested_at =
             IF should_request_native_stop(q) THEN {t} ELSE q.stop_requested_at
    BY <2>2, <2>3, <2>4, RevokedReceipt, SMTT(30)
  <2> HIDE DEF r
  <2> QED BY <1>2, <1>4, <2>1, <2>5 DEF Revoked, GateOK, SameWork, SameOutput, q
<1> QED BY <1>3, <1>4
-----------------------------------------------------------------------------
(* Calls that leave the receipt alone, and admission *)

\* The receipt and the next identity are what they were.
SameReceipt(h, g) ==
  h.receipt = g.receipt /\ h.next_operation_id = g.next_operation_id

LEMMA SameReceiptOK ==
  ASSUME NEW t, NEW g, GateOK(g, t), NEW h \in Gate, SameReceipt(h, g)
  PROVE  GateOK(h, t)
BY DEF GateOK, SameReceipt

\* The calls about the binding, of which only commit_rebind changes the binding.
LEMMA BindingCalls ==
  ASSUME NEW g \in Gate
  PROVE  /\ \A e : LET h == observe_startup(g, e)
                   IN  SameReceipt(h, g) /\ h.binding = g.binding
         /\ \A b, p, e, t : SameReceipt(begin_rebind(g, b, p, e, t), g)
         /\ \A e : SameReceipt(observe_rebind_readiness(g, e), g)
         /\ \A b, t : SameReceipt(commit_rebind(g, b, t), g)
         /\ LET h == close_admission(g)
            IN  SameReceipt(h, g) /\ h.binding = g.binding
<1> USE DEF SameReceipt
<1>1. ASSUME NEW e
      PROVE  LET h == observe_startup(g, e)
             IN  SameReceipt(h, g) /\ h.binding = g.binding
  BY DEF observe_startup, Gate
<1>2. ASSUME NEW b, NEW p, NEW e, NEW t
      PROVE  SameReceipt(begin_rebind(g, b, p, e, t), g)
  BY DEF begin_rebind, Gate
<1>3. ASSUME NEW e PROVE SameReceipt(observe_rebind_readiness(g, e), g)
  BY DEF observe_rebind_readiness, Gate
<1>4. ASSUME NEW b, NEW t PROVE SameReceipt(commit_rebind(g, b, t), g)
  BY DEF commit_rebind, Gate
<1>5. LET h == close_admission(g) IN SameReceipt(h, g) /\ h.binding = g.binding
  BY DEF close_admission, Gate
<1> QED BY <1>1, <1>2, <1>3, <1>4, <1>5

\* An admitted operation has a new identity, and the one before it is over.
LEMMA AdmissionIs ==
  ASSUME NEW t \in Time, NEW g, GateOK(g, t), NEW d \in Optional(Time),
         NEW x \in Optional(Requirements),
         admits(g, [requested_at |-> t, deadline |-> d, requirements |-> x]),
         NEW h, h = admit(g, [requested_at |-> t, deadline |-> d, requirements |-> x])
  PROVE  /\ GateOK(h, t) /\ has_receipt(h) /\ h.binding = g.binding
         /\ g.receipt.authority.operation_id < h.receipt.authority.operation_id
         /\ h.receipt.output = "pending" /\ h.receipt.stop_requested_at = {}
         /\ has_receipt(g) => g.receipt.outcome # "pending"
<1> DEFINE q == [requested_at |-> t, deadline |-> d, requirements |-> x]
           a == [operation_id |-> g.next_operation_id, binding |-> g.binding,
                 admitted_at |-> t]
           r == new_receipt(a, d, x)
           next == following_operation_id(g.next_operation_id)
<1>1. g \in Gate /\ Reliable(g.receipt)
  BY DEF GateOK
<1>2. g.next_operation_id # 0
  BY DEF admits
<1>3. h = [g EXCEPT !.next_operation_id = next, !.receipt = r, !.last_native = {}]
  BY DEF admit
<1>4. h \in Gate
  BY <1>1, AdmitType
<1> HIDE DEF r, next
<1>5. h.receipt = r /\ h.next_operation_id = next /\ h.binding = g.binding
  BY <1>1, <1>3 DEF Gate
<1>6. /\ r.authority = a /\ r.dispatched_at = {} /\ revocations(r) = {}
      /\ r.evidence = [k \in EvidenceKind |-> {}] /\ r.dispatch = "pending"
      /\ r.outcome = "pending" /\ r.output = "pending" /\ r.stop_requested_at = {}
      /\ r.disposition = "current"
  BY DEF r, new_receipt, revocations
<1>7. Terminal \subseteq EvidenceKind /\ t <= t
  BY NumberAssumption DEF Terminal, EvidenceKind, NativeKind
<1>8. Timed(r, t)
  BY <1>6, <1>7 DEF Timed
<1>9. Reliable(r)
  BY <1>6, <1>7 DEF Reliable, is_revoked
<1>10. next # 0 => g.next_operation_id < next
  BY <1>1, NumberAssumption DEF next, following_operation_id, Gate
<1>11. has_receipt(g) => g.receipt.outcome # "pending"
  BY <1>1 DEF admits, current_is_releasable, Reliable
<1>12. g.receipt.authority.operation_id < g.next_operation_id
  BY <1>2 DEF GateOK
<1>13. GateOK(h, t)
  BY <1>4, <1>5, <1>6, <1>8, <1>9, <1>10 DEF GateOK
<1> QED BY <1>2, <1>5, <1>6, <1>11, <1>12, <1>13 DEF has_receipt

\* A look at the clock leaves no deadline that is reached and not recorded, unless the
\* operation is over.
LEMMA ExpiryIsFound ==
  ASSUME NEW t \in Time, NEW g, GateOK(g, t), NEW a,
         current_authority_matches(g, a), ~applies_expiry(g, a, t),
         ~is_revoked(g.receipt), g.receipt.output = "pending"
  PROVE  ~has_reached_deadline(g.receipt, t)
<1>1. g.receipt \in Receipt /\ Timed(g.receipt, t) /\ t \in Nat
  BY NumberAssumption DEF GateOK, Gate
<1>2. not_before(t, receipt_times(g.receipt))
  BY <1>1, TimedCalls
<1>3. g.receipt.disposition # "released"
  BY DEF GateOK, Reliable
<1>4. g.receipt.expired_at = {}
  BY DEF is_revoked, revocations
<1> QED BY <1>2, <1>3, <1>4 DEF applies_expiry, is_controllable

-----------------------------------------------------------------------------
(* The frames of a ComputeProcess *)

Stopped == {{}} \cup {{t} : t \in Int}
ExitStatus == {{}} \cup {{e} : e \in Exit}
Ending == {"none", "completed", "cancelled"}

\* The members of Impl, and the worker with the channels to it.
ProcessRecord ==
  [launched : BOOLEAN, started : BOOLEAN, malformed : BOOLEAN,
   event_eof : BOOLEAN, channels_closed : BOOLEAN, stop_requested_at : Stopped,
   stop_delivered : BOOLEAN, stop_acknowledged : BOOLEAN,
   stop_ignored : BOOLEAN, termination_requested : BOOLEAN,
   termination_error : BOOLEAN, ownership_lost : BOOLEAN, io_error : BOOLEAN,
   exit_status : ExitStatus, progress : Nat, dropped : Nat,
   terminal : Ending, terminal_iterations : Nat, is_owned : BOOLEAN,
   is_open : BOOLEAN, last_iterations : Nat, termination_pending : BOOLEAN,
   channel_cleanup_unknown : BOOLEAN]

ChildRecord ==
  [status : {"absent", "alive", "exited", "reaped", "stolen"},
   at : {"start", "loop", "stop", "cancel", "complete", "completed",
         "cancelled", "foreign"},
   completed : Nat, dropped : Nat, exit : ExitStatus, pipe : Seq(Frame),
   command : BOOLEAN, killed : BOOLEAN]

\* The least-number principle, from which the inductions below are made.
LEMMA LeastNatural ==
  ASSUME NEW S \in SUBSET Nat, S # {}
  PROVE  \E m \in S : \A k \in S : m <= k
<1> DEFINE R == OpToRel(<, Nat)
<1>1. IsWellFoundedOn(R, Nat)
  BY NatLessThanWellFounded, Zenon DEF R
<1>2. ASSUME NEW x \in Nat, NEW y \in Nat, x < y
      PROVE  <<x, y>> \in R
  BY <1>2 DEF R, OpToRel
<1> HIDE DEF R
<1>3. PICK m \in S : \A y \in S : ~(<<y, m>> \in R)
  BY <1>1, WFMin, Zenon
<1>4. \A k \in S : ~(k < m)
  BY <1>2, <1>3
<1> QED BY <1>3, <1>4

-----------------------------------------------------------------------------
(* consumed *)

\* The states between the frames.
Read(read, p, frames, k) ==
  read = [n \in 0..k |->
            IF n = 0 THEN p ELSE consume(read[n - 1], frames[n])]

\* There are such states for every number of frames.
LEMMA ReadExists ==
  ASSUME NEW p, NEW frames, NEW k \in Nat
  PROVE  \E read : Read(read, p, frames, k)
<1> DEFINE S == {n \in Nat : ~\E read : Read(read, p, frames, n)}
<1>1. SUFFICES ASSUME S # {} PROVE FALSE
  OBVIOUS
<1>2. PICK m \in S : \A n \in S : m <= n
  <2> HIDE DEF S
  <2>1. S \in SUBSET Nat
    BY DEF S
  <2> QED BY <1>1, <2>1, LeastNatural
<1>3. CASE m = 0
  <2>1. Read([n \in 0..0 |-> p], p, frames, 0)
    BY DEF Read
  <2> QED BY <1>2, <1>3, <2>1
<1>4. CASE m # 0
  <2>1. m - 1 \in Nat /\ m - 1 \notin S
    BY <1>2, <1>4
  <2>2. PICK g : Read(g, p, frames, m - 1)
    BY <2>1
  <2> DEFINE h == [n \in 0..m |-> IF n = m THEN consume(g[m - 1], frames[m]) ELSE g[n]]
  <2>3. \A n \in 0..m - 1 : g[n] = IF n = 0 THEN p ELSE consume(g[n - 1], frames[n])
    BY <2>2, Zenon DEF Read
  <2>4. ASSUME NEW n \in 0..m
        PROVE  h[n] = IF n = 0 THEN p ELSE consume(h[n - 1], frames[n])
    <3>1. CASE n = m
      BY <3>1, <1>4, <2>1
    <3>2. CASE n # m
      BY <3>2, <2>1, <2>3
    <3> QED BY <3>1, <3>2
  <2>5. Read(h, p, frames, m)
    <3> HIDE DEF h
    <3>1. h = [n \in 0..m |-> h[n]]
      BY DEF h
    <3> QED BY <2>4, <3>1 DEF Read
  <2> QED BY <1>2, <2>5
<1> QED BY <1>3, <1>4

\* States that follow each other as the frames are read end where reading ends.
LEMMA ConsumedIs ==
  ASSUME NEW p, NEW F, NEW frames \in Seq(F), NEW g, g[0] = p,
         \A n \in 1..Len(frames) : g[n] = consume(g[n - 1], frames[n])
  PROVE  consumed(p, frames) = g[Len(frames)]
<1> DEFINE L == Len(frames)
           read == CHOOSE r : r = [n \in 0..L |->
                     IF n = 0 THEN p ELSE consume(r[n - 1], frames[n])]
<1>1. L \in Nat
  OBVIOUS
<1>2. consumed(p, frames) = read[L]
  BY DEF consumed
<1>3. \E r : r = [n \in 0..L |-> IF n = 0 THEN p ELSE consume(r[n - 1], frames[n])]
  <2> HIDE DEF L
  <2>1. \E r : Read(r, p, frames, L)
    BY <1>1, ReadExists
  <2> QED BY <2>1, Zenon DEF Read
<1>4. read = [n \in 0..L |-> IF n = 0 THEN p ELSE consume(read[n - 1], frames[n])]
  <2> HIDE DEF L
  <2> QED BY <1>3, Zenon
<1> HIDE DEF read
<1>5. \A n \in 0..L : read[n] = IF n = 0 THEN p ELSE consume(read[n - 1], frames[n])
  BY <1>4, Zenon
<1> DEFINE S == {n \in 0..L : read[n] # g[n]}
<1>6. S = {}
  <2>1. SUFFICES ASSUME S # {} PROVE FALSE
    OBVIOUS
  <2>2. S \in SUBSET Nat
    BY <1>1
  <2>3. PICK m \in S : \A n \in S : m <= n
    <3> HIDE DEF S
    <3> QED BY <2>1, <2>2, LeastNatural
  <2>4. m # 0
    BY <1>1, <1>5, <2>3
  <2>5. m \in 1..L /\ m - 1 \in 0..L /\ m - 1 \notin S
    BY <1>1, <2>3, <2>4
  <2>6. read[m - 1] = g[m - 1]
    BY <2>5
  <2>7. read[m] = consume(read[m - 1], frames[m])
    BY <1>5, <2>4, <2>5
  <2> QED BY <2>3, <2>5, <2>6, <2>7
<1> QED BY <1>1, <1>2, <1>6

\* Reading has such states.
LEMMA ConsumedHas ==
  ASSUME NEW p, NEW F, NEW frames \in Seq(F)
  PROVE  \E g : /\ g[0] = p
                /\ \A n \in 1..Len(frames) : g[n] = consume(g[n - 1], frames[n])
                /\ consumed(p, frames) = g[Len(frames)]
<1> DEFINE L == Len(frames)
<1>1. L \in Nat
  OBVIOUS
<1>2. PICK g : Read(g, p, frames, L)
  <2> HIDE DEF L
  <2> QED BY <1>1, ReadExists
<1>3. \A n \in 0..L : g[n] = IF n = 0 THEN p ELSE consume(g[n - 1], frames[n])
  <2> HIDE DEF L
  <2> QED BY <1>2, Zenon DEF Read
<1>4. g[0] = p /\ \A n \in 1..L : g[n] = consume(g[n - 1], frames[n])
  BY <1>1, <1>3
<1> QED BY <1>4, ConsumedIs

\* Without a frame nothing is read.
LEMMA ConsumedNone ==
  ASSUME NEW p
  PROVE  consumed(p, <<>>) = p
<1> DEFINE none == <<>>
<1>0. none \in Seq({}) /\ Len(none) = 0
  OBVIOUS
<1> HIDE DEF none
<1>1. PICK g : /\ g[0] = p
               /\ \A n \in 1..Len(none) : g[n] = consume(g[n - 1], none[n])
               /\ consumed(p, none) = g[Len(none)]
  BY <1>0, ConsumedHas
<1> QED BY <1>0, <1>1 DEF none

\* A frame that is written later is read last.
LEMMA ConsumedAppend ==
  ASSUME NEW p, NEW F, NEW frames \in Seq(F), NEW f \in F
  PROVE  consumed(p, Append(frames, f)) = consume(consumed(p, frames), f)
<1> DEFINE L == Len(frames)
           longer == Append(frames, f)
<1>1. PICK g : /\ g[0] = p
               /\ \A n \in 1..L : g[n] = consume(g[n - 1], frames[n])
               /\ consumed(p, frames) = g[L]
  BY ConsumedHas
<1> DEFINE h == [n \in 0..L + 1 |-> IF n = L + 1 THEN consume(g[L], f) ELSE g[n]]
<1>2. /\ L \in Nat /\ longer \in Seq(F) /\ Len(longer) = L + 1 /\ longer[L + 1] = f
      /\ \A n \in 1..L : longer[n] = frames[n]
  OBVIOUS
<1>3. h[0] = p /\ h[L + 1] = consume(g[L], f) /\ \A n \in 0..L : h[n] = g[n]
  BY <1>1, <1>2
<1>4. \A n \in 1..L + 1 : h[n] = consume(h[n - 1], longer[n])
  <2> TAKE n \in 1..L + 1
  <2>1. CASE n = L + 1
    BY <1>2, <1>3, <2>1
  <2>2. CASE n # L + 1
    <3>1. n \in 1..L /\ n - 1 \in 0..L /\ n \in 0..L
      BY <1>2, <2>2
    <3> HIDE DEF h, longer
    <3> QED BY <1>1, <1>2, <1>3, <3>1
  <2> QED BY <2>1, <2>2
<1> HIDE DEF h, longer, L
<1>5. consumed(p, longer) = h[Len(longer)]
  BY <1>2, <1>3, <1>4, ConsumedIs
<1> QED BY <1>1, <1>2, <1>3, <1>5 DEF L, longer

\* What one poll reads and what is left for the next come to the same.
LEMMA ConsumedRest ==
  ASSUME NEW p, NEW F, NEW frames \in Seq(F), NEW k \in 0..Len(frames)
  PROVE  consumed(consumed(p, SubSeq(frames, 1, k)),
                  SubSeq(frames, k + 1, Len(frames))) = consumed(p, frames)
<1> DEFINE L == Len(frames)
           first == SubSeq(frames, 1, k)
           rest == SubSeq(frames, k + 1, L)
<1>1. PICK g : /\ g[0] = p
               /\ \A n \in 1..L : g[n] = consume(g[n - 1], frames[n])
               /\ consumed(p, frames) = g[L]
  BY ConsumedHas, SMTT(30)
<1>2. /\ L \in Nat /\ k \in Nat /\ k <= L
      /\ first \in Seq(F) /\ Len(first) = k
      /\ rest \in Seq(F) /\ Len(rest) = L - k
      /\ \A n \in 1..k : first[n] = frames[n]
      /\ \A n \in 1..L - k : rest[n] = frames[n + k]
  BY SMTT(30)
<1> HIDE DEF L, first, rest
<1>3. consumed(p, first) = g[k]
  <2>1. \A n \in 1..Len(first) : g[n] = consume(g[n - 1], first[n])
    BY <1>1, <1>2, SMTT(30)
  <2>2. first \in Seq(F) /\ g[0] = p
    BY <1>1, <1>2
  <2>3. consumed(p, first) = g[Len(first)]
    BY <2>1, <2>2, ConsumedIs
  <2> QED BY <1>2, <2>3
<1> DEFINE h == [n \in 0..L - k |-> g[n + k]]
<1>4. h[0] = g[k] /\ h[Len(rest)] = g[L]
  BY <1>2
<1>5. \A n \in 1..Len(rest) : h[n] = consume(h[n - 1], rest[n])
  <2> TAKE n \in 1..Len(rest)
  <2>1. h[n] = g[n + k] /\ h[n - 1] = g[n + k - 1] /\ n + k \in 1..L
    BY <1>2
  <2> QED BY <1>1, <1>2, <2>1
<1> HIDE DEF h
<1>6. consumed(g[k], rest) = h[Len(rest)]
  <2>1. rest \in Seq(F) /\ h[0] = g[k]
    BY <1>2, <1>4
  <2> QED BY <2>1, <1>5, ConsumedIs
<1> QED BY <1>1, <1>3, <1>4, <1>6 DEF L, first, rest

\* What no frame changes, no number of frames changes.
LEMMA ConsumedStays ==
  ASSUME NEW p, NEW F, NEW frames \in Seq(F), NEW S, p \in S,
         \A q \in S, f \in F : consume(q, f) \in S
  PROVE  consumed(p, frames) \in S
<1> DEFINE L == Len(frames)
<1>1. PICK g : /\ g[0] = p
               /\ \A n \in 1..L : g[n] = consume(g[n - 1], frames[n])
               /\ consumed(p, frames) = g[L]
  BY ConsumedHas
<1>2. L \in Nat /\ \A n \in 1..L : frames[n] \in F
  OBVIOUS
<1> DEFINE T == {n \in 0..L : g[n] \notin S}
<1>3. T = {}
  <2>1. SUFFICES ASSUME T # {} PROVE FALSE
    OBVIOUS
  <2> HIDE DEF L
  <2>2. T \in SUBSET Nat
    BY <1>2
  <2>3. PICK m \in T : \A n \in T : m <= n
    <3> HIDE DEF T
    <3> QED BY <2>1, <2>2, LeastNatural
  <2>4. m # 0
    BY <1>1, <2>3
  <2>5. m \in 1..L /\ m - 1 \in 0..L /\ m - 1 \notin T
    BY <1>2, <2>3, <2>4
  <2>6. g[m - 1] \in S
    BY <2>5
  <2>7. g[m] = consume(g[m - 1], frames[m]) /\ frames[m] \in F
    BY <1>1, <1>2, <2>5
  <2>8. g[m] \in S
    BY <2>6, <2>7
  <2> QED BY <2>3, <2>8
<1> QED BY <1>1, <1>2, <1>3

-----------------------------------------------------------------------------
(* consume *)

\* The members no frame changes.
SameOwner(a, b) ==
  /\ a.launched = b.launched /\ a.event_eof = b.event_eof
  /\ a.channels_closed = b.channels_closed
  /\ a.stop_requested_at = b.stop_requested_at
  /\ a.stop_delivered = b.stop_delivered
  /\ a.termination_requested = b.termination_requested
  /\ a.termination_error = b.termination_error
  /\ a.termination_pending = b.termination_pending
  /\ a.ownership_lost = b.ownership_lost /\ a.io_error = b.io_error
  /\ a.exit_status = b.exit_status /\ a.is_owned = b.is_owned
  /\ a.is_open = b.is_open
  /\ a.channel_cleanup_unknown = b.channel_cleanup_unknown

\* The members that frames change.
SameRecord(a, b) ==
  /\ a.started = b.started /\ a.malformed = b.malformed
  /\ a.stop_acknowledged = b.stop_acknowledged /\ a.stop_ignored = b.stop_ignored
  /\ a.progress = b.progress /\ a.dropped = b.dropped
  /\ a.terminal = b.terminal /\ a.terminal_iterations = b.terminal_iterations
  /\ a.last_iterations = b.last_iterations

LEMMA TakenType ==
  ASSUME NEW q \in ProcessRecord, NEW f \in Frame
  PROVE  taken(q, f) \in ProcessRecord /\ SameOwner(taken(q, f), q)
<1>1. f.iterations \in Nat /\ f.dropped \in Nat /\ f.kind \in FrameKind
  BY ProcessAssumption DEF Frame
<1> QED BY <1>1, ZenonT(60) DEF taken, ProcessRecord, SameOwner, FrameKind, Ending

\* A frame keeps the type, what is not its own, and that a frame was refused.
LEMMA ConsumeType ==
  ASSUME NEW q \in ProcessRecord, NEW f \in Frame
  PROVE  /\ consume(q, f) \in ProcessRecord
         /\ SameOwner(consume(q, f), q)
         /\ q.malformed => consume(q, f) = q
<1>1. f.iterations \in Nat /\ f.dropped \in Nat /\ f.kind \in FrameKind
  BY ProcessAssumption DEF Frame
<1>2. taken(q, f) \in ProcessRecord /\ SameOwner(taken(q, f), q)
  BY TakenType
<1>3. ASSUME NEW t \in ProcessRecord
      PROVE  LET u == [t EXCEPT !.last_iterations = f.iterations, !.dropped = f.dropped]
             IN  u \in ProcessRecord /\ SameOwner(u, t)
  BY <1>1 DEF ProcessRecord, SameOwner
<1>4. LET u == [q EXCEPT !.malformed = TRUE]
      IN  u \in ProcessRecord /\ SameOwner(u, q)
  BY DEF ProcessRecord, SameOwner
<1>5. SameOwner(q, q)
  BY DEF SameOwner
<1> QED BY <1>2, <1>3, <1>4, <1>5 DEF consume, SameOwner

LEMMA ConsumedType ==
  ASSUME NEW p \in ProcessRecord, NEW frames \in Seq(Frame)
  PROVE  /\ consumed(p, frames) \in ProcessRecord
         /\ SameOwner(consumed(p, frames), p)
         /\ p.malformed => consumed(p, frames) = p
<1> DEFINE S == {q \in ProcessRecord : SameOwner(q, p) /\ (p.malformed => q = p)}
<1>1. p \in S
  BY DEF SameOwner
<1>2. ASSUME NEW q \in S, NEW f \in Frame
      PROVE  consume(q, f) \in S
  <2>1. /\ consume(q, f) \in ProcessRecord /\ SameOwner(consume(q, f), q)
        /\ q.malformed => consume(q, f) = q
    BY ConsumeType
  <2> QED BY <2>1 DEF SameOwner
<1>3. consumed(p, frames) \in S
  <2> HIDE DEF S
  <2> QED BY <1>1, <1>2, ConsumedStays
<1> QED BY <1>3

\* Two owners that recorded the same and read the same frames record the same,
\* when one was told to stop and the other was not, unless a frame is refused.
LEMMA ConsumeAgain ==
  ASSUME NEW a \in ProcessRecord, NEW b \in ProcessRecord, NEW f \in Frame,
         SameRecord(a, b), stop_requested(a) => stop_requested(b),
         ~consume(a, f).malformed
  PROVE  SameRecord(consume(a, f), consume(b, f))
<1>1. f.kind \in FrameKind
  BY DEF Frame
<1>2. ~a.malformed /\ ~b.malformed
  BY DEF consume, SameRecord
<1>3. is_ordered(a, f) /\ is_expected(a, f)
  BY <1>2 DEF consume, ProcessRecord
<1>4. is_ordered(b, f) /\ is_expected(b, f)
  BY <1>1, <1>3 DEF is_ordered, is_expected, SameRecord, FrameKind
<1>5. SameRecord(taken(a, f), taken(b, f))
  BY <1>1 DEF taken, SameRecord, FrameKind, ProcessRecord
<1>6. taken(a, f) \in ProcessRecord /\ taken(b, f) \in ProcessRecord
  BY TakenType
<1>7. /\ consume(a, f) = [taken(a, f) EXCEPT !.last_iterations = f.iterations,
                                             !.dropped = f.dropped]
      /\ consume(b, f) = [taken(b, f) EXCEPT !.last_iterations = f.iterations,
                                             !.dropped = f.dropped]
  BY <1>2, <1>3, <1>4 DEF consume
<1> HIDE DEF consume
<1> QED BY <1>5, <1>6, <1>7 DEF SameRecord, ProcessRecord

LEMMA ConsumedAgain ==
  ASSUME NEW a \in ProcessRecord, NEW b \in ProcessRecord,
         NEW frames \in Seq(Frame),
         SameRecord(a, b), stop_requested(a) => stop_requested(b),
         ~consumed(a, frames).malformed
  PROVE  SameRecord(consumed(a, frames), consumed(b, frames))
<1> DEFINE L == Len(frames)
<1>1. PICK g : /\ g[0] = a
               /\ \A n \in 1..L : g[n] = consume(g[n - 1], frames[n])
               /\ consumed(a, frames) = g[L]
  BY ConsumedHas
<1>2. PICK h : /\ h[0] = b
               /\ \A n \in 1..L : h[n] = consume(h[n - 1], frames[n])
               /\ consumed(b, frames) = h[L]
  BY ConsumedHas
<1>3. L \in Nat /\ \A n \in 1..L : frames[n] \in Frame
  OBVIOUS
<1> DEFINE Same(n) ==
             /\ g[n] \in ProcessRecord /\ h[n] \in ProcessRecord
             /\ SameOwner(g[n], a) /\ SameOwner(h[n], b)
             /\ g[n].malformed \/ SameRecord(g[n], h[n])
           T == {n \in 0..L : ~Same(n)}
<1>4. T = {}
  <2>1. SUFFICES ASSUME T # {} PROVE FALSE
    OBVIOUS
  <2> HIDE DEF L
  <2>2. T \in SUBSET Nat
    BY <1>3
  <2>3. PICK m \in T : \A n \in T : m <= n
    <3> HIDE DEF T
    <3> QED BY <2>1, <2>2, LeastNatural
  <2>4. m # 0
    <3>1. SameOwner(a, a) /\ SameOwner(b, b)
      BY DEF SameOwner
    <3> QED BY <1>1, <1>2, <2>3, <3>1
  <2>5. m \in 1..L /\ m - 1 \in 0..L /\ m - 1 \notin T
    BY <1>3, <2>3, <2>4
  <2> DEFINE x == g[m - 1]  y == h[m - 1]  f == frames[m]
  <2>6. Same(m - 1) /\ f \in Frame
    BY <1>3, <2>5
  <2>7. g[m] = consume(x, f) /\ h[m] = consume(y, f)
    BY <1>1, <1>2, <2>5
  <2>8. ~Same(m)
    BY <2>3
  <2> HIDE DEF T
  <2>9. /\ g[m] \in ProcessRecord /\ h[m] \in ProcessRecord
        /\ SameOwner(g[m], x) /\ SameOwner(h[m], y)
        /\ x.malformed => g[m] = x
    BY <2>6, <2>7, ConsumeType
  <2>10. SameOwner(g[m], a) /\ SameOwner(h[m], b)
    BY <2>6, <2>9 DEF SameOwner
  <2>11. g[m].malformed \/ SameRecord(g[m], h[m])
    <3>1. CASE x.malformed
      BY <2>9, <3>1
    <3>2. CASE ~x.malformed
      <4>1. SameRecord(x, y) /\ (stop_requested(x) => stop_requested(y))
        BY <2>6, <3>2 DEF SameOwner, stop_requested
      <4> QED BY <2>6, <2>7, <4>1, ConsumeAgain
    <3> QED BY <3>1, <3>2
  <2> QED BY <2>8, <2>9, <2>10, <2>11
<1>5. Same(L)
  BY <1>3, <1>4
<1> QED BY <1>1, <1>2, <1>5

-----------------------------------------------------------------------------
(* The calls of an owner, on any record s that has a process and a child *)

Has(s) ==
  /\ s.process \in ProcessRecord /\ s.child \in ChildRecord
  /\ {"process", "child"} \subseteq DOMAIN s

\* A call changes the process and the child, and nothing beside them.
Beside(r, s) ==
  /\ DOMAIN r = DOMAIN s
  /\ \A x \in DOMAIN s \ {"process", "child"} : r[x] = s[x]

\* No frame is written or read, and the worker does nothing.
SameFrames(r, s) ==
  /\ SameRecord(s.process, r.process)
  /\ r.process.event_eof = s.process.event_eof
  /\ r.child.pipe = s.child.pipe /\ r.child.at = s.child.at
  /\ r.child.completed = s.child.completed /\ r.child.dropped = s.child.dropped

\* The members that a call that only observes leaves alone.
SameOwnership(p, q) ==
  /\ p.launched = q.launched /\ p.is_owned = q.is_owned
  /\ p.exit_status = q.exit_status /\ p.ownership_lost = q.ownership_lost
  /\ p.termination_requested = q.termination_requested

LEMMA RequestStopEffect ==
  ASSUME NEW s, Has(s), NEW t \in Int
  PROVE  LET r == request_stop(s, t)
             p == s.process
             q == r.process
         IN  /\ Has(r) /\ Beside(r, s) /\ SameFrames(r, s) /\ SameOwnership(q, p)
             /\ stop_requested(q)
             /\ stop_requested(p) => r = s
             /\ r.child.status = s.child.status /\ r.child.exit = s.child.exit
             /\ r.child.killed = s.child.killed
             /\ q.is_open = p.is_open /\ q.channels_closed = p.channels_closed
             /\ q.io_error = p.io_error
             /\ q.channel_cleanup_unknown = p.channel_cleanup_unknown
             /\ q.termination_pending =>
                  p.termination_pending \/ ~q.stop_delivered
<1> DEFINE p == s.process
           c == s.child
           owned == p.is_owned /\ p.exit_status = {}
           sends == owned /\ p.is_open
           delivered == sends /\ c.status = "alive"
           pending == IF sends THEN p.termination_pending \/ ~delivered ELSE owned
           q == [p EXCEPT !.stop_requested_at = {t}, !.stop_delivered = delivered,
                          !.termination_pending = pending]
           d == [c EXCEPT !.command = c.command \/ delivered]
           r == request_stop(s, t)
<1>1. p \in ProcessRecord /\ c \in ChildRecord /\ {"process", "child"} \subseteq DOMAIN s
  BY DEF Has
<1>2. CASE stop_requested(p)
  <2>1. r = s
    BY <1>2 DEF request_stop
  <2> QED BY <1>1, <1>2, <2>1
          DEF Has, Beside, SameFrames, SameRecord, SameOwnership
<1>3. CASE ~stop_requested(p)
  <2>1. r.process = q /\ r.child = d /\ Beside(r, s)
    BY <1>1, <1>3 DEF request_stop, Beside
  <2>2. delivered \in BOOLEAN /\ pending \in BOOLEAN
    BY <1>1 DEF ProcessRecord
  <2>3. pending => p.termination_pending \/ ~delivered
    OBVIOUS
  <2>4. (c.command \/ delivered) \in BOOLEAN
    OBVIOUS
  <2> HIDE DEF delivered, pending, r
  <2>5. q \in ProcessRecord /\ d \in ChildRecord
    BY <1>1, <2>2, <2>4, ZenonT(60) DEF ProcessRecord, ChildRecord, Stopped
  <2>6. Has(r)
    BY <1>1, <2>1, <2>5 DEF Has, Beside
  <2>7. SameFrames(r, s) /\ SameOwnership(q, p)
    BY <1>1, <2>1 DEF SameFrames, SameRecord, SameOwnership, ProcessRecord, ChildRecord
  <2>8. /\ stop_requested(q) /\ q.is_open = p.is_open
        /\ q.channels_closed = p.channels_closed /\ q.io_error = p.io_error
        /\ q.channel_cleanup_unknown = p.channel_cleanup_unknown
        /\ q.termination_pending = pending /\ q.stop_delivered = delivered
        /\ d.status = c.status /\ d.exit = c.exit /\ d.killed = c.killed
    BY <1>1 DEF ProcessRecord, ChildRecord, stop_requested
  <2>9. q.termination_pending => p.termination_pending \/ ~q.stop_delivered
    BY <2>3, <2>8
  <2> HIDE DEF q, d
  <2> QED BY <1>3, <2>1, <2>6, <2>7, <2>8, <2>9 DEF r
<1> QED BY <1>2, <1>3

\* What the owner learns of the child when it waits for it.
Collected(r, s) ==
  LET p == s.process
      q == r.process
  IN  \/ /\ p.is_owned /\ p.exit_status = {} /\ s.child.status = "exited"
         /\ ~q.is_owned /\ q.exit_status = s.child.exit
         /\ q.ownership_lost = p.ownership_lost /\ r.child.status = "reaped"
      \/ /\ p.is_owned /\ p.exit_status = {} /\ s.child.status = "stolen"
         /\ ~q.is_owned /\ q.exit_status = {} /\ q.ownership_lost
         /\ r.child.status = "stolen"
      \/ /\ p.is_owned /\ p.exit_status = {} =>
              s.child.status \notin {"exited", "stolen"}
         /\ q.is_owned = p.is_owned /\ q.exit_status = p.exit_status
         /\ q.ownership_lost = p.ownership_lost
         /\ r.child.status = s.child.status

\* What waiting and killing leave alone.
SameStop(r, s) ==
  /\ r.process.launched = s.process.launched
  /\ r.process.stop_requested_at = s.process.stop_requested_at
  /\ r.process.stop_delivered = s.process.stop_delivered
  /\ r.process.is_open = s.process.is_open
  /\ r.process.channels_closed = s.process.channels_closed
  /\ r.process.io_error = s.process.io_error
  /\ r.process.channel_cleanup_unknown = s.process.channel_cleanup_unknown
  /\ r.child.command = s.child.command /\ r.child.exit = s.child.exit

LEMMA CollectEffect ==
  ASSUME NEW s, Has(s)
  PROVE  LET r == collect_exit(s)
         IN  /\ Has(r) /\ Beside(r, s) /\ SameFrames(r, s) /\ SameStop(r, s)
             /\ Collected(r, s)
             /\ r.process.termination_pending = s.process.termination_pending
             /\ r.process.termination_requested = s.process.termination_requested
             /\ r.child.killed = s.child.killed
<1> DEFINE p == s.process
           c == s.child
           r == collect_exit(s)
<1>1. p \in ProcessRecord /\ c \in ChildRecord /\ {"process", "child"} \subseteq DOMAIN s
  BY DEF Has
<1>2. CASE ~p.is_owned \/ p.exit_status # {} \/ c.status \notin {"exited", "stolen"}
  <2>1. r = s
    BY <1>1, <1>2 DEF collect_exit, ChildRecord
  <2> QED BY <1>1, <1>2, <2>1
          DEF Has, Beside, SameFrames, SameRecord, SameStop, Collected
<1>3. CASE p.is_owned /\ p.exit_status = {} /\ c.status = "exited"
  <2> DEFINE q == [p EXCEPT !.is_owned = FALSE, !.exit_status = c.exit]
             d == [c EXCEPT !.status = "reaped"]
  <2>1. r.process = q /\ r.child = d /\ Beside(r, s)
    BY <1>1, <1>3 DEF collect_exit, Beside
  <2>2. q \in ProcessRecord /\ d \in ChildRecord
    BY <1>1 DEF ProcessRecord, ChildRecord
  <2>3. Has(r)
    BY <1>1, <2>1, <2>2 DEF Has, Beside
  <2> HIDE DEF r
  <2> QED BY <1>1, <1>3, <2>1, <2>3
          DEF ProcessRecord, ChildRecord, SameFrames, SameRecord, SameStop, Collected, r
<1>4. CASE p.is_owned /\ p.exit_status = {} /\ c.status = "stolen"
  <2> DEFINE q == [p EXCEPT !.is_owned = FALSE, !.ownership_lost = TRUE]
  <2>1. r.process = q /\ r.child = c /\ Beside(r, s)
    BY <1>1, <1>4 DEF collect_exit, Beside
  <2>2. q \in ProcessRecord
    BY <1>1 DEF ProcessRecord
  <2>3. Has(r)
    BY <1>1, <2>1, <2>2 DEF Has, Beside
  <2> HIDE DEF r
  <2> QED BY <1>1, <1>4, <2>1, <2>3
          DEF ProcessRecord, ChildRecord, SameFrames, SameRecord, SameStop, Collected, r
<1> QED BY <1>1, <1>2, <1>3, <1>4

\* Why a poll finds that a termination is due.
Due(p, q, t) ==
  \/ p.termination_pending \/ q.malformed \/ q.io_error
  \/ /\ stop_requested(q) /\ q.exit_status = {}
     /\ ~q.stop_delivered \/ grace_has_passed(q, t)

LEMMA FinishPollEffect ==
  ASSUME NEW s, Has(s), NEW t \in Int, NEW fails \in BOOLEAN
  PROVE  LET r == finish_poll(s, t, fails)
             p == s.process
             q == r.process
         IN  /\ Has(r) /\ Beside(r, s) /\ SameFrames(r, s) /\ SameStop(r, s)
             /\ ~polls(p) => r = s
             /\ polls(p) => /\ Collected(r, s)
                            /\ q.termination_pending <=> Due(p, q, t)
             /\ q.termination_requested # p.termination_requested =>
                  q.termination_pending /\ q.is_owned /\ q.exit_status = {}
<1> DEFINE p == s.process
           c == collect_exit(s)
           pending == should_terminate(c.process, t)
           d == [c EXCEPT !.process.termination_pending = pending]
           r == request_termination_once(d, fails)
<1>1. CASE ~polls(p)
  <2>1. finish_poll(s, t, fails) = s
    BY <1>1 DEF finish_poll
  <2> QED BY <1>1, <2>1 DEF Has, Beside, SameFrames, SameRecord, SameStop
<1>2. CASE polls(p)
  <2>1. finish_poll(s, t, fails) = r
    BY <1>2 DEF finish_poll
  <2>2. /\ Has(c) /\ Beside(c, s) /\ SameFrames(c, s) /\ SameStop(c, s)
        /\ Collected(c, s)
        /\ c.process.termination_pending = p.termination_pending
        /\ c.process.termination_requested = p.termination_requested
    BY CollectEffect
  <2> HIDE DEF c
  <2>3. pending \in BOOLEAN
    BY <2>2 DEF should_terminate, Has, ProcessRecord
  <2>4. pending <=> Due(p, c.process, t)
    BY <2>2, Zenon DEF should_terminate, Due
  <2> HIDE DEF pending
  <2>5. /\ d.process = [c.process EXCEPT !.termination_pending = pending]
        /\ d.child = c.child /\ Beside(d, c)
    BY <2>2 DEF Has, Beside
  <2>6. d.process \in ProcessRecord
    BY <2>2, <2>3, <2>5 DEF Has, ProcessRecord
  <2>7. Has(d) /\ SameFrames(d, c) /\ SameStop(d, c)
    BY <2>2, <2>5, <2>6
       DEF Has, Beside, SameFrames, SameRecord, SameStop, ProcessRecord
  <2>8. /\ SameOwnership(d.process, c.process)
        /\ d.process.termination_pending = pending
    BY <2>2, <2>5 DEF Has, SameOwnership, ProcessRecord
  <2>9. d.process.termination_pending <=> Due(p, d.process, t)
    <3>1. Due(p, c.process, t) <=> Due(p, d.process, t)
      BY <2>2, <2>5 DEF Has, ProcessRecord, Due, stop_requested, grace_has_passed
    <3> QED BY <2>4, <2>8, <3>1, Zenon
  <2> HIDE DEF d
  <2>10. CASE r = d
    <3>1. Has(d) /\ Beside(d, s)
      BY <2>2, <2>5, <2>7 DEF Beside
    <3>2. SameFrames(d, s) /\ SameStop(d, s)
      BY <2>2, <2>7 DEF SameFrames, SameRecord, SameStop
    <3>3. Collected(d, s)
      BY <2>2, <2>5, <2>8 DEF Collected, SameOwnership
    <3>4. d.process.termination_requested = p.termination_requested
      BY <2>2, <2>8 DEF SameOwnership
    <3> HIDE DEF r
    <3> QED BY <1>2, <2>1, <2>8, <2>9, <2>10, <3>1, <3>2, <3>3, <3>4
  <2>11. CASE r # d
    <3>1. /\ r = [d EXCEPT !.process.termination_requested = TRUE,
                           !.process.termination_error = fails,
                           !.child.killed = ~fails]
          /\ d.process.termination_pending /\ d.process.is_owned
          /\ d.process.exit_status = {}
      BY <2>7, <2>11 DEF request_termination_once, Has, ProcessRecord
    <3> DEFINE q == [d.process EXCEPT !.termination_requested = TRUE,
                                      !.termination_error = fails]
               e == [d.child EXCEPT !.killed = ~fails]
    <3>2. r.process = q /\ r.child = e /\ Beside(r, d)
      BY <2>7, <3>1 DEF Has, Beside
    <3>3. q \in ProcessRecord /\ e \in ChildRecord
      BY <2>7, ZenonT(60) DEF Has, ProcessRecord, ChildRecord
    <3>4. Due(p, q, t) <=> Due(p, d.process, t)
      BY <2>7 DEF Has, ProcessRecord, Due, stop_requested, grace_has_passed
    <3>5. /\ SameFrames(r, d) /\ SameStop(r, d)
          /\ r.child.status = d.child.status
          /\ q.is_owned = d.process.is_owned /\ q.exit_status = d.process.exit_status
          /\ q.ownership_lost = d.process.ownership_lost
          /\ q.termination_pending = d.process.termination_pending
      BY <2>7, <3>2
         DEF Has, SameFrames, SameRecord, SameStop, ProcessRecord, ChildRecord
    <3> HIDE DEF r, q, e
    <3>6. Has(r) /\ Beside(r, s)
      BY <2>2, <2>5, <2>7, <3>2, <3>3 DEF Has, Beside
    <3>7. SameFrames(r, s) /\ SameStop(r, s)
      BY <2>2, <2>7, <3>5 DEF SameFrames, SameRecord, SameStop
    <3>8. Collected(r, s)
      BY <2>2, <2>5, <2>8, <3>2, <3>5 DEF Collected, SameOwnership
    <3> QED BY <1>2, <2>1, <2>8, <2>9, <3>1, <3>2, <3>4, <3>5, <3>6, <3>7, <3>8
  <2> QED BY <2>10, <2>11
<1> QED BY <1>1, <1>2

LEMMA CloseChannelsEffect ==
  ASSUME NEW s, Has(s), NEW fails \in BOOLEAN
  PROVE  LET r == close_channels(s, fails)
             p == s.process
             q == r.process
         IN  /\ Has(r) /\ Beside(r, s) /\ SameFrames(r, s) /\ SameOwnership(q, p)
             /\ r.child = s.child
             /\ q.stop_requested_at = p.stop_requested_at
             /\ q.stop_delivered = p.stop_delivered
             /\ q.termination_pending = p.termination_pending
             /\ p.io_error => q.io_error
             /\ ~can_close(p) => r = s
             /\ can_close(p) =>
                  /\ q.channels_closed = ~fails /\ ~q.is_open
                  /\ fails => q.io_error /\ q.channel_cleanup_unknown
                  /\ ~fails => /\ q.io_error = p.io_error
                               /\ ~q.channel_cleanup_unknown
<1> DEFINE p == s.process
           r == close_channels(s, fails)
           io == p.io_error \/ fails
           unknown == p.channel_cleanup_unknown \/ fails
           done == ~fails
           q == [p EXCEPT !.is_open = FALSE, !.channels_closed = done,
                          !.io_error = io, !.channel_cleanup_unknown = unknown]
<1>0. p \in ProcessRecord /\ s.child \in ChildRecord /\ {"process", "child"} \subseteq DOMAIN s
  BY DEF Has
<1>1. CASE ~can_close(p)
  <2>1. r = s
    BY <1>1 DEF close_channels
  <2> QED BY <1>1, <2>1
          DEF Has, Beside, SameFrames, SameRecord, SameOwnership
<1>2. CASE can_close(p)
  <2>1. r.process = q /\ r.child = s.child /\ Beside(r, s)
    BY <1>0, <1>2 DEF close_channels, Beside, ProcessRecord
  <2>2. q \in ProcessRecord
    <3>1. io \in BOOLEAN /\ done \in BOOLEAN /\ unknown \in BOOLEAN
      OBVIOUS
    <3> HIDE DEF io, done, unknown
    <3> QED BY <1>0, <3>1 DEF ProcessRecord
  <2>3. Has(r)
    BY <1>0, <2>1, <2>2 DEF Has, Beside
  <2> HIDE DEF r
  <2>4. SameFrames(r, s) /\ SameOwnership(q, p)
    BY <2>1 DEF Has, SameFrames, SameRecord, SameOwnership, ProcessRecord
  <2>5. /\ q.stop_requested_at = p.stop_requested_at
        /\ q.stop_delivered = p.stop_delivered
        /\ q.termination_pending = p.termination_pending
        /\ q.channels_closed = done /\ q.is_open = FALSE
        /\ q.io_error = io /\ q.channel_cleanup_unknown = unknown
    BY <1>0 DEF ProcessRecord
  <2>6. ~p.channel_cleanup_unknown /\ p.io_error \in BOOLEAN
    BY <1>2 DEF can_close, Has, ProcessRecord
  <2> HIDE DEF q
  <2> QED BY <1>2, <2>1, <2>3, <2>4, <2>5, <2>6 DEF r
<1> QED BY <1>1, <1>2

\* What is read of the pipe in one poll, and whether the end was seen.
Drained(r, s) ==
  \E read \in ProcessRecord, k \in 0..Len(s.child.pipe) :
    /\ read = consumed(s.process, SubSeq(s.child.pipe, 1, k))
    /\ r.child.pipe = SubSeq(s.child.pipe, k + 1, Len(s.child.pipe))
    /\ \/ /\ SameRecord(read, r.process)
          /\ r.process.event_eof = s.process.event_eof
       \/ /\ k = Len(s.child.pipe) /\ s.child.status # "alive"
          /\ ~s.process.event_eof
          /\ r.process = [read EXCEPT !.event_eof = TRUE,
                           !.malformed = read.malformed \/ read.terminal = "none"]

LEMMA DrainEffect ==
  ASSUME NEW s, Has(s), NEW fails \in BOOLEAN
  PROVE  LET r == drain_events(s, fails)
             p == s.process
             q == r.process
         IN  /\ Has(r) /\ Beside(r, s) /\ SameOwnership(q, p)
             /\ q.stop_requested_at = p.stop_requested_at
             /\ q.stop_delivered = p.stop_delivered
             /\ q.termination_pending = p.termination_pending
             /\ q.is_open = p.is_open /\ q.channels_closed = p.channels_closed
             /\ q.channel_cleanup_unknown = p.channel_cleanup_unknown
             /\ p.io_error => q.io_error
             /\ p.malformed => q.malformed
             /\ p.event_eof => r = s
             /\ r.child = [s.child EXCEPT !.pipe = r.child.pipe]
             /\ Drained(r, s)
<1> DEFINE p == s.process
           c == s.child
           pipe == c.pipe
           count == IF Len(pipe) < FramesPerPoll THEN Len(pipe) ELSE FramesPerPoll
           read == consumed(p, SubSeq(pipe, 1, count))
           r == drain_events(s, fails)
           q == r.process
<1>1. /\ p \in ProcessRecord /\ c \in ChildRecord /\ {"process", "child"} \subseteq DOMAIN s
      /\ pipe \in Seq(Frame)
  BY DEF Has, ChildRecord
<1>2. CASE ~p.is_open \/ p.event_eof
  <2>1. r = s
    BY <1>2 DEF drain_events
  <2>2. SubSeq(pipe, 1, 0) = <<>> /\ SubSeq(pipe, 1, Len(pipe)) = pipe
    BY <1>1
  <2>3. p = consumed(p, SubSeq(pipe, 1, 0))
    BY <2>2, ConsumedNone
  <2>4. c = [c EXCEPT !.pipe = pipe]
    BY <1>1 DEF ChildRecord
  <2>5. SameRecord(p, p) /\ SameOwnership(p, p)
    BY DEF SameRecord, SameOwnership
  <2>6. \E x \in ProcessRecord, k \in 0..Len(pipe) :
          /\ x = consumed(p, SubSeq(pipe, 1, k))
          /\ pipe = SubSeq(pipe, k + 1, Len(pipe))
          /\ SameRecord(x, p)
    <3>1. 0 \in 0..Len(pipe) /\ pipe = SubSeq(pipe, 0 + 1, Len(pipe))
      BY <1>1, <2>2
    <3> QED BY <1>1, <2>3, <2>5, <3>1
  <2>7. Has(s) /\ Beside(s, s)
    BY DEF Beside
  <2>8. Drained(s, s)
    BY <2>6 DEF Drained
  <2> QED BY <2>1, <2>4, <2>5, <2>7, <2>8
<1>3. CASE p.is_open /\ ~p.event_eof
  <2>1. count \in 0..Len(pipe) /\ SubSeq(pipe, 1, count) \in Seq(Frame)
        /\ SubSeq(pipe, count + 1, Len(pipe)) \in Seq(Frame)
    BY <1>1, ProcessAssumption
  <2> DEFINE left == SubSeq(pipe, count + 1, Len(pipe))
             at_end == count < FramesPerPoll /\ c.status # "alive"
             ended == [read EXCEPT !.event_eof = TRUE,
                         !.malformed = read.malformed \/ read.terminal = "none"]
             broken == [read EXCEPT !.io_error = TRUE]
             after == IF fails THEN broken ELSE IF at_end THEN ended ELSE read
  <2>2. /\ read \in ProcessRecord /\ SameOwner(read, p)
        /\ p.malformed => read = p
    BY <1>1, <2>1, ConsumedType
  <2>3. at_end => count = Len(pipe)
    BY <1>1, ProcessAssumption
  <2>4. r = [s EXCEPT !.child.pipe = left, !.process = after]
    BY <1>3 DEF drain_events
  <2> HIDE DEF left, read, at_end
  <2>5. /\ broken \in ProcessRecord /\ SameRecord(read, broken)
        /\ broken.event_eof = read.event_eof
        /\ SameOwnership(broken, read) /\ broken.io_error
        /\ broken.stop_requested_at = read.stop_requested_at
        /\ broken.stop_delivered = read.stop_delivered
        /\ broken.termination_pending = read.termination_pending
        /\ broken.is_open = read.is_open /\ broken.channels_closed = read.channels_closed
        /\ broken.channel_cleanup_unknown = read.channel_cleanup_unknown
    BY <2>2 DEF ProcessRecord, SameRecord, SameOwnership
  <2>6. /\ ended \in ProcessRecord
        /\ SameOwnership(ended, read) /\ ended.io_error = read.io_error
        /\ ended.stop_requested_at = read.stop_requested_at
        /\ ended.stop_delivered = read.stop_delivered
        /\ ended.termination_pending = read.termination_pending
        /\ ended.is_open = read.is_open /\ ended.channels_closed = read.channels_closed
        /\ ended.channel_cleanup_unknown = read.channel_cleanup_unknown
        /\ read.malformed => ended.malformed
    BY <2>2 DEF ProcessRecord, SameOwnership
  <2>7. q = after /\ r.child = [c EXCEPT !.pipe = left] /\ Beside(r, s)
    <3> HIDE DEF after
    <3> QED BY <1>1, <2>4 DEF Beside
  <2>8. r.child.pipe = left /\ r.child \in ChildRecord
    BY <1>1, <2>1, <2>7 DEF ChildRecord, left
  <2>9. SameRecord(read, read) /\ SameOwnership(read, read)
    BY DEF SameRecord, SameOwnership
  <2> HIDE DEF r, ended, broken
  <2>10. after \in ProcessRecord
    BY <2>2, <2>5, <2>6
  <2>11. Has(r)
    BY <1>1, <2>7, <2>8, <2>10 DEF Has, Beside
  <2>12. /\ SameOwnership(after, read)
         /\ after.stop_requested_at = read.stop_requested_at
         /\ after.stop_delivered = read.stop_delivered
         /\ after.termination_pending = read.termination_pending
         /\ after.is_open = read.is_open /\ after.channels_closed = read.channels_closed
         /\ after.channel_cleanup_unknown = read.channel_cleanup_unknown
         /\ read.io_error => after.io_error
    BY <2>5, <2>6, <2>9
  <2>13. read.malformed => after.malformed
    BY <2>2, <2>5, <2>6 DEF SameRecord
  <2>14. \/ SameRecord(read, after) /\ after.event_eof = read.event_eof
         \/ at_end /\ after = ended
    BY <2>5, <2>9
  <2> HIDE DEF after
  <2>15. /\ SameOwnership(after, p)
         /\ after.stop_requested_at = p.stop_requested_at
         /\ after.stop_delivered = p.stop_delivered
         /\ after.termination_pending = p.termination_pending
         /\ after.is_open = p.is_open /\ after.channels_closed = p.channels_closed
         /\ after.channel_cleanup_unknown = p.channel_cleanup_unknown
         /\ p.io_error => after.io_error
         /\ p.malformed => after.malformed
    BY <2>2, <2>12, <2>13 DEF SameOwner, SameOwnership
  <2>16. read.event_eof = p.event_eof
    BY <2>2 DEF SameOwner
  <2>17. \E x \in ProcessRecord, k \in 0..Len(pipe) :
           /\ x = consumed(p, SubSeq(pipe, 1, k))
           /\ r.child.pipe = SubSeq(pipe, k + 1, Len(pipe))
           /\ \/ SameRecord(x, q) /\ q.event_eof = p.event_eof
              \/ /\ k = Len(pipe) /\ c.status # "alive" /\ ~p.event_eof
                 /\ q = [x EXCEPT !.event_eof = TRUE,
                            !.malformed = x.malformed \/ x.terminal = "none"]
    <3> USE <2>1, <2>2
    <3> WITNESS read \in ProcessRecord, count \in 0..Len(pipe)
    <3>1. read = consumed(p, SubSeq(pipe, 1, count))
      BY DEF read
    <3>2. r.child.pipe = SubSeq(pipe, count + 1, Len(pipe))
      BY <2>8 DEF left
    <3> QED BY <1>3, <2>3, <2>7, <2>14, <2>16, <3>1, <3>2 DEF ended, at_end
  <2>18. Drained(r, s)
    BY <2>17 DEF Drained
  <2> QED BY <1>3, <2>7, <2>8, <2>11, <2>15, <2>18 DEF r
<1> QED BY <1>2, <1>3

-----------------------------------------------------------------------------
(* The worker *)

\* The worker c has written a frame of this kind and gone on to d.
Sends(c, d, kind) ==
  /\ d.dropped = c.dropped
  /\ \/ /\ kind = "progress" /\ c.at = "loop" /\ d.completed = c.completed + 1
        /\ d.at = IF c.completed + 1 = Batches THEN "complete" ELSE "loop"
     \/ /\ d.completed = c.completed
        /\ \/ kind = "ready" /\ c.at = "start" /\ d.at = "loop"
           \/ kind = "stop_acknowledged" /\ c.at = "stop" /\ d.at = "cancel"
           \/ kind = "cancelled" /\ c.at = "cancel" /\ d.at = "cancelled"
           \/ kind = "completed" /\ c.at = "complete" /\ d.at = "completed"

\* The worker c counts no further than it is asked to, and drops no more than
\* it has counted.
Paced(c) ==
  /\ c.at # "foreign"
  /\ c.completed <= Batches /\ c.dropped <= c.completed
  /\ c.at \in {"start", "loop"} => c.completed < Batches

\* What the worker does in one step, from c to d.
Works(c, d) ==
  \/ /\ d.status = "alive" /\ d.exit = {}
     /\ \E kind \in FrameKind :
          /\ Sends(c, d, kind)
          /\ d.pipe = Append(c.pipe,
               [kind |-> kind, iterations |-> d.completed, dropped |-> d.dropped])
  \/ /\ d.status = "alive" /\ d.exit = {} /\ d.pipe = c.pipe
     /\ c.at = "loop" /\ c.command /\ d.at = "stop"
     /\ d.completed = c.completed /\ d.dropped = c.dropped
  \/ /\ d.status = "alive" /\ d.exit = {} /\ d.pipe = c.pipe
     /\ c.at = "loop" /\ d.completed = c.completed + 1
     /\ d.at = IF c.completed + 1 = Batches THEN "complete" ELSE "loop"
     /\ d.dropped = c.dropped + 1
  \/ /\ d.status = "exited" /\ c.at \in {"completed", "cancelled"}
     /\ d.exit = {c.at} /\ d.at = c.at /\ d.pipe = c.pipe
     /\ d.completed = c.completed /\ d.dropped = c.dropped

LEMMA WorkerDoes ==
  ASSUME NEW c \in ChildRecord, c.status = "alive", c.exit = {},
         Paced(c), NEW d \in worker_steps(c)
  PROVE  /\ d \in ChildRecord
         /\ d.command => c.command
         /\ Works(c, d)
<1>0. /\ c.completed \in Nat /\ c.dropped \in Nat /\ c.pipe \in Seq(Frame)
      /\ c.at \in {"start", "loop", "stop", "cancel", "complete", "completed", "cancelled"}
  BY DEF ChildRecord, Paced
<1>1. /\ c.completed <= Batches /\ c.dropped <= c.completed
      /\ c.at = "loop" => c.completed + 1 <= Batches
  BY <1>0, ProcessAssumption DEF Paced
\* A step that writes a frame.
<1>2. ASSUME NEW kind \in FrameKind, NEW e \in ChildRecord, NEW at,
             at \in {"loop", "cancel", "complete", "completed", "cancelled"},
             e.status = "alive", e.exit = {}, e.pipe = c.pipe,
             e.command => c.command, e.completed <= Batches, e.dropped <= Batches,
             d = [sent(e, kind) EXCEPT !.at = at]
      PROVE  /\ d \in ChildRecord /\ d.status = "alive" /\ d.exit = {}
             /\ d.command => c.command
             /\ d.completed = e.completed /\ d.dropped = e.dropped /\ d.at = at
             /\ d.pipe = Append(c.pipe,
                  [kind |-> kind, iterations |-> d.completed, dropped |-> d.dropped])
  <2> DEFINE f == frame(e, kind)
             longer == Append(e.pipe, f)
  <2>1. e.completed \in Nat /\ e.dropped \in Nat
    BY DEF ChildRecord
  <2>2. /\ f = [kind |-> kind, iterations |-> e.completed, dropped |-> e.dropped]
        /\ f \in Frame
    BY <1>2, <2>1, ProcessAssumption DEF frame, Frame
  <2>3. longer \in Seq(Frame)
    BY <2>2 DEF ChildRecord
  <2>4. d = [e EXCEPT !.pipe = longer, !.at = at]
    <3>1. sent(e, kind) = [e EXCEPT !.pipe = longer]
      BY DEF sent
    <3> HIDE DEF longer
    <3> QED BY <1>2, <3>1 DEF ChildRecord
  <2> HIDE DEF longer
  <2>5. /\ d \in ChildRecord /\ d.status = e.status /\ d.exit = e.exit
        /\ d.command = e.command /\ d.pipe = longer
        /\ d.completed = e.completed /\ d.dropped = e.dropped /\ d.at = at
    BY <1>2, <2>3, <2>4 DEF ChildRecord
  <2> HIDE DEF f
  <2> QED BY <1>2, <2>2, <2>5 DEF longer
<1>3. CASE c.at = "loop" /\ c.command
  <2>1. d = [c EXCEPT !.command = FALSE, !.at = "stop"]
    BY <1>3 DEF worker_steps, compute_batch
  <2> QED BY <1>3, <2>1 DEF ChildRecord, Works
<1>4. CASE c.at = "loop" /\ ~c.command
  <2> DEFINE at == IF c.completed + 1 = Batches THEN "complete" ELSE "loop"
             more == c.completed + 1
             done == [c EXCEPT !.completed = more, !.at = at]
  <2>1. d = IF has_room(c) THEN sent(done, "progress")
            ELSE [done EXCEPT !.dropped = done.dropped + 1]
    BY <1>4 DEF worker_steps, compute_batch, ChildRecord
  <2>2. at \in {"complete", "loop"}
    OBVIOUS
  <2>3. at = IF c.completed + 1 = Batches THEN "complete" ELSE "loop"
    OBVIOUS
  <2>0. more \in Nat /\ more = c.completed + 1
    BY <1>0
  <2> HIDE DEF at, more
  <2>4. /\ done \in ChildRecord /\ done.completed = c.completed + 1 /\ done.at = at
        /\ done.dropped = c.dropped /\ done.pipe = c.pipe /\ done.status = c.status
        /\ done.exit = c.exit /\ done.command = c.command
    BY <2>0, <2>2 DEF ChildRecord
  <2> HIDE DEF done
  <2>5. CASE has_room(c)
    <3>1. d = sent(done, "progress")
      BY <2>1, <2>5
    <3>2. d = [sent(done, "progress") EXCEPT !.at = at]
      BY <2>4, <3>1 DEF sent, ChildRecord
    <3>3. "progress" \in FrameKind /\ done.completed <= Batches /\ done.dropped <= Batches
      BY <1>0, <1>1, <1>4, <2>4, ProcessAssumption DEF FrameKind
    <3>4. /\ d \in ChildRecord /\ d.status = "alive" /\ d.exit = {}
          /\ d.command => c.command
          /\ d.completed = done.completed /\ d.dropped = done.dropped /\ d.at = at
          /\ d.pipe = Append(c.pipe,
               [kind |-> "progress", iterations |-> d.completed, dropped |-> d.dropped])
      BY <1>2, <2>2, <2>4, <3>2, <3>3
    <3>5. Sends(c, d, "progress")
      BY <1>4, <2>3, <2>4, <3>4 DEF Sends
    <3> QED BY <3>3, <3>4, <3>5 DEF Works
  <2>6. CASE ~has_room(c)
    <3>1. d = [done EXCEPT !.dropped = done.dropped + 1]
      BY <2>1, <2>6
    <3> QED BY <1>0, <1>4, <2>3, <2>4, <3>1 DEF ChildRecord, Works
  <2> QED BY <2>5, <2>6
<1>5. CASE c.at \in {"completed", "cancelled"}
  <2>1. d = [c EXCEPT !.status = "exited", !.exit = {c.at}]
    BY <1>5 DEF worker_steps, exited
  <2>2. {c.at} \in ExitStatus
    BY <1>5 DEF ExitStatus, Exit
  <2> QED BY <1>5, <2>1, <2>2 DEF ChildRecord, Works
<1>6. CASE c.at \in {"start", "stop", "cancel", "complete"}
  <2>1. d = send_required(c)
    BY <1>6 DEF worker_steps
  <2>2. PICK kind \in FrameKind, at \in {"loop", "cancel", "completed", "cancelled"} :
          /\ d = [sent(c, kind) EXCEPT !.at = at]
          /\ \/ kind = "ready" /\ c.at = "start" /\ at = "loop"
             \/ kind = "stop_acknowledged" /\ c.at = "stop" /\ at = "cancel"
             \/ kind = "cancelled" /\ c.at = "cancel" /\ at = "cancelled"
             \/ kind = "completed" /\ c.at = "complete" /\ at = "completed"
    <3>1. CASE c.at = "start"
      BY <2>1, <3>1 DEF send_required, FrameKind
    <3>2. CASE c.at = "stop"
      BY <2>1, <3>2 DEF send_required, FrameKind
    <3>3. CASE c.at = "cancel"
      BY <2>1, <3>3 DEF send_required, FrameKind
    <3>4. CASE c.at = "complete"
      BY <2>1, <3>4 DEF send_required, FrameKind
    <3> QED BY <1>6, <3>1, <3>2, <3>3, <3>4
  <2>3. c.completed <= Batches /\ c.dropped <= Batches
    BY <1>0, <1>1, ProcessAssumption
  <2>4. /\ d \in ChildRecord /\ d.status = "alive" /\ d.exit = {}
        /\ d.command => c.command
        /\ d.completed = c.completed /\ d.dropped = c.dropped /\ d.at = at
        /\ d.pipe = Append(c.pipe,
             [kind |-> kind, iterations |-> d.completed, dropped |-> d.dropped])
    BY <1>2, <2>2, <2>3
  <2>5. Sends(c, d, kind)
    BY <2>2, <2>4 DEF Sends
  <2> QED BY <2>4, <2>5 DEF Works
<1> QED BY <1>0, <1>3, <1>4, <1>5, <1>6 DEF Works

LEMMA WorkerKeepsPace ==
  ASSUME NEW c \in ChildRecord, c.status = "alive", c.exit = {},
         Paced(c), NEW d \in worker_steps(c)
  PROVE  /\ d \in ChildRecord /\ Paced(d) /\ d.status \in {"alive", "exited"}
         /\ d.exit = {} <=> d.status = "alive"
<1>1. d \in ChildRecord /\ Works(c, d)
  BY WorkerDoes
<1>2. /\ c.completed \in Nat /\ c.dropped \in Nat
      /\ d.completed \in Nat /\ d.dropped \in Nat
  BY <1>1 DEF ChildRecord
<1>3. /\ d.status \in {"alive", "exited"}
      /\ d.exit = {} <=> d.status = "alive"
  BY <1>1 DEF Works
<1>4. Paced(d)
  <2>1. CASE \E kind \in FrameKind : Sends(c, d, kind)
    BY <1>2, <2>1, ProcessAssumption DEF Paced, Sends
  <2>2. CASE ~\E kind \in FrameKind : Sends(c, d, kind)
    <3>1. \/ /\ c.at = "loop" /\ d.at = "stop"
             /\ d.completed = c.completed /\ d.dropped = c.dropped
          \/ /\ c.at = "loop" /\ d.completed = c.completed + 1
             /\ d.at = IF c.completed + 1 = Batches THEN "complete" ELSE "loop"
             /\ d.dropped = c.dropped + 1
          \/ /\ c.at \in {"completed", "cancelled"} /\ d.at = c.at
             /\ d.completed = c.completed /\ d.dropped = c.dropped
      BY <1>1, <2>2, Zenon DEF Works
    <3> QED BY <1>2, <3>1, ProcessAssumption DEF Paced
  <2> QED BY <2>1, <2>2
<1> QED BY <1>1, <1>3, <1>4
=============================================================================
