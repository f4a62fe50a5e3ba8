-------------------------- MODULE GateSystem_proofs --------------------------
(***************************************************************************)
(* Theorems about the gate, for every identity space, counter width, set of *)
(* times and set of evidence records: its types, its safety, and that it    *)
(* implements the abstract operation domain.                                *)
(***************************************************************************)
EXTENDS GateSystem, GateProcess_proofs

-----------------------------------------------------------------------------
(* Types *)

\* A record the environment reports is an evidence record.
LEMMA OfferedTypes ==
  ASSUME NEW s, NEW record \in RecordFrom(s)
  PROVE record \in EvidenceRecord
  BY EnvironmentAssumption DEF RecordFrom

\* The authority and the candidate identity of a gate are well typed.
LEMMA IssuedTypes ==
  ASSUME NEW g \in Gate
  PROVE  g.receipt.authority \in Authority /\ g.candidate.binding \in Binding
  BY DEF Gate, Receipt, Candidate

\* Every call keeps the state of the gate well typed.
LEMMA StepType == TypeOK /\ [Next]_vars => TypeOK'
<1> SUFFICES ASSUME TypeOK, [Next]_vars PROVE TypeOK'
  OBVIOUS
<1> USE EnvironmentAssumption
<1>1. gate \in Gate /\ issued \subseteq Authority /\ identities \subseteq Binding
  BY DEF TypeOK
<1>2. CASE ObserveStartup
  BY <1>1, <1>2, StartupType, OfferedTypes DEF ObserveStartup, TypeOK
<1>3. CASE ObserveExecutionCapabilities
  BY <1>1, <1>3, CapabilitiesType, OfferedTypes
     DEF ObserveExecutionCapabilities, TypeOK
<1>4. CASE WithdrawBinding
  BY <1>1, <1>4, WithdrawType DEF WithdrawBinding, TypeOK
<1>5. CASE BeginRebind
  <2>1. gate' \in Gate
    BY <1>1, <1>5, BeginType, OfferedTypes DEF BeginRebind
  <2> QED BY <1>1, <1>5, <2>1, IssuedTypes DEF BeginRebind, TypeOK
<1>6. CASE ObserveRebindReadiness
  BY <1>1, <1>6, ReadinessType, OfferedTypes DEF ObserveRebindReadiness, TypeOK
<1>7. CASE CommitRebind
  BY <1>1, <1>7, CommitType DEF CommitRebind, TypeOK
<1>8. CASE CloseAdmission
  BY <1>1, <1>8, CloseType DEF CloseAdmission, TypeOK
<1>9. CASE Admit
  <2>1. gate' \in Gate
    <3>1. Optional(Deadlines) \subseteq Optional(Time)
      BY DEF Optional
    <3> QED BY <1>1, <1>9, <3>1, AdmitType DEF Admit
  <2> QED BY <1>1, <1>9, <2>1, IssuedTypes DEF Admit, TypeOK
<1>10. CASE ClaimDispatch
  BY <1>1, <1>10, DispatchType DEF ClaimDispatch, TypeOK
<1>11. CASE RequestCancel
  BY <1>1, <1>11, CancelType DEF RequestCancel, TypeOK
<1>12. CASE ObserveTime
  BY <1>1, <1>12, ExpiryType DEF ObserveTime, TypeOK
<1>13. CASE ObserveStopAcknowledgement
  BY <1>1, <1>13, StopType, OfferedTypes DEF ObserveStopAcknowledgement, TypeOK
<1>14. CASE ObserveNonSubmission
  BY <1>1, <1>14, NonSubmissionType, OfferedTypes DEF ObserveNonSubmission, TypeOK
<1>15. CASE ObserveNative
  BY <1>1, <1>15, NativeType, OfferedTypes DEF ObserveNative, TypeOK
<1>16. CASE ObserveOutputAccepted
  BY <1>1, <1>16, OutputType, OfferedTypes DEF ObserveOutputAccepted, TypeOK
<1>17. CASE ObserveOutputNotDelivered
  BY <1>1, <1>17, NonDeliveryType, OfferedTypes DEF ObserveOutputNotDelivered, TypeOK
<1>18. CASE ObserveSettlement
  BY <1>1, <1>18, SettlementType, OfferedTypes DEF ObserveSettlement, TypeOK
<1>19. CASE UNCHANGED vars
  BY <1>1, <1>19 DEF TypeOK, vars
<1> QED
  BY <1>2, <1>3, <1>4, <1>5, <1>6, <1>7, <1>8, <1>9, <1>10, <1>11, <1>12, <1>13,
     <1>14, <1>15, <1>16, <1>17, <1>18, <1>19 DEF Next

\* Every call keeps the state of the gate well typed, for any evidence and any
\* width of its counters; in particular no counter leaves its width.
THEOREM TypeCorrect == Spec => []TypeOK
<1>1. Init => TypeOK
  <2>1. {InitialBinding} \subseteq Binding
    BY BindingAssumption, NumberAssumption DEF Binding
  <2> QED BY <2>1, InitialGateType DEF Init, TypeOK
<1> QED BY <1>1, StepType, PTL DEF Spec

-----------------------------------------------------------------------------
(* The inductive invariant *)

\* The fields of a receipt say what its evidence says.
EvidenceAgrees(r) ==
  /\ r.evidence["non_submission"] # {} <=> r.dispatch = "not_submitted"
  /\ r.evidence["accepted"] # {} <=> r.acceptance = "accepted"
  /\ r.evidence["rejected"] # {} <=> r.acceptance = "rejected"
  /\ r.acceptance # "pending" => r.dispatch = "submitted"
  /\ \A k \in {"started"} \cup Terminal :
       r.evidence[k] # {} => r.acceptance = "accepted"
  /\ r.evidence["output"] # {} <=> r.output = "accepted"
  /\ r.evidence["non_delivery"] # {} <=> r.output = "not_delivered"
  /\ r.evidence["settlement"] # {} <=> r.settlement = "settled"

\* The outcome is the only terminal kind reported, and unknown when there is
\* more than one; a settled operation was dispatched or will never be.
OutcomeAgrees(r) ==
  /\ r.outcome = "unknown" <=>
       \E k, l \in Terminal : k # l /\ r.evidence[k] # {} /\ r.evidence[l] # {}
  /\ \A k \in Terminal : r.outcome = k => r.evidence[k] # {}
  /\ \A k \in Terminal :
       r.evidence[k] # {} => r.outcome = "unknown" \/ r.outcome = k
  /\ r.outcome = "not_executed" =>
       r.dispatch = "not_submitted" \/ r.acceptance = "rejected"
  /\ r.output = "accepted" => r.evidence["succeeded"] # {}
  /\ r.settlement = "settled" => r.dispatch # "pending"

\* Only work that was dispatched is running.
DispatchAgrees(r) ==
  /\ r.dispatch = "pending" => r.dispatched_at = {}
  /\ r.dispatch = "submitted" => r.dispatched_at # {}

\* The receipt belongs to an operation, and its withdrawal to the binding that
\* the operation was admitted under.
OwnerAgrees ==
  /\ ~has_receipt(gate) => gate.receipt = NoReceipt
  /\ has_receipt(gate) => gate.receipt.authority \in issued
  /\ has_receipt(gate) =>
       gate.receipt.authority.binding.generation <= gate.binding.generation
  /\ gate.receipt.withdrawn_at # {} =>
       \/ gate.phase # "active"
       \/ gate.receipt.authority.binding # gate.binding

\* Identities are taken in increasing order.
NumbersAgree ==
  /\ \A a \in issued :
       /\ a.operation_id # 0
       /\ gate.next_operation_id # 0 => a.operation_id < gate.next_operation_id
  /\ gate.binding \in identities
  /\ \A b \in identities : b.generation <= gate.generation_high_water
  /\ has_candidate(gate) =>
       /\ gate.candidate.binding \in identities
       /\ gate.binding.generation < gate.candidate.binding.generation

\* A candidate is prepared after the old scope was seen idle, and its readiness
\* is observed after that.
CandidateFollows(c) ==
  c.binding.generation # 0 =>
    /\ \E p \in c.old_scope : p.record.observed_at <= c.prepared_at
    /\ \A k \in Concern : \A p \in c.readiness[k] :
         c.prepared_at <= p.record.observed_at

\* The properties themselves, and what they need to be inductive.
IInv ==
  /\ TypeOK
  /\ PhasesAgree /\ CapabilitiesAreCurrent
  /\ OperationIdsAreUnique /\ NumbersAgree /\ OwnerAgrees
  /\ CandidateFollows(gate.candidate) /\ ReadinessFollowsOldWork
  /\ DispositionIsFresh
  /\ EvidenceAgrees(gate.receipt)
  /\ OutcomeAgrees(gate.receipt)
  /\ DispatchAgrees(gate.receipt)
  /\ RevokedWorkIsStopped
  /\ DispatchedWithinAuthority
  /\ ResultWithinAuthority

\* The parts of the invariant that are about the receipt alone.
StopAgrees(r) ==
  /\ is_revoked(r) /\ r.dispatch = "submitted" /\ r.outcome = "pending"
       => r.stop_requested_at # {}
  /\ \A t \in r.stop_requested_at :
       t \in revocations(r) /\ \E d \in r.dispatched_at : d <= t

DispatchWithin(r) ==
  \A t \in r.dispatched_at :
    /\ r.authority.admitted_at <= t
    /\ \A x \in revocations(r) : t <= x
    /\ ~has_reached_deadline(r, t)

ResultWithin(r) ==
  r.output = "accepted" =>
    \E o \in r.evidence["output"] :
      /\ \E p \in r.evidence["succeeded"] : p.observed_at <= o.observed_at
      /\ \A x \in revocations(r) : o.observed_at <= x
      /\ ~has_reached_deadline(r, o.observed_at)

ReceiptOK(r) ==
  /\ r.disposition = authority_disposition(r)
  /\ EvidenceAgrees(r) /\ OutcomeAgrees(r) /\ DispatchAgrees(r)
  /\ StopAgrees(r) /\ DispatchWithin(r) /\ ResultWithin(r)

-----------------------------------------------------------------------------
(* What the calls change of a receipt *)

KeepsWork(r, s) ==
  /\ s.authority = r.authority /\ s.deadline = r.deadline
  /\ s.dispatch = r.dispatch /\ s.dispatched_at = r.dispatched_at

KeepsRevocations(r, s) ==
  /\ s.cancelled_at = r.cancelled_at /\ s.expired_at = r.expired_at
  /\ s.withdrawn_at = r.withdrawn_at
  /\ s.stop_requested_at = r.stop_requested_at

KeepsOutcome(r, s) == s.acceptance = r.acceptance /\ s.outcome = r.outcome

KeepsOutput(r, s) == s.output = r.output /\ s.reason = r.reason

AddsEvidence(r, s, kind, T) ==
  \A k \in EvidenceKind :
    s.evidence[k] = IF k = kind THEN T ELSE r.evidence[k]

\* Refreshing changes the disposition only, and leaves it fresh: it does not depend
\* on itself.
LEMMA RefreshFields ==
  ASSUME NEW r \in Receipt, NEW s, s = refresh_authority_disposition(r)
  PROVE  /\ KeepsWork(r, s) /\ KeepsRevocations(r, s) /\ KeepsOutcome(r, s)
         /\ KeepsOutput(r, s) /\ s.settlement = r.settlement
         /\ s.evidence = r.evidence
         /\ s.disposition = authority_disposition(s)
<1> USE DEF KeepsWork, KeepsRevocations, KeepsOutcome, KeepsOutput
<1>1. s.disposition = authority_disposition(r)
  BY DEF refresh_authority_disposition, Receipt
<1>2. /\ KeepsWork(r, s) /\ KeepsRevocations(r, s) /\ KeepsOutcome(r, s)
      /\ KeepsOutput(r, s) /\ s.settlement = r.settlement
      /\ s.evidence = r.evidence
  BY DEF refresh_authority_disposition, Receipt
<1>3. authority_disposition(s) = authority_disposition(r)
  BY <1>2 DEF authority_disposition, has_resolved_closure, has_resolved_effects,
              is_revoked, revocations
<1> QED BY <1>1, <1>2, <1>3

\* What every call that changes a receipt preserves and keeps.
FactsKept(r, s) ==
  /\ \A k \in EvidenceKind : r.evidence[k] # {} => s.evidence[k] = r.evidence[k]
  /\ revocations(r) \subseteq revocations(s)
  /\ r.stop_requested_at # {} => s.stop_requested_at = r.stop_requested_at
  /\ r.settlement = "settled" => s.settlement = "settled"
  /\ r.output # "pending" => s.output = r.output

\* An output changes alone, and is delivered for successful work that is not revoked;
\* a released receipt is released for good, or its outcome is a contradiction.
DomainKept(r, s) ==
  /\ s.output # r.output => revocations(s) = revocations(r) /\ s.outcome = r.outcome
  /\ s.output = "accepted" /\ r.output # "accepted" =>
       ~is_revoked(r) /\ r.outcome = "succeeded"
  /\ r.disposition = "released" => s.disposition \in {"released", "blocked_unknown"}

ReceiptStep(r, s) ==
  /\ ReceiptOK(s)
  /\ s.authority = r.authority
  /\ FactsKept(r, s)
  /\ DomainKept(r, s)
  /\ r.outcome = "unknown" => s.outcome = "unknown"

\* Settling a receipt whose effects are resolved.
LEMMA SettlementOK ==
  ASSUME NEW r \in Receipt, NEW s, NEW x, ReceiptOK(r),
         has_resolved_effects(r), r.settlement # "settled",
         KeepsWork(r, s), KeepsRevocations(r, s), KeepsOutcome(r, s),
         KeepsOutput(r, s), s.settlement = "settled",
         AddsEvidence(r, s, "settlement", {x}),
         s.disposition = authority_disposition(s)
  PROVE  ReceiptStep(r, s)
<1> USE DEF ReceiptOK, KeepsWork, KeepsRevocations, KeepsOutcome, KeepsOutput,
            AddsEvidence, EvidenceKind, NativeKind, Terminal
<1>1. EvidenceAgrees(s) /\ OutcomeAgrees(s)
  BY DEF EvidenceAgrees, OutcomeAgrees, has_resolved_effects
<1>2. StopAgrees(s) /\ DispatchWithin(s) /\ ResultWithin(s) /\ DispatchAgrees(s)
  BY DEF StopAgrees, DispatchWithin, ResultWithin, DispatchAgrees,
         is_revoked, revocations, has_reached_deadline
<1>3. FactsKept(r, s)
  BY DEF FactsKept, revocations, EvidenceAgrees
<1>4. DomainKept(r, s)
  BY DEF DomainKept, authority_disposition, has_resolved_closure, has_resolved_effects,
         is_revoked, revocations
<1> QED BY <1>1, <1>2, <1>3, <1>4 DEF ReceiptStep

\* Accepting the output of work that succeeded inside its authority.
LEMMA OutputOK ==
  ASSUME NEW r \in Receipt, NEW s, NEW x \in EvidenceRecord, ReceiptOK(r),
         ~is_revoked(r), r.outcome = "succeeded", r.output = "pending",
         ~has_reached_deadline(r, x.observed_at),
         \E p \in r.evidence["succeeded"] : p.observed_at <= x.observed_at,
         KeepsWork(r, s), KeepsRevocations(r, s), KeepsOutcome(r, s),
         s.output = "accepted", s.settlement = r.settlement,
         AddsEvidence(r, s, "output", {x}),
         s.disposition = authority_disposition(s)
  PROVE  ReceiptStep(r, s)
<1> USE DEF ReceiptOK, KeepsWork, KeepsRevocations, KeepsOutcome, AddsEvidence,
            EvidenceKind, NativeKind, Terminal
<1>1. EvidenceAgrees(s) /\ OutcomeAgrees(s)
  BY DEF EvidenceAgrees, OutcomeAgrees
<1>2. StopAgrees(s) /\ DispatchWithin(s) /\ DispatchAgrees(s)
  BY DEF StopAgrees, DispatchWithin, DispatchAgrees,
         is_revoked, revocations, has_reached_deadline
<1>3. ResultWithin(s)
  BY DEF ResultWithin, is_revoked, revocations, has_reached_deadline
<1>4. FactsKept(r, s)
  BY DEF FactsKept, revocations, EvidenceAgrees
<1>5. DomainKept(r, s)
  BY DEF DomainKept, authority_disposition, has_resolved_closure, has_resolved_effects,
         is_revoked, revocations
<1> QED BY <1>1, <1>2, <1>3, <1>4, <1>5 DEF ReceiptStep

\* Disposing of an output that is still pending.
LEMMA NonDeliveryOK ==
  ASSUME NEW r \in Receipt, NEW s, NEW x, ReceiptOK(r), r.output = "pending",
         KeepsWork(r, s), KeepsRevocations(r, s), KeepsOutcome(r, s),
         s.output = "not_delivered", s.settlement = r.settlement,
         AddsEvidence(r, s, "non_delivery", {x}),
         s.disposition = authority_disposition(s)
  PROVE  ReceiptStep(r, s)
<1> USE DEF ReceiptOK, KeepsWork, KeepsRevocations, KeepsOutcome, AddsEvidence,
            EvidenceKind, NativeKind, Terminal
<1>1. EvidenceAgrees(s) /\ OutcomeAgrees(s)
  BY DEF EvidenceAgrees, OutcomeAgrees
<1>2. StopAgrees(s) /\ DispatchWithin(s) /\ DispatchAgrees(s) /\ ResultWithin(s)
  BY DEF StopAgrees, DispatchWithin, DispatchAgrees, ResultWithin,
         is_revoked, revocations, has_reached_deadline
<1>4. FactsKept(r, s)
  BY DEF FactsKept, revocations, EvidenceAgrees
<1>5. DomainKept(r, s)
  BY DEF DomainKept, authority_disposition, has_resolved_closure, has_resolved_effects,
         is_revoked, revocations
<1> QED BY <1>1, <1>2, <1>4, <1>5 DEF ReceiptStep

\* Recording that the work was never submitted, with no native evidence.
LEMMA NonSubmissionOK ==
  ASSUME NEW r \in Receipt, NEW s, NEW x, ReceiptOK(r), r.dispatch # "not_submitted",
         \A k \in {"accepted", "rejected", "started", "succeeded", "failed"} :
           r.evidence[k] = {},
         s.authority = r.authority, s.deadline = r.deadline,
         s.dispatch = "not_submitted", s.dispatched_at = r.dispatched_at,
         s.acceptance = r.acceptance, s.outcome = "not_executed",
         KeepsRevocations(r, s), KeepsOutput(r, s), s.settlement = r.settlement,
         AddsEvidence(r, s, "non_submission", {x}),
         s.disposition = authority_disposition(s)
  PROVE  ReceiptStep(r, s)
<1> USE DEF ReceiptOK, KeepsRevocations, KeepsOutput, AddsEvidence,
            EvidenceKind, NativeKind, Terminal
<1>1. r.acceptance = "pending" /\ r.evidence["cancelled"] = {}
  BY DEF EvidenceAgrees, Receipt
<1>2. EvidenceAgrees(s) /\ OutcomeAgrees(s)
  BY <1>1 DEF EvidenceAgrees, OutcomeAgrees
<1>3. StopAgrees(s) /\ DispatchWithin(s) /\ DispatchAgrees(s) /\ ResultWithin(s)
  BY DEF StopAgrees, DispatchWithin, DispatchAgrees, ResultWithin,
         is_revoked, revocations, has_reached_deadline
<1>4. FactsKept(r, s)
  BY DEF FactsKept, revocations, EvidenceAgrees
<1>5. r.outcome # "unknown"
  BY <1>1 DEF OutcomeAgrees
<1>6. DomainKept(r, s)
  BY <1>1 DEF DomainKept, authority_disposition, has_resolved_closure, has_resolved_effects,
         is_revoked, revocations
<1> QED BY <1>2, <1>3, <1>4, <1>5, <1>6 DEF ReceiptStep

\* Recording the answer to a stop request.  The disposition is not refreshed, and
\* need not be.
LEMMA StopOK ==
  ASSUME NEW r \in Receipt, NEW s, NEW x, ReceiptOK(r), r.evidence["stop"] = {},
         KeepsWork(r, s), KeepsRevocations(r, s), KeepsOutcome(r, s),
         KeepsOutput(r, s), s.settlement = r.settlement,
         AddsEvidence(r, s, "stop", {x}), s.disposition = r.disposition
  PROVE  ReceiptStep(r, s)
<1> USE DEF ReceiptOK, KeepsWork, KeepsRevocations, KeepsOutcome, KeepsOutput,
            AddsEvidence, EvidenceKind, NativeKind, Terminal
<1>1. EvidenceAgrees(s) /\ OutcomeAgrees(s)
  BY DEF EvidenceAgrees, OutcomeAgrees
<1>2. StopAgrees(s) /\ DispatchWithin(s) /\ DispatchAgrees(s) /\ ResultWithin(s)
  BY DEF StopAgrees, DispatchWithin, DispatchAgrees, ResultWithin,
         is_revoked, revocations, has_reached_deadline
<1>3. s.disposition = authority_disposition(s)
  BY DEF authority_disposition, has_resolved_closure, has_resolved_effects,
         is_revoked, revocations
<1>4. FactsKept(r, s)
  BY DEF FactsKept, revocations
<1>5. DomainKept(r, s)
  BY DEF DomainKept, authority_disposition
<1> QED BY <1>1, <1>2, <1>3, <1>4, <1>5 DEF ReceiptStep

\* Dispatching work that is not revoked.  The disposition is not refreshed, and
\* need not be: a receipt that is not dispatched is not settled.
LEMMA DispatchOK ==
  ASSUME NEW r \in Receipt, NEW s, NEW now \in Time, ReceiptOK(r),
         r.dispatch = "pending", ~is_revoked(r), ~has_reached_deadline(r, now),
         r.authority.admitted_at <= now,
         s.authority = r.authority, s.deadline = r.deadline,
         s.dispatch = "submitted", s.dispatched_at = {now},
         KeepsRevocations(r, s), KeepsOutcome(r, s), KeepsOutput(r, s),
         s.settlement = r.settlement, s.evidence = r.evidence,
         s.disposition = r.disposition
  PROVE  ReceiptStep(r, s)
<1> USE DEF ReceiptOK, KeepsRevocations, KeepsOutcome, KeepsOutput,
            EvidenceKind, NativeKind, Terminal
<1>1. EvidenceAgrees(s) /\ OutcomeAgrees(s)
  BY DEF EvidenceAgrees, OutcomeAgrees
<1>2. StopAgrees(s) /\ DispatchWithin(s) /\ DispatchAgrees(s) /\ ResultWithin(s)
  BY DEF StopAgrees, DispatchWithin, DispatchAgrees, ResultWithin,
         is_revoked, revocations, has_reached_deadline
<1>3. s.disposition = authority_disposition(s)
  <2>1. r.settlement # "settled"
    BY DEF OutcomeAgrees
  <2> QED BY <2>1 DEF authority_disposition, has_resolved_closure,
                      is_revoked, revocations
<1>4. FactsKept(r, s)
  BY DEF FactsKept, revocations
<1>5. DomainKept(r, s)
  BY DEF DomainKept, authority_disposition
<1> QED BY <1>1, <1>2, <1>3, <1>4, <1>5 DEF ReceiptStep

\* Revoking a receipt at a time not before anything it records.
LEMMA RevokeOK ==
  ASSUME NEW r \in Receipt, NEW s, NEW now \in Time, ReceiptOK(r),
         not_before(now, receipt_times(r)),
         revocations(s) = revocations(r) \cup {now},
         s.stop_requested_at = IF should_request_native_stop(r) THEN {now}
                               ELSE r.stop_requested_at,
         KeepsWork(r, s), KeepsOutcome(r, s), KeepsOutput(r, s),
         s.settlement = r.settlement, s.evidence = r.evidence,
         s.disposition = authority_disposition(s)
  PROVE  ReceiptStep(r, s)
<1> USE DEF ReceiptOK, KeepsWork, KeepsOutcome, KeepsOutput
<1>0. /\ \A t \in r.dispatched_at : t <= now
      /\ \A x \in r.evidence["output"] : x.observed_at <= now
  BY DEF not_before, receipt_times, effect_times, times_of, EvidenceKind
<1>1. EvidenceAgrees(s) /\ OutcomeAgrees(s) /\ DispatchAgrees(s)
  BY DEF EvidenceAgrees, OutcomeAgrees, DispatchAgrees
<1>2. StopAgrees(s)
  BY <1>0 DEF StopAgrees, DispatchAgrees, should_request_native_stop, is_revoked
<1>3. DispatchWithin(s) /\ ResultWithin(s)
  BY <1>0 DEF DispatchWithin, ResultWithin, has_reached_deadline
<1>4. FactsKept(r, s)
  BY DEF FactsKept, should_request_native_stop
<1>5. DomainKept(r, s)
  BY DEF DomainKept, authority_disposition, has_resolved_closure, has_resolved_effects,
         is_revoked, revocations
<1> QED BY <1>1, <1>2, <1>3, <1>4, <1>5 DEF ReceiptStep

\* Recording a native event, contradictory and repeated ones included.
LEMMA NativeOK ==
  ASSUME NEW r \in Receipt, NEW s, NEW kind \in NativeKind, NEW T, T # {}, ReceiptOK(r),
         r.dispatch = "submitted",
         r.evidence[kind] # {} => T = r.evidence[kind],
         r.acceptance = "rejected" => kind = "rejected",
         r.acceptance = "accepted" => kind # "rejected",
         kind \notin {"accepted", "rejected"} => r.acceptance = "accepted",
         KeepsWork(r, s), KeepsRevocations(r, s), KeepsOutput(r, s),
         s.settlement = r.settlement,
         AddsEvidence(r, s, kind, T),
         s.acceptance = IF kind \in {"accepted", "rejected"} THEN kind
                        ELSE r.acceptance,
         s.outcome = native_outcome(r, kind, s.evidence),
         s.disposition = authority_disposition(s)
  PROVE  ReceiptStep(r, s)
<1> USE DEF ReceiptOK, KeepsWork, KeepsRevocations, KeepsOutput,
            AddsEvidence, EvidenceKind, NativeKind, Terminal
<1>1. EvidenceAgrees(s)
  BY DEF EvidenceAgrees, Receipt
<1>2. /\ \A k, l \in Terminal : k # l /\ s.evidence[k] # {} /\ s.evidence[l] # {}
           => s.outcome = "unknown"
      /\ \A k \in Terminal : s.evidence[k] # {} /\ s.outcome # "unknown" => s.outcome = k
  BY DEF native_outcome, seen_terminals
<1>3. OutcomeAgrees(s)
  BY SMTT(30), <1>1, <1>2 DEF OutcomeAgrees, native_outcome, seen_terminals, Receipt, EvidenceAgrees
<1>4. StopAgrees(s)
  BY <1>3 DEF StopAgrees, is_revoked, revocations, native_outcome, seen_terminals
<1>5. DispatchWithin(s) /\ DispatchAgrees(s) /\ ResultWithin(s)
  BY DEF DispatchWithin, DispatchAgrees, ResultWithin, OutcomeAgrees,
         is_revoked, revocations, has_reached_deadline
<1>6. FactsKept(r, s)
  BY DEF FactsKept, revocations
<1>7. r.outcome = "unknown" => s.outcome = "unknown"
  BY <1>3 DEF OutcomeAgrees
<1>8. DomainKept(r, s)
  BY SMTT(30), <1>3 DEF OutcomeAgrees, native_outcome, DomainKept, authority_disposition, has_resolved_closure, has_resolved_effects,
         is_revoked, revocations
<1> QED BY <1>1, <1>3, <1>4, <1>5, <1>6, <1>7, <1>8 DEF ReceiptStep

-----------------------------------------------------------------------------
(* The calls about the current operation *)

BindingFrame(g, h) ==
  /\ h.init = g.init /\ h.facts = g.facts /\ h.phase = g.phase
  /\ h.binding = g.binding
  /\ h.generation_high_water = g.generation_high_water
  /\ h.withdrawn_at = g.withdrawn_at /\ h.candidate = g.candidate
  /\ h.next_operation_id = g.next_operation_id
  /\ h.capabilities = g.capabilities

\* A call about the current operation: only its receipt changes.
OperationStep ==
  /\ has_receipt(gate)
  /\ gate.receipt.authority.binding = gate.binding
  /\ ReceiptStep(gate.receipt, gate'.receipt)
  /\ gate'.receipt.withdrawn_at = gate.receipt.withdrawn_at
  /\ BindingFrame(gate, gate')
  /\ UNCHANGED <<issued, identities>>

\* Replacing the receipt leaves the binding alone.
LEMMA ReceiptFrame ==
  ASSUME NEW g \in Gate, NEW s, NEW h, h = [g EXCEPT !.receipt = s]
  PROVE  h.receipt = s /\ BindingFrame(g, h)
  BY DEF Gate, BindingFrame

\* The invariant in terms of the receipt.
LEMMA ReceiptIsOK == IInv => gate.receipt \in Receipt /\ ReceiptOK(gate.receipt)
  BY DEF IInv, TypeOK, Gate, ReceiptOK, DispositionIsFresh, RevokedWorkIsStopped,
         DispatchedWithinAuthority, ResultWithinAuthority, StopAgrees,
         DispatchWithin, ResultWithin

\* observe_settlement changes the receipt of the current operation as above.
LEMMA SettlementStep == ASSUME IInv, ObserveSettlement PROVE OperationStep
<1> DEFINE r == gate.receipt
<1>1. r \in Receipt /\ ReceiptOK(r) /\ gate \in Gate
  BY ReceiptIsOK DEF IInv, TypeOK
<1>2. PICK a \in issued, permits \in BOOLEAN, record \in RecordFrom(SettlementSource) :
        LET e == [authority |-> a, permits_same_domain_admission |-> permits,
                  record |-> record]
        IN  /\ accepts_settlement(gate, e)
            /\ gate' = observe_settlement(gate, e)
            /\ UNCHANGED <<issued, identities>>
  BY DEF ObserveSettlement
<1> DEFINE q == [r EXCEPT !.settlement = "settled", !.evidence["settlement"] = {record}]
           s == refresh_authority_disposition(q)
<1>3. record \in EvidenceRecord
  BY OfferedTypes
<1>4. gate' = [gate EXCEPT !.receipt = s]
  BY <1>2 DEF observe_settlement
<1>5. gate'.receipt = s /\ BindingFrame(gate, gate')
  BY <1>1, <1>4, ReceiptFrame
<1>6. q \in Receipt
  <2>1. [r EXCEPT !.settlement = "settled"] \in Receipt
    BY <1>1 DEF Receipt
  <2> QED BY <1>3, <2>1, EvidenceType DEF EvidenceKind
<1>7. /\ KeepsWork(r, q) /\ KeepsRevocations(r, q) /\ KeepsOutcome(r, q)
      /\ KeepsOutput(r, q) /\ q.settlement = "settled"
      /\ AddsEvidence(r, q, "settlement", {record})
  BY <1>1 DEF Receipt, KeepsWork, KeepsRevocations, KeepsOutcome, KeepsOutput,
              AddsEvidence
<1>8. /\ KeepsWork(r, s) /\ KeepsRevocations(r, s) /\ KeepsOutcome(r, s)
      /\ KeepsOutput(r, s) /\ s.settlement = "settled"
      /\ AddsEvidence(r, s, "settlement", {record})
      /\ s.disposition = authority_disposition(s)
  <2>1. /\ KeepsWork(q, s) /\ KeepsRevocations(q, s) /\ KeepsOutcome(q, s)
        /\ KeepsOutput(q, s) /\ s.settlement = q.settlement
        /\ s.evidence = q.evidence /\ s.disposition = authority_disposition(s)
    <3> HIDE DEF q
    <3> QED BY <1>6, RefreshFields
  <2> HIDE DEF r, q, s
  <2> QED BY <1>7, <2>1
       DEF KeepsWork, KeepsRevocations, KeepsOutcome, KeepsOutput, AddsEvidence
<1>9. has_receipt(gate) /\ r.authority.binding = gate.binding
  BY <1>2 DEF accepts_settlement, current_authority_matches
<1>10. ReceiptStep(r, s)
  <2>1. has_resolved_effects(r) /\ r.settlement # "settled"
    BY <1>2 DEF accepts_settlement
  <2> HIDE DEF r, s, q
  <2> QED BY <1>1, <1>8, <2>1, SettlementOK
<1> QED BY <1>2, <1>5, <1>8, <1>9, <1>10 DEF OperationStep, KeepsRevocations

\* The same of observe_output_accepted.
LEMMA OutputStep == ASSUME IInv, ObserveOutputAccepted PROVE OperationStep
<1> DEFINE r == gate.receipt
<1>1. r \in Receipt /\ ReceiptOK(r) /\ gate \in Gate
  BY ReceiptIsOK DEF IInv, TypeOK
<1>2. PICK a \in issued, record \in RecordFrom(ResultSinkObserver) :
        LET e == [authority |-> a, record |-> record]
        IN  /\ accepts_output(gate, e)
            /\ gate' = observe_output_accepted(gate, e)
            /\ UNCHANGED <<issued, identities>>
  BY DEF ObserveOutputAccepted
<1> DEFINE q == [r EXCEPT !.output = "accepted", !.evidence["output"] = {record}]
           s == refresh_authority_disposition(q)
<1>3. record \in EvidenceRecord
  BY OfferedTypes
<1>4. gate' = [gate EXCEPT !.receipt = s]
  BY <1>2 DEF observe_output_accepted
<1>5. gate'.receipt = s /\ BindingFrame(gate, gate')
  BY <1>1, <1>4, ReceiptFrame
<1>6. q \in Receipt
  <2>1. [r EXCEPT !.output = "accepted"] \in Receipt
    BY <1>1 DEF Receipt
  <2> QED BY <1>3, <2>1, EvidenceType DEF EvidenceKind
<1>7. /\ KeepsWork(r, q) /\ KeepsRevocations(r, q) /\ KeepsOutcome(r, q)
      /\ q.output = "accepted" /\ q.settlement = r.settlement
      /\ AddsEvidence(r, q, "output", {record})
  BY <1>1 DEF Receipt, KeepsWork, KeepsRevocations, KeepsOutcome, AddsEvidence
<1>8. /\ KeepsWork(r, s) /\ KeepsRevocations(r, s) /\ KeepsOutcome(r, s)
      /\ s.output = "accepted" /\ s.settlement = r.settlement
      /\ AddsEvidence(r, s, "output", {record})
      /\ s.disposition = authority_disposition(s)
  <2>1. /\ KeepsWork(q, s) /\ KeepsRevocations(q, s) /\ KeepsOutcome(q, s)
        /\ KeepsOutput(q, s) /\ s.settlement = q.settlement
        /\ s.evidence = q.evidence /\ s.disposition = authority_disposition(s)
    <3> HIDE DEF q
    <3> QED BY <1>6, RefreshFields
  <2> HIDE DEF r, q, s
  <2> QED BY <1>7, <2>1
       DEF KeepsWork, KeepsRevocations, KeepsOutcome, KeepsOutput, AddsEvidence
<1>9. has_receipt(gate) /\ r.authority.binding = gate.binding
  BY <1>2 DEF accepts_output, can_deliver_result, current_authority_matches
<1>10. ReceiptStep(r, s)
  <2>1. /\ ~is_revoked(r) /\ r.outcome = "succeeded" /\ r.output = "pending"
        /\ ~has_reached_deadline(r, record.observed_at)
        /\ \E p \in r.evidence["succeeded"] : p.observed_at <= record.observed_at
    BY <1>2 DEF accepts_output, can_deliver_result
  <2> HIDE DEF r, s, q
  <2> QED BY <1>1, <1>3, <1>8, <2>1, OutputOK
<1> QED BY <1>2, <1>5, <1>8, <1>9, <1>10 DEF OperationStep, KeepsRevocations

\* The same of observe_output_not_delivered.
LEMMA NonDeliveryStep == ASSUME IInv, ObserveOutputNotDelivered PROVE OperationStep
<1> DEFINE r == gate.receipt
<1>1. r \in Receipt /\ ReceiptOK(r) /\ gate \in Gate
  BY ReceiptIsOK DEF IInv, TypeOK
<1>2. PICK a \in issued, why \in NonDeliveryReason,
           record \in RecordFrom(ResultSinkObserver) \cup RecordFrom(SettlementSource) :
        LET e == [authority |-> a, reason |-> why, record |-> record]
        IN  /\ accepts_non_delivery(gate, e)
            /\ gate' = observe_output_not_delivered(gate, e)
            /\ UNCHANGED <<issued, identities>>
  BY DEF ObserveOutputNotDelivered
<1> DEFINE q == [r EXCEPT !.output = "not_delivered", !.reason = {why},
                          !.evidence["non_delivery"] = {record}]
           s == refresh_authority_disposition(q)
<1>3. record \in EvidenceRecord
  BY OfferedTypes
<1>4. gate' = [gate EXCEPT !.receipt = s]
  BY <1>2 DEF observe_output_not_delivered
<1>5. gate'.receipt = s /\ BindingFrame(gate, gate')
  BY <1>1, <1>4, ReceiptFrame
<1>6. q \in Receipt
  <2>1. [r EXCEPT !.output = "not_delivered", !.reason = {why}] \in Receipt
    BY <1>1, OptionalSome DEF Receipt
  <2> QED BY <1>3, <2>1, EvidenceType DEF EvidenceKind
<1>7. /\ KeepsWork(r, q) /\ KeepsRevocations(r, q) /\ KeepsOutcome(r, q)
      /\ q.output = "not_delivered" /\ q.settlement = r.settlement
      /\ AddsEvidence(r, q, "non_delivery", {record})
  BY <1>1 DEF Receipt, KeepsWork, KeepsRevocations, KeepsOutcome, AddsEvidence
<1>8. /\ KeepsWork(r, s) /\ KeepsRevocations(r, s) /\ KeepsOutcome(r, s)
      /\ s.output = "not_delivered" /\ s.settlement = r.settlement
      /\ AddsEvidence(r, s, "non_delivery", {record})
      /\ s.disposition = authority_disposition(s)
  <2>1. /\ KeepsWork(q, s) /\ KeepsRevocations(q, s) /\ KeepsOutcome(q, s)
        /\ KeepsOutput(q, s) /\ s.settlement = q.settlement
        /\ s.evidence = q.evidence /\ s.disposition = authority_disposition(s)
    <3> HIDE DEF q
    <3> QED BY <1>6, RefreshFields
  <2> HIDE DEF r, q, s
  <2> QED BY <1>7, <2>1
       DEF KeepsWork, KeepsRevocations, KeepsOutcome, KeepsOutput, AddsEvidence
<1>9. has_receipt(gate) /\ r.authority.binding = gate.binding /\ r.output = "pending"
  BY <1>2 DEF accepts_non_delivery, current_authority_matches
<1>10. ReceiptStep(r, s)
  <2> HIDE DEF r, s, q
  <2> QED BY <1>1, <1>8, <1>9, NonDeliveryOK
<1> QED BY <1>2, <1>5, <1>8, <1>9, <1>10 DEF OperationStep, KeepsRevocations

\* The same of observe_non_submission.
LEMMA NonSubmissionStep == ASSUME IInv, ObserveNonSubmission PROVE OperationStep
<1> DEFINE r == gate.receipt
<1>1. r \in Receipt /\ ReceiptOK(r) /\ gate \in Gate
  BY ReceiptIsOK DEF IInv, TypeOK
<1>2. PICK a \in issued, record \in RecordFrom(SettlementSource) :
        LET e == [authority |-> a, record |-> record]
        IN  /\ accepts_non_submission(gate, e)
            /\ gate' = observe_non_submission(gate, e)
            /\ UNCHANGED <<issued, identities>>
  BY DEF ObserveNonSubmission
<1> DEFINE q == [r EXCEPT !.dispatch = "not_submitted", !.outcome = "not_executed",
                          !.evidence["non_submission"] = {record}]
           s == refresh_authority_disposition(q)
<1>3. record \in EvidenceRecord
  BY OfferedTypes
<1>4. gate' = [gate EXCEPT !.receipt = s]
  BY <1>2 DEF observe_non_submission
<1>5. gate'.receipt = s /\ BindingFrame(gate, gate')
  BY <1>1, <1>4, ReceiptFrame
<1>6. q \in Receipt
  <2>1. [r EXCEPT !.dispatch = "not_submitted", !.outcome = "not_executed"] \in Receipt
    BY <1>1 DEF Receipt
  <2> QED BY <1>3, <2>1, EvidenceType DEF EvidenceKind
<1>7. /\ q.authority = r.authority /\ q.deadline = r.deadline
      /\ q.dispatch = "not_submitted" /\ q.dispatched_at = r.dispatched_at
      /\ q.acceptance = r.acceptance /\ q.outcome = "not_executed"
      /\ KeepsRevocations(r, q) /\ KeepsOutput(r, q) /\ q.settlement = r.settlement
      /\ AddsEvidence(r, q, "non_submission", {record})
  BY <1>1 DEF Receipt, KeepsRevocations, KeepsOutput, AddsEvidence
<1>8. /\ s.authority = r.authority /\ s.deadline = r.deadline
      /\ s.dispatch = "not_submitted" /\ s.dispatched_at = r.dispatched_at
      /\ s.acceptance = r.acceptance /\ s.outcome = "not_executed"
      /\ KeepsRevocations(r, s) /\ KeepsOutput(r, s) /\ s.settlement = r.settlement
      /\ AddsEvidence(r, s, "non_submission", {record})
      /\ s.disposition = authority_disposition(s)
  <2>1. /\ KeepsWork(q, s) /\ KeepsRevocations(q, s) /\ KeepsOutcome(q, s)
        /\ KeepsOutput(q, s) /\ s.settlement = q.settlement
        /\ s.evidence = q.evidence /\ s.disposition = authority_disposition(s)
    <3> HIDE DEF q
    <3> QED BY <1>6, RefreshFields
  <2> HIDE DEF r, q, s
  <2> QED BY <1>7, <2>1
       DEF KeepsWork, KeepsRevocations, KeepsOutcome, KeepsOutput, AddsEvidence
<1>9. has_receipt(gate) /\ r.authority.binding = gate.binding
  BY <1>2 DEF accepts_non_submission, current_authority_matches
<1>10. ReceiptStep(r, s)
  <2>1. /\ r.dispatch # "not_submitted"
        /\ \A k \in {"accepted", "rejected", "started", "succeeded", "failed"} :
             r.evidence[k] = {}
    BY <1>2 DEF accepts_non_submission
  <2> HIDE DEF r, s, q
  <2> QED BY <1>1, <1>8, <2>1, NonSubmissionOK
<1> QED BY <1>2, <1>5, <1>8, <1>9, <1>10 DEF OperationStep, KeepsRevocations

\* The same of observe_stop_acknowledgement.
LEMMA StopStep == ASSUME IInv, ObserveStopAcknowledgement PROVE OperationStep
<1> DEFINE r == gate.receipt
<1>1. r \in Receipt /\ ReceiptOK(r) /\ gate \in Gate
  BY ReceiptIsOK DEF IInv, TypeOK
<1>2. PICK a \in issued, k \in StopResponse, record \in RecordFrom(StopSource) :
        LET e == [authority |-> a, acknowledgement |-> k, record |-> record]
        IN  /\ accepts_stop_acknowledgement(gate, e)
            /\ gate' = observe_stop_acknowledgement(gate, e)
            /\ UNCHANGED <<issued, identities>>
  BY DEF ObserveStopAcknowledgement
<1> DEFINE s == [r EXCEPT !.stop_acknowledgement = k, !.evidence["stop"] = {record}]
<1>3. gate' = [gate EXCEPT !.receipt = s]
  BY ZenonT(60), <1>1, <1>2 DEF observe_stop_acknowledgement, Gate
<1>4. gate'.receipt = s /\ BindingFrame(gate, gate')
  BY <1>1, <1>3, ReceiptFrame
<1>5. /\ KeepsWork(r, s) /\ KeepsRevocations(r, s) /\ KeepsOutcome(r, s)
      /\ KeepsOutput(r, s) /\ s.settlement = r.settlement
      /\ AddsEvidence(r, s, "stop", {record}) /\ s.disposition = r.disposition
  BY <1>1 DEF Receipt, KeepsWork, KeepsRevocations, KeepsOutcome, KeepsOutput,
              AddsEvidence
<1>6. /\ has_receipt(gate) /\ r.authority.binding = gate.binding
      /\ r.evidence["stop"] = {}
  BY <1>2 DEF accepts_stop_acknowledgement, current_authority_matches
<1>7. ReceiptStep(r, s)
  <2> HIDE DEF r, s
  <2> QED BY <1>1, <1>5, <1>6, StopOK
<1> QED BY <1>2, <1>4, <1>5, <1>6, <1>7 DEF OperationStep, KeepsRevocations

\* The same of claim_dispatch.
LEMMA DispatchStep == ASSUME IInv, ClaimDispatch PROVE OperationStep
<1> DEFINE r == gate.receipt
<1>1. r \in Receipt /\ ReceiptOK(r) /\ gate \in Gate
  BY ReceiptIsOK DEF IInv, TypeOK
<1>2. PICK a \in issued, now \in Clock :
        /\ claims_dispatch(gate, a, now)
        /\ gate' = claim_dispatch(gate, a, now)
        /\ UNCHANGED <<issued, identities>>
  BY DEF ClaimDispatch
<1> DEFINE s == [r EXCEPT !.dispatch = "submitted", !.dispatched_at = {now}]
<1>3. gate' = [gate EXCEPT !.receipt = s]
  BY <1>1, <1>2 DEF claim_dispatch, Gate
<1>4. gate'.receipt = s /\ BindingFrame(gate, gate')
  BY <1>1, <1>3, ReceiptFrame
<1>5. /\ s.authority = r.authority /\ s.deadline = r.deadline
      /\ s.dispatch = "submitted" /\ s.dispatched_at = {now}
      /\ KeepsRevocations(r, s) /\ KeepsOutcome(r, s) /\ KeepsOutput(r, s)
      /\ s.settlement = r.settlement /\ s.evidence = r.evidence
      /\ s.disposition = r.disposition
  BY <1>1 DEF Receipt, KeepsRevocations, KeepsOutcome, KeepsOutput
<1>6. /\ has_receipt(gate) /\ r.authority.binding = gate.binding
      /\ r.dispatch = "pending" /\ ~is_revoked(r) /\ ~has_reached_deadline(r, now)
      /\ r.authority.admitted_at <= now
  BY <1>2 DEF claims_dispatch, current_authority_matches
<1>7. ReceiptStep(r, s)
  <2>1. now \in Time
    BY EnvironmentAssumption
  <2> HIDE DEF r, s
  <2> QED BY <1>1, <1>5, <1>6, <2>1, DispatchOK
<1> QED BY <1>2, <1>4, <1>5, <1>6, <1>7 DEF OperationStep, KeepsRevocations

\* Revoking a receipt in which one more revocation is recorded; used by cancel,
\* expiry and withdrawal.
LEMMA RevokeStep ==
  ASSUME NEW r \in Receipt, NEW q \in Receipt, NEW now \in Time,
         ReceiptOK(r), not_before(now, receipt_times(r)),
         revocations(q) = revocations(r) \cup {now},
         KeepsWork(r, q), KeepsOutcome(r, q), KeepsOutput(r, q),
         q.settlement = r.settlement, q.evidence = r.evidence,
         q.stop_requested_at = r.stop_requested_at
  PROVE  /\ ReceiptStep(r, revoke(q, now))
         /\ revoke(q, now).withdrawn_at = q.withdrawn_at
<1> DEFINE asked == [q EXCEPT !.stop_requested_at = {now},
                              !.stop_acknowledgement = "pending"]
           p == IF should_request_native_stop(q) THEN asked ELSE q
           s == refresh_authority_disposition(p)
<1>1. p \in Receipt
  <2>1. asked \in Receipt
    BY OptionalSome DEF Receipt
  <2> QED BY <2>1
<1>2. /\ KeepsWork(q, p) /\ KeepsOutcome(q, p) /\ KeepsOutput(q, p)
      /\ p.settlement = q.settlement /\ p.evidence = q.evidence
      /\ p.cancelled_at = q.cancelled_at /\ p.expired_at = q.expired_at
      /\ p.withdrawn_at = q.withdrawn_at
      /\ p.stop_requested_at = IF should_request_native_stop(q) THEN {now}
                               ELSE q.stop_requested_at
  BY DEF Receipt, KeepsWork, KeepsOutcome, KeepsOutput
<1>3. revoke(q, now) = s
  BY DEF revoke
<1> HIDE DEF p
<1>4. /\ KeepsWork(p, s) /\ KeepsRevocations(p, s) /\ KeepsOutcome(p, s)
      /\ KeepsOutput(p, s) /\ s.settlement = p.settlement
      /\ s.evidence = p.evidence /\ s.disposition = authority_disposition(s)
  BY <1>1, RefreshFields
<1> HIDE DEF s
<1>5. should_request_native_stop(q) <=> should_request_native_stop(r)
  BY DEF should_request_native_stop, KeepsWork, KeepsOutcome
<1>6. revocations(s) = revocations(r) \cup {now}
  BY <1>2, <1>4 DEF revocations, KeepsRevocations
<1>7. /\ KeepsWork(r, s) /\ KeepsOutcome(r, s) /\ KeepsOutput(r, s)
      /\ s.settlement = r.settlement /\ s.evidence = r.evidence
      /\ s.stop_requested_at = IF should_request_native_stop(r) THEN {now}
                               ELSE r.stop_requested_at
  BY <1>2, <1>4, <1>5 DEF KeepsWork, KeepsRevocations, KeepsOutcome, KeepsOutput
<1>8. ReceiptStep(r, s)
  BY <1>4, <1>6, <1>7, RevokeOK
<1> QED BY <1>2, <1>3, <1>4, <1>8 DEF KeepsRevocations

\* The same of request_cancel.
LEMMA CancelStep == ASSUME IInv, RequestCancel PROVE OperationStep
<1> DEFINE r == gate.receipt
<1>1. r \in Receipt /\ ReceiptOK(r) /\ gate \in Gate
  BY ReceiptIsOK DEF IInv, TypeOK
<1>2. PICK a \in issued, now \in Clock :
        /\ applies_cancel(gate, a, now)
        /\ gate' = request_cancel(gate, a, now)
        /\ UNCHANGED <<issued, identities>>
  BY DEF RequestCancel
<1> DEFINE q == [r EXCEPT !.cancelled_at = {now}]
           s == revoke(q, now)
<1>3. now \in Time
  BY EnvironmentAssumption
<1>4. gate' = [gate EXCEPT !.receipt = s]
  BY <1>2 DEF request_cancel
<1>5. gate'.receipt = s /\ BindingFrame(gate, gate')
  BY <1>1, <1>4, ReceiptFrame
<1>6. /\ has_receipt(gate) /\ r.authority.binding = gate.binding
      /\ r.cancelled_at = {} /\ not_before(now, receipt_times(r))
  BY <1>2 DEF applies_cancel, is_controllable, current_authority_matches
<1>7. q \in Receipt
  BY <1>1, <1>3, OptionalSome DEF Receipt
<1>8. /\ KeepsWork(r, q) /\ KeepsOutcome(r, q) /\ KeepsOutput(r, q)
      /\ q.settlement = r.settlement /\ q.evidence = r.evidence
      /\ q.stop_requested_at = r.stop_requested_at
      /\ q.withdrawn_at = r.withdrawn_at
      /\ revocations(q) = revocations(r) \cup {now}
  BY <1>1, <1>6 DEF Receipt, KeepsWork, KeepsOutcome, KeepsOutput, revocations
<1>9. ReceiptStep(r, s) /\ s.withdrawn_at = r.withdrawn_at
  <2> HIDE DEF r, q
  <2> QED BY <1>1, <1>3, <1>6, <1>7, <1>8, RevokeStep
<1> QED BY <1>2, <1>5, <1>6, <1>9 DEF OperationStep

\* The same of observe_time.
LEMMA ExpiryStep == ASSUME IInv, ObserveTime PROVE OperationStep
<1> DEFINE r == gate.receipt
<1>1. r \in Receipt /\ ReceiptOK(r) /\ gate \in Gate
  BY ReceiptIsOK DEF IInv, TypeOK
<1>2. PICK a \in issued, now \in Clock :
        /\ applies_expiry(gate, a, now)
        /\ gate' = observe_time(gate, a, now)
        /\ UNCHANGED <<issued, identities>>
  BY DEF ObserveTime
<1> DEFINE q == [r EXCEPT !.expired_at = {now}]
           s == revoke(q, now)
<1>3. now \in Time
  BY EnvironmentAssumption
<1>4. gate' = [gate EXCEPT !.receipt = s]
  BY <1>2 DEF observe_time
<1>5. gate'.receipt = s /\ BindingFrame(gate, gate')
  BY <1>1, <1>4, ReceiptFrame
<1>6. /\ has_receipt(gate) /\ r.authority.binding = gate.binding
      /\ r.expired_at = {} /\ not_before(now, receipt_times(r))
  BY <1>2 DEF applies_expiry, is_controllable, current_authority_matches
<1>7. q \in Receipt
  BY <1>1, <1>3, OptionalSome DEF Receipt
<1>8. /\ KeepsWork(r, q) /\ KeepsOutcome(r, q) /\ KeepsOutput(r, q)
      /\ q.settlement = r.settlement /\ q.evidence = r.evidence
      /\ q.stop_requested_at = r.stop_requested_at
      /\ q.withdrawn_at = r.withdrawn_at
      /\ revocations(q) = revocations(r) \cup {now}
  BY <1>1, <1>6 DEF Receipt, KeepsWork, KeepsOutcome, KeepsOutput, revocations
<1>9. ReceiptStep(r, s) /\ s.withdrawn_at = r.withdrawn_at
  <2> HIDE DEF r, q
  <2> QED BY <1>1, <1>3, <1>6, <1>7, <1>8, RevokeStep
<1> QED BY <1>2, <1>5, <1>6, <1>9 DEF OperationStep

\* The same of observe_native.
LEMMA NativeStep == ASSUME IInv, ObserveNative PROVE OperationStep
<1> DEFINE r == gate.receipt
<1>1. r \in Receipt /\ ReceiptOK(r) /\ gate \in Gate
  BY ReceiptIsOK DEF IInv, TypeOK
<1>2. PICK a \in issued, id \in NativeIdentity, kind \in Reported,
           record \in RecordFrom(NativeSource) :
        LET e == [authority |-> a, native_identity |-> id, kind |-> kind,
                  record |-> record]
        IN  /\ accepts_native(gate, e)
            /\ gate' = observe_native(gate, e)
            /\ UNCHANGED <<issued, identities>>
  BY DEF ObserveNative
<1> DEFINE e == [authority |-> a, native_identity |-> id, kind |-> kind,
                 record |-> record]
           evidence == IF r.evidence[kind] = {}
                         THEN [r.evidence EXCEPT ![kind] = {record}]
                         ELSE r.evidence
           outcome == native_outcome(r, kind, evidence)
           acceptance == IF kind \in {"accepted", "rejected"} THEN kind
                         ELSE r.acceptance
           q == [r EXCEPT !.evidence = evidence, !.native_identity = {id},
                          !.acceptance = acceptance, !.outcome = outcome]
           s == refresh_authority_disposition(q)
           T == IF r.evidence[kind] = {} THEN {record} ELSE r.evidence[kind]
<1>3. record \in EvidenceRecord /\ kind \in NativeKind
  BY OfferedTypes, EnvironmentAssumption
<1>4. /\ has_receipt(gate) /\ r.authority.binding = gate.binding
      /\ r.dispatch = "submitted"
      /\ r.acceptance = "rejected" => kind = "rejected"
      /\ r.acceptance = "accepted" => kind # "rejected"
      /\ kind \notin {"accepted", "rejected"} => r.acceptance = "accepted"
  BY <1>2 DEF accepts_native, current_authority_matches
<1>5. gate'.receipt = s /\ BindingFrame(gate, gate')
  <2>1. s = apply_native(r, e)
    BY DEF apply_native
  <2>2. gate' = [gate EXCEPT !.receipt = s,
                   !.last_native = {[kind |-> kind, record |-> record]}]
    BY <1>2, <2>1 DEF observe_native
  <2> HIDE DEF s
  <2> QED BY <1>1, <2>2 DEF Gate, BindingFrame
<1>6. q \in Receipt
  <2>1. evidence \in [EvidenceKind -> Optional(EvidenceRecord)]
    BY <1>1, <1>3, OptionalSome DEF Receipt, EvidenceKind
  <2>2. outcome \in {"pending", "not_executed", "unknown"} \cup Terminal
    <3>1. seen_terminals(evidence) # {} =>
            (CHOOSE k \in Terminal : evidence[k] # {}) \in Terminal
      BY DEF seen_terminals
    <3> HIDE DEF evidence
    <3> QED BY <1>1, <3>1 DEF native_outcome, Receipt
  <2>3. acceptance \in {"pending", "accepted", "rejected"}
    BY <1>1 DEF Receipt
  <2>4. {id} \in Optional(NativeIdentity)
    BY OptionalSome
  <2> HIDE DEF evidence, outcome, acceptance
  <2> QED BY <1>1, <2>1, <2>2, <2>3, <2>4 DEF Receipt
<1>7. /\ KeepsWork(r, q) /\ KeepsRevocations(r, q) /\ KeepsOutput(r, q)
      /\ q.settlement = r.settlement /\ q.acceptance = acceptance
      /\ q.outcome = outcome /\ q.evidence = evidence
  <2> HIDE DEF evidence, outcome, acceptance
  <2> QED BY <1>1 DEF Receipt, KeepsWork, KeepsRevocations, KeepsOutput
<1>8. \A k \in EvidenceKind : evidence[k] = IF k = kind THEN T ELSE r.evidence[k]
  BY <1>1, <1>3 DEF Receipt, EvidenceKind
<1>9. /\ KeepsWork(r, s) /\ KeepsRevocations(r, s) /\ KeepsOutput(r, s)
      /\ s.settlement = r.settlement /\ s.acceptance = acceptance
      /\ s.outcome = native_outcome(r, kind, s.evidence)
      /\ AddsEvidence(r, s, kind, T)
      /\ s.disposition = authority_disposition(s)
  <2>1. /\ KeepsWork(q, s) /\ KeepsRevocations(q, s) /\ KeepsOutcome(q, s)
        /\ KeepsOutput(q, s) /\ s.settlement = q.settlement
        /\ s.evidence = q.evidence /\ s.disposition = authority_disposition(s)
    <3> HIDE DEF q
    <3> QED BY <1>6, RefreshFields
  <2>2. outcome = native_outcome(r, kind, evidence)
    OBVIOUS
  <2> HIDE DEF r, q, s, evidence, outcome, acceptance, T
  <2> QED BY <1>7, <1>8, <2>1, <2>2
       DEF KeepsWork, KeepsRevocations, KeepsOutcome, KeepsOutput, AddsEvidence
<1>10. ReceiptStep(r, s)
  <2>1. T # {} /\ (r.evidence[kind] # {} => T = r.evidence[kind])
    OBVIOUS
  <2>2. s.acceptance = IF kind \in {"accepted", "rejected"} THEN kind
                       ELSE r.acceptance
    BY <1>9
  <2> HIDE DEF r, s, q, T, outcome, evidence, acceptance
  <2> QED BY <1>1, <1>3, <1>4, <1>9, <2>1, <2>2, NativeOK
<1> QED BY <1>2, <1>4, <1>5, <1>9, <1>10 DEF OperationStep, KeepsRevocations

-----------------------------------------------------------------------------
(* Every step preserves the invariant *)

\* A new receipt satisfies the invariant.
LEMMA NewReceiptOK ==
  ASSUME NEW a, NEW d, NEW x
  PROVE  ReceiptOK(new_receipt(a, d, x))
<1> DEFINE r == new_receipt(a, d, x)
<1>1. /\ r.dispatch = "pending" /\ r.acceptance = "pending" /\ r.outcome = "pending"
      /\ r.output = "pending" /\ r.settlement = "pending"
      /\ r.disposition = "current" /\ r.dispatched_at = {}
      /\ r.cancelled_at = {} /\ r.expired_at = {} /\ r.withdrawn_at = {}
      /\ r.stop_requested_at = {} /\ \A k \in EvidenceKind : r.evidence[k] = {}
  BY DEF new_receipt
<1> HIDE DEF r
<1>2. EvidenceAgrees(r) /\ OutcomeAgrees(r) /\ DispatchAgrees(r)
  BY <1>1 DEF EvidenceAgrees, OutcomeAgrees, DispatchAgrees, EvidenceKind,
              NativeKind, Terminal
<1>3. StopAgrees(r) /\ DispatchWithin(r) /\ ResultWithin(r)
  BY <1>1 DEF StopAgrees, DispatchWithin, ResultWithin, is_revoked, revocations
<1>4. authority_disposition(r) = "current"
  BY <1>1 DEF authority_disposition, has_resolved_closure, is_revoked, revocations
<1> QED BY <1>1, <1>2, <1>3, <1>4 DEF ReceiptOK, r

\* The invariant from its parts.
LEMMA FromReceipt ==
  ASSUME TypeOK', PhasesAgree', CapabilitiesAreCurrent', OperationIdsAreUnique',
         NumbersAgree', OwnerAgrees', CandidateFollows(gate'.candidate),
         ReadinessFollowsOldWork', ReceiptOK(gate'.receipt)
  PROVE  IInv'
  BY DEF IInv, ReceiptOK, DispositionIsFresh, RevokedWorkIsStopped,
         DispatchedWithinAuthority, ResultWithinAuthority, StopAgrees,
         DispatchWithin, ResultWithin

\* A new gate satisfies the invariant.
LEMMA InitIInv == Init => IInv
<1> SUFFICES ASSUME Init PROVE IInv
  OBVIOUS
<1>1. TypeOK
  <2>1. {InitialBinding} \subseteq Binding
    BY BindingAssumption, NumberAssumption DEF Binding
  <2> QED BY <2>1, InitialGateType DEF Init, TypeOK
<1>2. /\ gate.init = "recovery_required" /\ gate.phase = "active"
      /\ gate.binding = InitialBinding /\ gate.capabilities = {}
      /\ gate.generation_high_water = InitialBinding.generation
      /\ gate.candidate = NoCandidate /\ gate.receipt = NoReceipt
  BY DEF Init, initial_gate
<1>3. gate.candidate.binding.generation = 0
  BY <1>2, BindingAssumption DEF NoCandidate, new_candidate, NoBinding
<1>4. gate.receipt.authority.operation_id = 0 /\ gate.receipt.withdrawn_at = {}
  BY <1>2 DEF NoReceipt, new_receipt, NoAuthority
<1>5. PhasesAgree /\ CapabilitiesAreCurrent
  BY <1>2, <1>3 DEF PhasesAgree, CapabilitiesAreCurrent, has_candidate
<1>6. OperationIdsAreUnique /\ NumbersAgree /\ OwnerAgrees
  BY <1>2, <1>3, <1>4, BindingAssumption, NumberAssumption
  DEF Init, OperationIdsAreUnique, NumbersAgree, OwnerAgrees, has_receipt, has_candidate
<1>7. ReceiptOK(gate.receipt)
  BY <1>2, NewReceiptOK DEF NoReceipt
<1>8. CandidateFollows(gate.candidate) /\ ReadinessFollowsOldWork
  BY <1>3, <1>4 DEF CandidateFollows, ReadinessFollowsOldWork, has_receipt
<1> QED BY <1>1, <1>5, <1>6, <1>7, <1>8
        DEF IInv, ReceiptOK, DispositionIsFresh, RevokedWorkIsStopped,
            DispatchedWithinAuthority, ResultWithinAuthority, StopAgrees,
            DispatchWithin, ResultWithin

\* A call about the current operation preserves the invariant.
LEMMA OperationIInv ==
  ASSUME IInv, TypeOK', OperationStep
  PROVE  IInv'
<1>1. PhasesAgree' /\ CapabilitiesAreCurrent'
  BY DEF IInv, OperationStep, BindingFrame, PhasesAgree, CapabilitiesAreCurrent,
         has_candidate
<1>2. OperationIdsAreUnique' /\ NumbersAgree'
  BY DEF IInv, OperationStep, BindingFrame, OperationIdsAreUnique, NumbersAgree,
         has_candidate
<1>3. OwnerAgrees'
  BY DEF IInv, OperationStep, BindingFrame, ReceiptStep, OwnerAgrees, has_receipt
<1>4. ReceiptOK(gate'.receipt)
  BY DEF OperationStep, ReceiptStep
<1>5. CandidateFollows(gate'.candidate) /\ ReadinessFollowsOldWork'
  BY DEF IInv, OperationStep, BindingFrame, ReceiptStep, ReadinessFollowsOldWork
<1> QED BY <1>1, <1>2, <1>3, <1>4, <1>5, FromReceipt

\* The nine calls about the current operation.
LEMMA OperationSteps ==
  ASSUME IInv,
         \/ ClaimDispatch \/ RequestCancel \/ ObserveTime
         \/ ObserveStopAcknowledgement \/ ObserveNonSubmission \/ ObserveNative
         \/ ObserveOutputAccepted \/ ObserveOutputNotDelivered
         \/ ObserveSettlement
  PROVE  OperationStep
  BY DispatchStep, CancelStep, ExpiryStep, StopStep, NonSubmissionStep, NativeStep,
     OutputStep, NonDeliveryStep, SettlementStep

\* What an admission does.
AdmitStep ==
  /\ gate.next_operation_id # 0
  /\ has_receipt(gate) =>
       /\ gate.receipt.disposition = "released"
       /\ not_before(gate'.receipt.authority.admitted_at, receipt_times(gate.receipt))
  /\ gate'.receipt.authority.operation_id = gate.next_operation_id
  /\ gate'.receipt.authority.binding = gate.binding
  /\ ReceiptOK(gate'.receipt) /\ gate'.receipt.withdrawn_at = {}
  /\ gate'.receipt.disposition = "current" /\ gate'.receipt.output = "pending"
  /\ gate'.next_operation_id = following_operation_id(gate.next_operation_id)
  /\ gate'.init = gate.init /\ gate'.facts = gate.facts /\ gate'.phase = gate.phase
  /\ gate'.binding = gate.binding
  /\ gate'.generation_high_water = gate.generation_high_water
  /\ gate'.withdrawn_at = gate.withdrawn_at /\ gate'.candidate = gate.candidate
  /\ gate'.capabilities = gate.capabilities
  /\ issued' = issued \cup {gate'.receipt.authority}
  /\ identities' = identities

\* admit does what AdmitStep says.
LEMMA AdmitSteps == ASSUME IInv, Admit PROVE AdmitStep
<1>1. gate \in Gate
  BY DEF IInv, TypeOK
<1>2. PICK now \in Clock, d \in Optional(Deadlines), x \in Optional(Requirements) :
        LET q == [requested_at |-> now, deadline |-> d, requirements |-> x]
        IN  /\ admits(gate, q)
            /\ gate' = admit(gate, q)
            /\ issued' = issued \cup {gate'.receipt.authority}
            /\ UNCHANGED identities
  BY DEF Admit
<1> DEFINE a == [operation_id |-> gate.next_operation_id,
                 binding |-> gate.binding, admitted_at |-> now]
           r == new_receipt(a, d, x)
           next == following_operation_id(gate.next_operation_id)
<1>3. gate' = [gate EXCEPT !.next_operation_id = next, !.receipt = r,
                           !.last_native = {}]
  BY <1>2 DEF admit
<1>4. /\ gate'.receipt = r /\ gate'.next_operation_id = next
      /\ gate'.init = gate.init /\ gate'.facts = gate.facts
      /\ gate'.phase = gate.phase /\ gate'.binding = gate.binding
      /\ gate'.generation_high_water = gate.generation_high_water
      /\ gate'.withdrawn_at = gate.withdrawn_at /\ gate'.candidate = gate.candidate
      /\ gate'.capabilities = gate.capabilities
  <2> HIDE DEF r, next
  <2> QED BY <1>1, <1>3 DEF Gate
<1>5. /\ r.authority = a /\ r.withdrawn_at = {}
      /\ r.disposition = "current" /\ r.output = "pending"
  BY DEF new_receipt
<1>6. ReceiptOK(r)
  BY NewReceiptOK
<1>7. /\ gate.next_operation_id # 0
      /\ has_receipt(gate) =>
           /\ gate.receipt.disposition = "released"
           /\ not_before(now, receipt_times(gate.receipt))
  BY <1>2 DEF admits, current_is_releasable
<1> HIDE DEF r
<1> QED BY <1>2, <1>4, <1>5, <1>6, <1>7 DEF AdmitStep

\* The counter wraps to 0 and otherwise grows.
LEMMA FollowingId ==
  ASSUME NEW n \in 1..LastOperationId
  PROVE  following_operation_id(n) \in {0, n + 1}
  BY DEF following_operation_id

\* An admission preserves the invariant.
LEMMA AdmitIInv ==
  ASSUME IInv, TypeOK', AdmitStep
  PROVE  IInv'
<1> DEFINE n == gate.next_operation_id
           a == gate'.receipt.authority
<1>1. /\ \A b \in issued : b.operation_id \in Nat
      /\ n \in 1..LastOperationId
  BY NumberAssumption DEF IInv, TypeOK, Gate, Authority, AdmitStep
<1>2. \A b \in issued : b.operation_id < n /\ b.operation_id # 0
  BY DEF IInv, NumbersAgree, AdmitStep
<1>3. a.operation_id = n /\ issued' = issued \cup {a}
  BY DEF AdmitStep
<1>4. OperationIdsAreUnique'
  <2> SUFFICES ASSUME NEW b \in issued \cup {a}, NEW c \in issued \cup {a},
                      b.operation_id = c.operation_id
               PROVE  b = c
    BY <1>3 DEF OperationIdsAreUnique
  <2> HIDE DEF a, n
  <2> QED BY <1>1, <1>2, <1>3 DEF IInv, OperationIdsAreUnique
<1>5. \A b \in issued' :
        /\ b.operation_id # 0
        /\ gate'.next_operation_id # 0 => b.operation_id < gate'.next_operation_id
  <2>1. gate'.next_operation_id \in {0, n + 1}
    BY <1>1, FollowingId DEF AdmitStep
  <2> HIDE DEF a, n
  <2> QED BY <1>1, <1>2, <1>3, <2>1
<1>6. NumbersAgree'
  BY <1>5 DEF IInv, NumbersAgree, AdmitStep, has_candidate
<1>7. OwnerAgrees'
  <2>1. a.operation_id # 0
    BY <1>1, <1>3
  <2>2. a.binding.generation <= gate'.binding.generation
    BY DEF AdmitStep, IInv, TypeOK, Gate, Binding
  <2> QED BY <1>3, <2>1, <2>2 DEF OwnerAgrees, AdmitStep, has_receipt
<1>8. PhasesAgree' /\ CapabilitiesAreCurrent'
  BY DEF IInv, AdmitStep, PhasesAgree, CapabilitiesAreCurrent, has_candidate
<1>9. CandidateFollows(gate'.candidate) /\ ReadinessFollowsOldWork'
  BY DEF IInv, AdmitStep, ReadinessFollowsOldWork
<1> QED BY <1>4, <1>6, <1>7, <1>8, <1>9, FromReceipt DEF AdmitStep

\* A call about the binding leaves the operation alone.
BindingStep ==
  /\ gate'.receipt = gate.receipt
  /\ gate'.next_operation_id = gate.next_operation_id
  /\ UNCHANGED issued

\* A call about the binding preserves the invariant if it preserves the parts
\* about the binding.
LEMMA BindingIInv ==
  ASSUME IInv, TypeOK', BindingStep, PhasesAgree', CapabilitiesAreCurrent',
         gate'.binding \in identities',
         \A b \in identities' : b.generation <= gate'.generation_high_water,
         has_candidate(gate') =>
           /\ gate'.candidate.binding \in identities'
           /\ gate'.binding.generation < gate'.candidate.binding.generation,
         OwnerAgrees', CandidateFollows(gate'.candidate), ReadinessFollowsOldWork'
  PROVE  IInv'
<1>1. OperationIdsAreUnique'
  BY DEF IInv, BindingStep, OperationIdsAreUnique
<1>2. NumbersAgree'
  BY DEF IInv, BindingStep, NumbersAgree
<1>3. ReceiptOK(gate'.receipt)
  BY ReceiptIsOK DEF BindingStep
<1> QED BY <1>1, <1>2, <1>3, FromReceipt

\* The absent candidate has generation 0.
LEMMA NoCandidateBinding == NoCandidate.binding.generation = 0
  BY BindingAssumption DEF NoCandidate, new_candidate, NoBinding

\* observe_startup: admission opens only when all three facts hold.
LEMMA StartupStep ==
  ASSUME IInv, TypeOK', ObserveStartup
  PROVE  IInv' /\ BindingStep /\ gate'.candidate = gate.candidate
               /\ gate'.binding = gate.binding
<1>1. gate \in Gate
  BY DEF IInv, TypeOK
<1>2. PICK c \in Concern, b \in identities, v \in BOOLEAN :
        \E record \in RecordFrom(observer_of(c)) :
          LET e == [concern |-> c, binding |-> b, value |-> v, record |-> record]
          IN  /\ accepts_startup(gate, e)
              /\ gate' = observe_startup(gate, e)
              /\ UNCHANGED <<issued, identities>>
  BY DEF ObserveStartup
<1>3. PICK record \in RecordFrom(observer_of(c)) :
        LET e == [concern |-> c, binding |-> b, value |-> v, record |-> record]
        IN  /\ accepts_startup(gate, e)
            /\ gate' = observe_startup(gate, e)
            /\ UNCHANGED <<issued, identities>>
  BY <1>2
<1> DEFINE facts == [gate.facts EXCEPT ![c] = {[value |-> v, record |-> record]}]
           init == IF all_facts_hold(facts) THEN "ready" ELSE "recovery_required"
<1>4. gate' = [gate EXCEPT !.facts = facts, !.init = init]
  BY <1>3 DEF observe_startup
<1>5. /\ gate'.facts = facts /\ gate'.init = init /\ gate'.phase = gate.phase
      /\ gate'.binding = gate.binding /\ gate'.withdrawn_at = gate.withdrawn_at
      /\ gate'.generation_high_water = gate.generation_high_water
      /\ gate'.candidate = gate.candidate /\ gate'.capabilities = gate.capabilities
      /\ BindingStep
  <2> HIDE DEF facts, init
  <2> QED BY <1>1, <1>3, <1>4 DEF Gate, BindingStep
<1>6. gate.phase = "active"
  BY <1>3 DEF accepts_startup
<1>7. PhasesAgree'
  <2>1. init = "ready" => all_facts_hold(facts)
    OBVIOUS
  <2>2. init # "closed"
    OBVIOUS
  <2> HIDE DEF facts, init
  <2> QED BY <1>5, <1>6, <2>1, <2>2 DEF IInv, PhasesAgree, has_candidate
<1>8. CapabilitiesAreCurrent' /\ OwnerAgrees'
  BY <1>5 DEF IInv, CapabilitiesAreCurrent, OwnerAgrees, BindingStep, has_receipt
<1>9. CandidateFollows(gate'.candidate) /\ ReadinessFollowsOldWork'
  <2>1. ~has_receipt(gate)
    BY <1>3 DEF accepts_startup
  <2> QED BY <1>5, <2>1
          DEF IInv, ReadinessFollowsOldWork, BindingStep, has_receipt
<1> HIDE DEF facts, init
<1> QED BY <1>3, <1>5, <1>7, <1>8, <1>9, BindingIInv
        DEF IInv, NumbersAgree, has_candidate

\* observe_execution_capabilities: only evidence of the active binding replaces
\* its capabilities.
LEMMA CapabilitiesStep ==
  ASSUME IInv, TypeOK', ObserveExecutionCapabilities
  PROVE  IInv' /\ BindingStep /\ gate'.candidate.binding = gate.candidate.binding
               /\ gate'.binding = gate.binding
<1>1. gate \in Gate
  BY DEF IInv, TypeOK
<1>2. PICK b \in identities, v \in Capabilities, t \in Expiries,
           record \in RecordFrom(CapabilityObserver) :
        /\ gate' = observe_execution_capabilities(gate,
                     [binding |-> b, value |-> v, record |-> record,
                      valid_until |-> t])
        /\ UNCHANGED <<issued, identities>>
  BY DEF ObserveExecutionCapabilities
<1> DEFINE e == [binding |-> b, value |-> v, record |-> record, valid_until |-> t]
           slot == observe_slot(gate.candidate.capabilities, e,
                                e.value.maximum_work_units # 0)
           Prepared == [gate EXCEPT !.candidate.capabilities = slot]
           Active == [gate EXCEPT !.capabilities = {e}]
<1>3. \/ gate' = gate \/ gate' = Prepared
      \/ gate' = Active /\ b = gate.binding
  BY <1>2 DEF observe_execution_capabilities, accepts_capabilities
<1>4. /\ gate'.facts = gate.facts /\ gate'.init = gate.init
      /\ gate'.phase = gate.phase /\ gate'.binding = gate.binding
      /\ gate'.withdrawn_at = gate.withdrawn_at
      /\ gate'.generation_high_water = gate.generation_high_water
      /\ BindingStep
  <2> HIDE DEF slot, e
  <2> QED BY <1>1, <1>2, <1>3 DEF Gate, BindingStep
<1>5. gate'.candidate.binding = gate.candidate.binding
  <2> HIDE DEF slot, e
  <2> QED BY <1>1, <1>3 DEF Gate, Candidate
<1>6. CapabilitiesAreCurrent'
  <2>1. \/ gate'.capabilities = gate.capabilities
        \/ gate'.capabilities = {e} /\ e.binding = gate.binding
    <3>1. e.binding = b
      OBVIOUS
    <3> HIDE DEF slot, e
    <3> QED BY <1>1, <1>3, <3>1 DEF Gate
  <2> HIDE DEF e
  <2> QED BY <1>4, <2>1 DEF IInv, CapabilitiesAreCurrent
<1>7. PhasesAgree'
  BY <1>4, <1>5 DEF IInv, PhasesAgree, has_candidate
<1>8. OwnerAgrees'
  BY <1>4 DEF IInv, OwnerAgrees, BindingStep, has_receipt
<1>9. /\ gate'.candidate.old_scope = gate.candidate.old_scope
      /\ gate'.candidate.prepared_at = gate.candidate.prepared_at
      /\ gate'.candidate.readiness = gate.candidate.readiness
  <2> HIDE DEF slot, e
  <2> QED BY <1>1, <1>3 DEF Gate, Candidate
<1>10. CandidateFollows(gate'.candidate)
  BY <1>5, <1>9 DEF IInv, CandidateFollows
<1>11. ReadinessFollowsOldWork'
  BY <1>4 DEF IInv, ReadinessFollowsOldWork, BindingStep, has_receipt
<1> QED BY <1>2, <1>4, <1>5, <1>6, <1>7, <1>8, <1>10, <1>11, BindingIInv
        DEF IInv, NumbersAgree, has_candidate

\* A slot that is filled or poisoned keeps following what its evidence follows.
LEMMA SlotFollows ==
  ASSUME NEW slot \in Optional(Observation(BOOLEAN)), NEW e, NEW t \in Time,
         e.record \in EvidenceRecord, t <= e.record.observed_at,
         \A p \in slot : t <= p.record.observed_at
  PROVE  \A p \in observe_slot(slot, e, TRUE) : t <= p.record.observed_at
<1> DEFINE same(p) == /\ p.record = e.record
                      /\ p.value = e.value /\ p.valid_until = e.valid_until
           poisoned(p) == [p EXCEPT !.conflicted = TRUE,
                             !.record.observed_at =
                               IF @ < e.record.observed_at
                                 THEN e.record.observed_at ELSE @]
           fresh == [value |-> e.value, record |-> e.record,
                     valid_until |-> e.valid_until, conflicted |-> FALSE]
<1>1. \A p \in slot : t <= poisoned(p).record.observed_at
  BY DEF Optional, Observation, EvidenceRecord
<1>2. \/ observe_slot(slot, e, TRUE) = slot
      \/ observe_slot(slot, e, TRUE) = {fresh}
      \/ observe_slot(slot, e, TRUE) =
           {IF same(p) THEN p ELSE poisoned(p) : p \in slot}
  BY DEF observe_slot
<1>3. t <= fresh.record.observed_at
  OBVIOUS
<1> HIDE DEF same, poisoned, fresh
<1> QED BY <1>1, <1>2, <1>3

\* observe_rebind_readiness: only the candidate changes, and its readiness follows
\* its preparation.
LEMMA ReadinessStep ==
  ASSUME IInv, TypeOK', ObserveRebindReadiness
  PROVE  IInv' /\ BindingStep /\ gate'.candidate.binding = gate.candidate.binding
               /\ gate'.binding = gate.binding
<1>1. gate \in Gate
  BY DEF IInv, TypeOK
<1>2. PICK c \in Concern, b \in identities, v \in BOOLEAN, t \in Expiries :
        \E record \in RecordFrom(observer_of(c)) :
          /\ gate' = observe_rebind_readiness(gate,
                       [concern |-> c, binding |-> b, value |-> v,
                        record |-> record, valid_until |-> t])
          /\ UNCHANGED <<issued, identities>>
  BY DEF ObserveRebindReadiness
<1>3. PICK record \in RecordFrom(observer_of(c)) :
        /\ gate' = observe_rebind_readiness(gate,
                     [concern |-> c, binding |-> b, value |-> v,
                      record |-> record, valid_until |-> t])
        /\ UNCHANGED <<issued, identities>>
  BY <1>2
<1> DEFINE e == [concern |-> c, binding |-> b, value |-> v,
                 record |-> record, valid_until |-> t]
           slot == observe_slot(gate.candidate.readiness[c], e, TRUE)
<1>4. gate' = gate \/ gate' = [gate EXCEPT !.candidate.readiness[c] = slot]
  BY <1>3 DEF observe_rebind_readiness
<1>5. /\ gate'.facts = gate.facts /\ gate'.init = gate.init
      /\ gate'.phase = gate.phase /\ gate'.binding = gate.binding
      /\ gate'.withdrawn_at = gate.withdrawn_at
      /\ gate'.generation_high_water = gate.generation_high_water
      /\ gate'.capabilities = gate.capabilities
      /\ BindingStep
  <2> HIDE DEF slot
  <2> QED BY <1>1, <1>3, <1>4 DEF Gate, BindingStep
<1>6. gate'.candidate.binding = gate.candidate.binding
  <2> HIDE DEF slot
  <2> QED BY <1>1, <1>4 DEF Gate, Candidate
<1>7. PhasesAgree' /\ CapabilitiesAreCurrent'
  BY <1>5, <1>6 DEF IInv, PhasesAgree, CapabilitiesAreCurrent, has_candidate
<1>8. OwnerAgrees'
  BY <1>5 DEF IInv, OwnerAgrees, BindingStep, has_receipt
<1>9. CandidateFollows(gate'.candidate)
  <2>1. CASE gate' = gate
    BY <2>1 DEF IInv
  <2>2. CASE gate' # gate
    <3>1. /\ gate' = [gate EXCEPT !.candidate.readiness[c] = slot]
          /\ gate.candidate.prepared_at <= record.observed_at
      BY <1>3, <1>4, <2>2 DEF observe_rebind_readiness, is_record_well_formed
    <3>2. /\ gate'.candidate.old_scope = gate.candidate.old_scope
          /\ gate'.candidate.prepared_at = gate.candidate.prepared_at
          /\ \A k \in Concern : gate'.candidate.readiness[k] =
               IF k = c THEN slot ELSE gate.candidate.readiness[k]
      <4> HIDE DEF slot
      <4> QED BY <1>1, <3>1 DEF Gate, Candidate
    <3>3. ASSUME gate.candidate.binding.generation # 0
          PROVE  \A p \in slot : gate.candidate.prepared_at <= p.record.observed_at
      <4>1. \A p \in gate.candidate.readiness[c] :
              gate.candidate.prepared_at <= p.record.observed_at
        BY <3>3 DEF IInv, CandidateFollows
      <4>2. /\ gate.candidate.readiness[c] \in Optional(Observation(BOOLEAN))
            /\ gate.candidate.prepared_at \in Time
        BY <1>1 DEF Gate, Candidate
      <4>3. e.record = record /\ record \in EvidenceRecord
        BY OfferedTypes
      <4> HIDE DEF e
      <4> QED BY <3>1, <4>1, <4>2, <4>3, SlotFollows
    <3> HIDE DEF slot
    <3> QED BY <1>6, <3>2, <3>3 DEF IInv, CandidateFollows
  <2> QED BY <2>1, <2>2
<1>10. ReadinessFollowsOldWork'
  BY <1>5 DEF IInv, ReadinessFollowsOldWork, BindingStep, has_receipt
<1> QED BY <1>3, <1>5, <1>6, <1>7, <1>8, <1>9, <1>10, BindingIInv
        DEF IInv, NumbersAgree, has_candidate

\* close_admission: the candidate is dropped.
LEMMA CloseStep ==
  ASSUME IInv, TypeOK', CloseAdmission
  PROVE  IInv' /\ BindingStep /\ ~has_candidate(gate')
               /\ gate'.binding = gate.binding
<1>1. gate \in Gate
  BY DEF IInv, TypeOK
<1>2. /\ gate'.facts = gate.facts /\ gate'.init = "closed"
      /\ gate'.phase = "closed" /\ gate'.binding = gate.binding
      /\ gate'.withdrawn_at = gate.withdrawn_at
      /\ gate'.generation_high_water = gate.generation_high_water
      /\ gate'.capabilities = gate.capabilities /\ gate'.candidate = NoCandidate
      /\ BindingStep
  BY <1>1 DEF CloseAdmission, close_admission, Gate, BindingStep
<1>3. ~has_candidate(gate')
  BY <1>2, NoCandidateBinding DEF has_candidate
<1>4. PhasesAgree'
  BY <1>2, <1>3 DEF PhasesAgree, has_candidate
<1>5. CapabilitiesAreCurrent' /\ OwnerAgrees'
  BY <1>2 DEF IInv, CapabilitiesAreCurrent, OwnerAgrees, BindingStep, has_receipt
<1>6. CandidateFollows(gate'.candidate) /\ ReadinessFollowsOldWork'
  BY <1>2, <1>3 DEF IInv, CandidateFollows, ReadinessFollowsOldWork, BindingStep,
                    has_receipt, has_candidate
<1> QED BY <1>2, <1>3, <1>4, <1>5, <1>6, BindingIInv
        DEF IInv, NumbersAgree, CloseAdmission

\* begin_rebind: the candidate has a generation no identity ever had.
LEMMA BeginStep ==
  ASSUME IInv, TypeOK', BeginRebind
  PROVE  /\ IInv' /\ BindingStep /\ gate'.binding = gate.binding
         /\ \A b \in identities : b.generation < gate'.candidate.binding.generation
<1>1. gate \in Gate
  BY DEF IInv, TypeOK
<1>2. PICK b \in identities, p \in Provider, now \in Clock, t \in Expiries,
           record \in RecordFrom(BindingObserver) :
        LET e == [binding |-> b, record |-> record, valid_until |-> t]
        IN  /\ begins_rebind(gate, b, e, now)
            /\ gate' = begin_rebind(gate, b, p, e, now)
            /\ identities' = identities \cup {gate'.candidate.binding}
            /\ UNCHANGED issued
  BY DEF BeginRebind
<1> DEFINE high == gate.generation_high_water
           binding == [provider |-> p, generation |-> high + 1]
           c == new_candidate(binding, now, {[record |-> record, valid_until |-> t]})
<1>3. gate' = [gate EXCEPT !.candidate = c, !.last_old_scope_record = {record},
                           !.generation_high_water = high + 1,
                           !.last_binding_control_at = now,
                           !.phase = "preparing"]
  BY <1>2 DEF begin_rebind
<1>4. /\ gate'.facts = gate.facts /\ gate'.init = gate.init
      /\ gate'.phase = "preparing" /\ gate'.binding = gate.binding
      /\ gate'.withdrawn_at = gate.withdrawn_at
      /\ gate'.generation_high_water = high + 1
      /\ gate'.capabilities = gate.capabilities /\ gate'.candidate = c
      /\ BindingStep
  <2> HIDE DEF c, high
  <2> QED BY <1>1, <1>2, <1>3 DEF Gate, BindingStep
<1>5. c.binding.generation = high + 1 /\ CandidateFollows(c)
  <2>1. record.observed_at <= now
    BY <1>2 DEF begins_rebind, accepts_old_scope
  <2>2. /\ c.old_scope = {[record |-> record, valid_until |-> t]}
        /\ c.prepared_at = now /\ c.binding.generation = high + 1
        /\ \A k \in Concern : c.readiness[k] = {}
    BY DEF new_candidate
  <2> HIDE DEF c
  <2> QED BY <2>1, <2>2 DEF CandidateFollows
<1>6. /\ gate'.candidate.binding.generation = high + 1
      /\ identities' = identities \cup {gate'.candidate.binding}
  <2> HIDE DEF c, high
  <2> QED BY <1>2, <1>4, <1>5
<1>7. /\ high \in Nat /\ gate.binding \in identities
      /\ \A i \in identities : i.generation \in Nat /\ i.generation <= high
  BY <1>1 DEF IInv, TypeOK, Gate, NumbersAgree, Binding
<1>8. gate.phase = "withdrawn"
  BY <1>2 DEF begins_rebind
<1> HIDE DEF c, high
<1>9. has_candidate(gate')
  BY <1>6, <1>7 DEF has_candidate
<1>10. PhasesAgree'
  BY <1>4, <1>8, <1>9 DEF IInv, PhasesAgree, has_candidate
<1>11. CapabilitiesAreCurrent' /\ OwnerAgrees'
  BY <1>4 DEF IInv, CapabilitiesAreCurrent, OwnerAgrees, BindingStep, has_receipt
<1>12. /\ gate'.binding \in identities'
       /\ \A i \in identities' : i.generation <= gate'.generation_high_water
       /\ \A i \in identities : i.generation < gate'.candidate.binding.generation
       /\ gate'.candidate.binding \in identities'
       /\ gate'.binding.generation < gate'.candidate.binding.generation
  BY <1>4, <1>6, <1>7
<1>13. CandidateFollows(gate'.candidate) /\ ReadinessFollowsOldWork'
  BY <1>4, <1>5 DEF IInv, ReadinessFollowsOldWork, BindingStep, has_receipt
<1>14. IInv'
  BY <1>4, <1>10, <1>11, <1>12, <1>13, BindingIInv
<1> QED BY <1>4, <1>12, <1>14

\* The times of the effects of a receipt are times.
LEMMA EffectTimes == ASSUME NEW r \in Receipt PROVE effect_times(r) \subseteq Time
<1>1. r.authority.admitted_at \in Time /\ r.dispatched_at \subseteq Time
  BY DEF Receipt, Authority, Optional
<1>2. ASSUME NEW k \in EvidenceKind PROVE times_of(r.evidence[k]) \subseteq Time
  <2>1. r.evidence[k] \in Optional(EvidenceRecord)
    BY DEF Receipt
  <2>2. r.evidence[k] \subseteq EvidenceRecord
    BY <2>1 DEF Optional
  <2> QED BY <2>2 DEF times_of, EvidenceRecord
<1> QED BY <1>1, <1>2 DEF effect_times

\* commit_rebind: the candidate becomes active, the old work being closed and the
\* readiness being later than its effects.
LEMMA CommitStep ==
  ASSUME IInv, TypeOK', CommitRebind
  PROVE  /\ IInv' /\ BindingStep /\ ~has_candidate(gate')
         /\ gate'.binding = gate.candidate.binding /\ has_candidate(gate)
         /\ has_receipt(gate) => gate.receipt.disposition = "released"
<1>1. gate \in Gate
  BY DEF IInv, TypeOK
<1>2. PICK b \in identities, now \in Clock :
        /\ commits_rebind(gate, b, now)
        /\ gate' = commit_rebind(gate, b, now)
        /\ UNCHANGED <<issued, identities>>
  BY DEF CommitRebind
<1> DEFINE c == gate.candidate
           facts == [k \in Concern |->
                      {[value |-> TRUE, record |-> p.record] : p \in c.readiness[k]}]
           capabilities == {[binding |-> c.binding, value |-> p.value,
                             record |-> p.record, valid_until |-> p.valid_until] :
                               p \in c.capabilities}
<1>3. gate' = [gate EXCEPT !.binding = c.binding, !.facts = facts,
                           !.capabilities = capabilities,
                           !.last_old_scope_record = {}, !.candidate = NoCandidate,
                           !.last_binding_control_at = now,
                           !.init = "ready", !.phase = "active"]
  BY <1>2 DEF commit_rebind
<1>4. /\ gate'.facts = facts /\ gate'.init = "ready" /\ gate'.phase = "active"
      /\ gate'.binding = c.binding /\ gate'.withdrawn_at = gate.withdrawn_at
      /\ gate'.generation_high_water = gate.generation_high_water
      /\ gate'.capabilities = capabilities /\ gate'.candidate = NoCandidate
      /\ BindingStep
  <2> HIDE DEF facts, capabilities
  <2> QED BY <1>1, <1>2, <1>3 DEF Gate, BindingStep
<1>5. /\ has_candidate(gate)
      /\ has_receipt(gate) => gate.receipt.disposition = "released"
      /\ \A k \in Concern : c.readiness[k] # {}
  BY <1>2 DEF commits_rebind, can_commit, old_work_closed, current_is_releasable
<1>6. all_facts_hold(facts)
  <2> SUFFICES ASSUME NEW k \in Concern PROVE \E f \in facts[k] : f.value
    BY DEF all_facts_hold
  <2>1. PICK p \in c.readiness[k] : TRUE
    BY <1>5
  <2>2. [value |-> TRUE, record |-> p.record] \in facts[k]
    OBVIOUS
  <2> QED BY <2>2
<1>7. ~has_candidate(gate')
  BY <1>4, NoCandidateBinding DEF has_candidate
<1>8. PhasesAgree'
  <2> HIDE DEF facts, capabilities
  <2> QED BY <1>4, <1>6, <1>7 DEF PhasesAgree, has_candidate
<1>9. CapabilitiesAreCurrent'
  BY <1>4 DEF CapabilitiesAreCurrent
<1>10. /\ c.binding \in identities /\ c.binding.generation \in Nat
       /\ gate.binding.generation \in Nat
       /\ gate.binding.generation < c.binding.generation
  BY <1>1, <1>5 DEF IInv, NumbersAgree, Gate, Candidate, Binding
<1>11. OwnerAgrees'
  <2>1. has_receipt(gate) =>
          /\ gate.receipt.authority.binding.generation \in Nat
          /\ gate.receipt.authority.binding.generation <= gate.binding.generation
    BY <1>1 DEF IInv, OwnerAgrees, Gate, Receipt, Authority, Binding
  <2>2. has_receipt(gate) =>
          /\ gate.receipt.authority.binding.generation <= c.binding.generation
          /\ gate.receipt.authority.binding # c.binding
    BY <1>10, <2>1
  <2>3. ~has_receipt(gate) => gate.receipt.withdrawn_at = {}
    BY DEF IInv, OwnerAgrees, NoReceipt, new_receipt
  <2> QED BY <1>2, <1>4, <2>2, <2>3 DEF IInv, OwnerAgrees, BindingStep, has_receipt
<1>12. ReadinessFollowsOldWork'
  <2> SUFFICES ASSUME has_receipt(gate), NEW k \in Concern, NEW f \in facts[k],
                      NEW x \in effect_times(gate.receipt)
               PROVE  x <= f.record.observed_at
    BY <1>4 DEF ReadinessFollowsOldWork, BindingStep, has_receipt, not_before
  <2>1. PICK p \in c.readiness[k] : f.record = p.record
    OBVIOUS
  <2>2. PICK o \in c.old_scope : o.record.observed_at <= c.prepared_at
    BY <1>5 DEF IInv, CandidateFollows, has_candidate
  <2>3. c.prepared_at <= p.record.observed_at
    BY <1>5 DEF IInv, CandidateFollows, has_candidate
  <2>4. x <= o.record.observed_at
    BY <1>2 DEF commits_rebind, can_commit, not_before
  <2>5. /\ o.record.observed_at \in Time /\ c.prepared_at \in Time
        /\ p.record.observed_at \in Time
    <3>1. /\ c.old_scope \in Optional([record : EvidenceRecord, valid_until : Time])
          /\ c.readiness[k] \in Optional(Observation(BOOLEAN))
          /\ c.prepared_at \in Time
      BY <1>1 DEF Gate, Candidate
    <3>2. /\ o \in [record : EvidenceRecord, valid_until : Time]
          /\ p \in Observation(BOOLEAN)
      BY <3>1 DEF Optional
    <3> QED BY <3>1, <3>2 DEF Observation, EvidenceRecord
  <2>6. x \in Time
    BY <1>1, EffectTimes DEF Gate
  <2> HIDE DEF c
  <2> QED BY <2>1, <2>2, <2>3, <2>4, <2>5, <2>6, NumberAssumption
<1>13. CandidateFollows(gate'.candidate)
  BY <1>7 DEF CandidateFollows, has_candidate
<1>14. IInv'
  <2> HIDE DEF facts, capabilities
  <2>1. /\ gate'.binding \in identities'
        /\ \A i \in identities' : i.generation <= gate'.generation_high_water
    BY <1>2, <1>4, <1>10 DEF IInv, NumbersAgree
  <2> QED BY <1>4, <1>7, <1>8, <1>9, <1>11, <1>12, <1>13, <2>1, BindingIInv
<1> QED BY <1>4, <1>5, <1>7, <1>14

\* What a withdrawal does to the receipt, if anything.
WithdrawalStep ==
  /\ \/ gate'.receipt = gate.receipt
     \/ /\ has_receipt(gate)
        /\ gate.receipt.authority.binding = gate.binding
        /\ ReceiptStep(gate.receipt, gate'.receipt)
  /\ ~has_candidate(gate')
  /\ gate'.binding = gate.binding
  /\ gate'.next_operation_id = gate.next_operation_id
  /\ UNCHANGED <<issued, identities>>

\* withdraw_binding: the work of the active binding is revoked, other work is not
\* touched.
LEMMA WithdrawStep ==
  ASSUME IInv, TypeOK', WithdrawBinding
  PROVE  IInv' /\ WithdrawalStep
<1> DEFINE r == gate.receipt
<1>1. r \in Receipt /\ ReceiptOK(r) /\ gate \in Gate
  BY ReceiptIsOK DEF IInv, TypeOK
<1>2. PICK b \in identities, now \in Clock :
        /\ withdraws_binding(gate, b, now)
        /\ gate' = withdraw_binding(gate, b, now)
        /\ UNCHANGED <<issued, identities>>
  BY DEF WithdrawBinding
<1> DEFINE withdrawn == IF has_candidate(gate) THEN gate.withdrawn_at ELSE {now}
           q == [r EXCEPT !.withdrawn_at = {now}]
           s == IF withdraws_current(gate) THEN revoke(q, now) ELSE r
<1>3. now \in Time
  BY EnvironmentAssumption
<1>4. gate' = [gate EXCEPT !.last_binding_control_at = now,
                           !.init = "recovery_required", !.phase = "withdrawn",
                           !.candidate = NoCandidate, !.withdrawn_at = withdrawn,
                           !.receipt = s]
  BY <1>2 DEF withdraw_binding
<1>5. /\ gate'.facts = gate.facts /\ gate'.init = "recovery_required"
      /\ gate'.phase = "withdrawn" /\ gate'.binding = gate.binding
      /\ gate'.withdrawn_at = withdrawn /\ gate'.receipt = s
      /\ gate'.generation_high_water = gate.generation_high_water
      /\ gate'.next_operation_id = gate.next_operation_id
      /\ gate'.capabilities = gate.capabilities /\ gate'.candidate = NoCandidate
  <2> HIDE DEF withdrawn, s
  <2> QED BY <1>1, <1>4 DEF Gate
<1>6. ~has_candidate(gate')
  BY <1>5, NoCandidateBinding DEF has_candidate
<1>7. ASSUME withdraws_current(gate) PROVE WithdrawalStep
  <2>1. has_receipt(gate) /\ r.authority.binding = gate.binding
    BY <1>7 DEF withdraws_current, current_authority_matches
  <2>2. gate.phase = "active"
    BY <1>1, <1>2, <1>7 DEF IInv, PhasesAgree, withdraws_current, withdraws_binding, Gate
  <2>3. r.withdrawn_at = {}
    BY <2>1, <2>2 DEF IInv, OwnerAgrees
  <2>4. not_before(now, receipt_times(r))
    BY <1>2, <2>1 DEF withdraws_binding, not_before, binding_times
  <2>5. q \in Receipt
    BY <1>1, <1>3, OptionalSome DEF Receipt
  <2>6. /\ KeepsWork(r, q) /\ KeepsOutcome(r, q) /\ KeepsOutput(r, q)
        /\ q.settlement = r.settlement /\ q.evidence = r.evidence
        /\ q.stop_requested_at = r.stop_requested_at
        /\ revocations(q) = revocations(r) \cup {now}
    BY <1>1, <2>3 DEF Receipt, KeepsWork, KeepsOutcome, KeepsOutput, revocations
  <2>7. ReceiptStep(r, revoke(q, now))
    <3> HIDE DEF r, q
    <3> QED BY <1>1, <1>3, <2>4, <2>5, <2>6, RevokeStep
  <2>8. ReceiptStep(r, gate'.receipt)
    BY <1>5, <1>7, <2>7
  <2> HIDE DEF withdrawn, s, q
  <2> QED BY <1>2, <1>5, <1>6, <2>1, <2>8 DEF WithdrawalStep
<1>8. ASSUME ~withdraws_current(gate) PROVE WithdrawalStep
  <2>1. gate'.receipt = r
    BY <1>5, <1>8
  <2> HIDE DEF withdrawn, s, q
  <2> QED BY <1>2, <1>5, <1>6, <2>1 DEF WithdrawalStep
<1>9. WithdrawalStep
  BY <1>7, <1>8
<1>10. ReceiptOK(gate'.receipt) /\ gate'.receipt.authority = r.authority
  BY <1>1, <1>9 DEF WithdrawalStep, ReceiptStep
<1> HIDE DEF s, q
<1>11. PhasesAgree'
  <2>1. withdrawn # {}
    BY DEF IInv, PhasesAgree
  <2> HIDE DEF withdrawn
  <2> QED BY <1>5, <1>6, <2>1 DEF PhasesAgree, has_candidate
<1> HIDE DEF withdrawn
<1>12. CapabilitiesAreCurrent' /\ OperationIdsAreUnique' /\ NumbersAgree'
  BY <1>2, <1>5, <1>6 DEF IInv, CapabilitiesAreCurrent, OperationIdsAreUnique,
                          NumbersAgree, has_candidate
<1>13. OwnerAgrees'
  BY <1>2, <1>5, <1>9, <1>10 DEF IInv, OwnerAgrees, WithdrawalStep, has_receipt
<1>14. CandidateFollows(gate'.candidate) /\ ReadinessFollowsOldWork'
  BY <1>5, <1>6, <1>9, <1>10 DEF IInv, CandidateFollows, ReadinessFollowsOldWork,
     WithdrawalStep, has_candidate, has_receipt
<1> QED BY <1>9, <1>10, <1>11, <1>12, <1>13, <1>14, FromReceipt

\* Every call preserves the invariant.
LEMMA StepIInv == IInv /\ [Next]_vars => IInv'
<1> SUFFICES ASSUME IInv, [Next]_vars PROVE IInv'
  OBVIOUS
<1>1. TypeOK'
  BY StepType DEF IInv
<1>2. CASE ObserveStartup
  BY <1>1, <1>2, StartupStep
<1>3. CASE ObserveExecutionCapabilities
  BY <1>1, <1>3, CapabilitiesStep
<1>4. CASE WithdrawBinding
  BY <1>1, <1>4, WithdrawStep
<1>5. CASE BeginRebind
  BY <1>1, <1>5, BeginStep
<1>6. CASE ObserveRebindReadiness
  BY <1>1, <1>6, ReadinessStep
<1>7. CASE CommitRebind
  BY <1>1, <1>7, CommitStep
<1>8. CASE CloseAdmission
  BY <1>1, <1>8, CloseStep
<1>9. CASE Admit
  BY <1>1, <1>9, AdmitSteps, AdmitIInv
<1>10. CASE \/ ClaimDispatch \/ RequestCancel \/ ObserveTime
            \/ ObserveStopAcknowledgement \/ ObserveNonSubmission \/ ObserveNative
            \/ ObserveOutputAccepted \/ ObserveOutputNotDelivered
            \/ ObserveSettlement
  BY <1>1, <1>10, OperationSteps, OperationIInv
<1>11. CASE UNCHANGED vars
  <2>1. gate' = gate /\ issued' = issued /\ identities' = identities
    BY <1>11 DEF vars
  <2>2. PhasesAgree' /\ CapabilitiesAreCurrent' /\ OwnerAgrees'
    BY <2>1 DEF IInv, PhasesAgree, CapabilitiesAreCurrent, OwnerAgrees
  <2>3. OperationIdsAreUnique' /\ NumbersAgree'
    BY <2>1 DEF IInv, OperationIdsAreUnique, NumbersAgree
  <2>4. CandidateFollows(gate'.candidate) /\ ReadinessFollowsOldWork'
    BY <2>1 DEF IInv, ReadinessFollowsOldWork
  <2> QED BY <1>1, <2>1, <2>2, <2>3, <2>4, ReceiptIsOK, FromReceipt
<1> QED BY <1>2, <1>3, <1>4, <1>5, <1>6, <1>7, <1>8, <1>9, <1>10, <1>11 DEF Next

\* Every step is one of four kinds.
LEMMA StepKinds ==
  ASSUME IInv, [Next]_vars
  PROVE  \/ OperationStep
         \/ AdmitStep
         \/ WithdrawalStep
         \/ /\ BindingStep
            /\ \/ gate'.binding = gate.binding
               \/ /\ gate'.binding = gate.candidate.binding /\ has_candidate(gate)
                  /\ has_receipt(gate) => gate.receipt.disposition = "released"
            /\ \/ ~has_candidate(gate')
               \/ gate'.candidate.binding = gate.candidate.binding
               \/ \A b \in identities :
                    b.generation < gate'.candidate.binding.generation
<1>1. TypeOK'
  BY StepType DEF IInv
<1>2. CASE UNCHANGED vars
  BY <1>2 DEF vars, BindingStep
<1>3. CASE Next
  BY <1>1, <1>3, StartupStep, CapabilitiesStep, WithdrawStep, BeginStep, ReadinessStep,
     CommitStep, CloseStep, AdmitSteps, OperationSteps DEF Next
<1> QED BY <1>2, <1>3

\* A released receipt is closed by its evidence.
LEMMA ReleasedReceipt ==
  ASSUME NEW r \in Receipt, ReceiptOK(r), r.disposition = "released"
  PROVE  ClosedByEvidence(r)
<1>1. has_resolved_closure(r) /\ r.outcome # "unknown"
  BY DEF ReceiptOK, authority_disposition
<1>2. /\ r.evidence["settlement"] # {}
      /\ (r.evidence["output"] # {}) # (r.evidence["non_delivery"] # {})
  BY <1>1 DEF has_resolved_closure, has_resolved_effects, ReceiptOK, EvidenceAgrees
<1>3. CASE r.dispatch = "not_submitted"
  BY <1>1, <1>2, <1>3
  DEF ClosedByEvidence, ReceiptOK, EvidenceAgrees, has_resolved_closure,
      has_resolved_effects, NativeKind, Terminal, Receipt
<1>4. CASE r.acceptance = "rejected"
  BY <1>1, <1>2, <1>4
  DEF ClosedByEvidence, ReceiptOK, EvidenceAgrees, has_resolved_closure,
      has_resolved_effects, NativeKind, Terminal, Receipt
<1>5. CASE r.dispatch = "submitted" /\ r.acceptance = "accepted"
  <2>1. r.outcome \in Terminal
    BY <1>1, <1>5 DEF has_resolved_closure, has_resolved_effects, Terminal
  <2>2. \A k \in Terminal : r.evidence[k] # {} <=> k = r.outcome
    BY <1>1, <2>1 DEF ReceiptOK, OutcomeAgrees
  <2>3. {k \in NativeKind : r.evidence[k] # {}} \cap Terminal = {r.outcome}
    BY <2>1, <2>2 DEF NativeKind, Terminal
  <2>4. /\ r.evidence["non_submission"] = {} /\ r.evidence["accepted"] # {}
        /\ r.evidence["output"] # {} => r.outcome = "succeeded"
    BY <1>1, <1>5, <2>2 DEF ReceiptOK, EvidenceAgrees, OutcomeAgrees, Terminal
  <2> QED BY <1>2, <2>1, <2>3, <2>4 DEF ClosedByEvidence, NativeKind
<1> QED BY <1>1, <1>3, <1>4, <1>5 DEF has_resolved_closure, has_resolved_effects

\* The authority of an admission was never issued.
LEMMA AdmissionIsNew ==
  ASSUME IInv, AdmitStep
  PROVE  /\ gate'.receipt.authority \notin issued
         /\ gate'.receipt.authority # gate.receipt.authority
<1>1. \A b \in issued : b.operation_id \in Nat /\ b.operation_id < gate.next_operation_id
  BY DEF IInv, TypeOK, NumbersAgree, AdmitStep, Authority
<1>2. gate.next_operation_id \in Nat /\ gate.next_operation_id # 0
  BY DEF IInv, TypeOK, Gate, AdmitStep
<1>3. gate'.receipt.authority \notin issued
  BY <1>1, <1>2 DEF AdmitStep
<1>4. gate'.receipt.authority # gate.receipt.authority
  <2>1. CASE has_receipt(gate)
    BY <1>3, <2>1 DEF IInv, OwnerAgrees
  <2>2. CASE ~has_receipt(gate)
    BY <1>2, <2>2 DEF has_receipt, AdmitStep
  <2> QED BY <2>1, <2>2
<1> QED BY <1>3, <1>4

-----------------------------------------------------------------------------
(* Theorems *)

\* The inductive invariant holds in every reachable state.
THEOREM Invariance == Spec => []IInv
  BY InitIInv, StepIInv, PTL DEF Spec

\* The initialization state, the binding phase, the candidate and withdrawn_at
\* agree after any sequence of calls.
THEOREM PhasesHold == Spec => []PhasesAgree
  BY Invariance, PTL DEF IInv

\* The cached disposition is never stale.
THEOREM DispositionHolds == Spec => []DispositionIsFresh
  BY Invariance, PTL DEF IInv

\* Revoked work that is running has been asked to stop, and nothing else has.
THEOREM RevocationStops == Spec => []RevokedWorkIsStopped
  BY Invariance, PTL DEF IInv

\* Work is dispatched inside its authority only.
THEOREM DispatchHolds == Spec => []DispatchedWithinAuthority
  BY Invariance, PTL DEF IInv

\* A result is accepted inside the authority only.
THEOREM ResultHolds == Spec => []ResultWithinAuthority
  BY Invariance, PTL DEF IInv

\* Admission and dispatch are checked against capabilities of the active binding.
THEOREM CapabilitiesHold == Spec => []CapabilitiesAreCurrent
  BY Invariance, PTL DEF IInv

\* Operation identities are unique whatever the width of the counter.
THEOREM IdentitiesAreUnique == Spec => []OperationIdsAreUnique
  BY Invariance, PTL DEF IInv

\* After a rebind the readiness facts are not older than the effects of the
\* retained work of the old binding.
THEOREM ReadinessHolds == Spec => []ReadinessFollowsOldWork
  BY Invariance, PTL DEF IInv

\* A released operation is closed by its evidence.
THEOREM ReleaseIsClosed == Spec => []ReleasedIsClosed
<1>1. IInv => ReleasedIsClosed
  BY ReceiptIsOK, ReleasedReceipt DEF ReleasedIsClosed
<1> QED BY <1>1, Invariance, PTL

\* Operations follow each other only when closed by evidence, under a new
\* authority and not earlier than what is known.
THEOREM AdmissionHolds == Spec => AdmissionIsSerialized
<1> DEFINE A == ~SameOperation =>
       /\ gate'.receipt.authority \notin issued
       /\ has_receipt(gate) =>
            /\ ClosedByEvidence(gate.receipt)
            /\ not_before(gate'.receipt.authority.admitted_at,
                          receipt_times(gate.receipt))
<1>1. ASSUME IInv, [Next]_vars PROVE A
  <2>1. CASE AdmitStep
    BY <1>1, <2>1, AdmissionIsNew, ReceiptIsOK, ReleasedReceipt DEF AdmitStep
  <2>2. CASE OperationStep \/ WithdrawalStep \/ BindingStep
    <3>1. SameOperation
      BY <2>2 DEF SameOperation, OperationStep, WithdrawalStep, BindingStep, ReceiptStep
    <3> QED BY <3>1
  <2> QED BY <1>1, <2>1, <2>2, StepKinds
<1>2. IInv /\ [Next]_vars => [A]_vars
  BY <1>1
<1> HIDE DEF A
<1>3. Spec => [][A]_vars
  BY <1>2, Invariance, PTL DEF Spec
<1> QED BY <1>3 DEF AdmissionIsSerialized, A

\* No call replaces or drops a recorded fact of the operation it is about.
THEOREM FactsHold == Spec => FactsAreKept
<1> DEFINE A == SameOperation =>
       LET r == gate.receipt
           s == gate'.receipt
       IN  /\ \A k \in EvidenceKind : r.evidence[k] # {} =>
                 s.evidence[k] = r.evidence[k]
           /\ revocations(r) \subseteq revocations(s)
           /\ r.stop_requested_at # {} =>
                s.stop_requested_at = r.stop_requested_at
           /\ r.settlement = "settled" => s.settlement = "settled"
           /\ r.output # "pending" => s.output = r.output
<1>1. ASSUME IInv, [Next]_vars PROVE A
  <2>1. CASE AdmitStep
    BY <1>1, <2>1, AdmissionIsNew DEF SameOperation
  <2>2. CASE OperationStep \/ WithdrawalStep \/ BindingStep
    <3>1. FactsKept(gate.receipt, gate'.receipt)
      BY <2>2 DEF OperationStep, WithdrawalStep, BindingStep, ReceiptStep, FactsKept
    <3> QED BY <3>1 DEF FactsKept
  <2> QED BY <1>1, <2>1, <2>2, StepKinds
<1>2. IInv /\ [Next]_vars => [A]_vars
  BY <1>1
<1> HIDE DEF A
<1>3. Spec => [][A]_vars
  BY <1>2, Invariance, PTL DEF Spec
<1> QED BY <1>3 DEF FactsAreKept, A

\* A contradiction between terminal reports blocks the domain for good.
THEOREM ContradictionBlocks == Spec => UnknownOutcomeBlocks
<1> DEFINE A == gate.receipt.outcome = "unknown" =>
       /\ SameOperation
       /\ gate'.receipt.outcome = "unknown"
       /\ gate'.receipt.disposition = "blocked_unknown"
       /\ gate'.binding = gate.binding
<1>1. ASSUME IInv, [Next]_vars, gate.receipt.outcome = "unknown"
      PROVE  /\ SameOperation
             /\ gate'.receipt.outcome = "unknown"
             /\ gate'.receipt.disposition = "blocked_unknown"
             /\ gate'.binding = gate.binding
  <2>1. gate.receipt.disposition = "blocked_unknown"
    BY <1>1 DEF IInv, DispositionIsFresh, authority_disposition
  <2>2. has_receipt(gate)
    BY <1>1 DEF IInv, OwnerAgrees, NoReceipt, new_receipt
  <2>3. /\ SameOperation /\ gate'.receipt.outcome = "unknown"
        /\ gate'.binding = gate.binding
    BY <1>1, <2>1, <2>2, StepKinds
    DEF SameOperation, OperationStep, AdmitStep, WithdrawalStep, BindingStep,
        ReceiptStep, BindingFrame
  <2>4. gate'.receipt.disposition = authority_disposition(gate'.receipt)
    BY <1>1, StepIInv DEF IInv, DispositionIsFresh
  <2> QED BY <2>3, <2>4 DEF authority_disposition
<1>2. IInv /\ [Next]_vars => [A]_vars
  BY <1>1
<1> HIDE DEF A
<1>3. Spec => [][A]_vars
  BY <1>2, Invariance, PTL DEF Spec
<1> QED BY <1>3 DEF UnknownOutcomeBlocks, A

\* The retained receipt of an old binding is read-only.
THEOREM OldReceiptHolds == Spec => OldReceiptIsReadOnly
<1> DEFINE A == has_receipt(gate) /\ gate.receipt.authority.binding # gate.binding =>
       \/ gate'.receipt = gate.receipt
       \/ gate'.receipt.authority \notin issued
<1>1. IInv /\ [Next]_vars => [A]_vars
  BY StepKinds, AdmissionIsNew DEF OperationStep, WithdrawalStep, BindingStep
<1> HIDE DEF A
<1>2. Spec => [][A]_vars
  BY <1>1, Invariance, PTL DEF Spec
<1> QED BY <1>2 DEF OldReceiptIsReadOnly, A

\* Binding identities are never reused, and only a prepared one becomes active.
THEOREM GenerationsAreFresh == Spec => IdentitiesAreFresh
<1> DEFINE A ==
      /\ has_candidate(gate)' /\ gate'.candidate.binding # gate.candidate.binding
           => \A b \in identities :
                b.generation < gate'.candidate.binding.generation
      /\ gate'.binding # gate.binding
           => /\ gate'.binding = gate.candidate.binding
              /\ gate.binding.generation < gate'.binding.generation
<1>1. ASSUME IInv, [Next]_vars PROVE A
  <2>1. has_candidate(gate)' <=> has_candidate(gate')
    BY DEF has_candidate
  <2>2. has_candidate(gate) => gate.binding.generation < gate.candidate.binding.generation
    BY <1>1 DEF IInv, NumbersAgree
  <2> QED BY <1>1, <2>1, <2>2, StepKinds
          DEF OperationStep, AdmitStep, WithdrawalStep, BindingFrame
<1>2. IInv /\ [Next]_vars => [A]_vars
  BY <1>1
<1> HIDE DEF A
<1>3. Spec => [][A]_vars
  BY <1>2, Invariance, PTL DEF Spec
<1> QED BY <1>3 DEF IdentitiesAreFresh, A

-----------------------------------------------------------------------------
(* The invariant the mapping needs *)

\* The next identity follows the one of the last operation, until the counter
\* wraps to 0 and no further operation is admitted.
CountFollows ==
  gate.next_operation_id # 0 =>
    gate.next_operation_id = gate.receipt.authority.operation_id + 1

DInv == IInv /\ CountFollows

\* A new gate satisfies it.
LEMMA InitDInv == Init => DInv
  BY InitIInv DEF DInv, CountFollows, Init, initial_gate, NoReceipt, new_receipt,
                  NoAuthority

\* Only an admission takes an identity, and it takes the next one.
LEMMA StepDInv == DInv /\ [Next]_vars => DInv'
<1> SUFFICES ASSUME DInv, [Next]_vars PROVE DInv'
  OBVIOUS
<1>1. IInv /\ IInv'
  BY StepIInv DEF DInv
<1>2. CASE AdmitStep
  <2>1. gate.next_operation_id \in 1..LastOperationId
    BY <1>1, <1>2, NumberAssumption DEF IInv, TypeOK, Gate, AdmitStep
  <2>2. gate'.next_operation_id \in {0, gate.next_operation_id + 1}
    BY <1>2, <2>1, FollowingId DEF AdmitStep
  <2> QED BY <1>1, <1>2, <2>1, <2>2 DEF DInv, CountFollows, AdmitStep
<1>3. CASE OperationStep \/ WithdrawalStep \/ BindingStep
  <2>1. /\ gate'.next_operation_id = gate.next_operation_id
        /\ gate'.receipt.authority = gate.receipt.authority
    BY <1>3 DEF OperationStep, WithdrawalStep, BindingStep, ReceiptStep, BindingFrame
  <2> QED BY <1>1, <2>1 DEF DInv, CountFollows
<1> QED BY <1>1, <1>2, <1>3, StepKinds DEF DInv

-----------------------------------------------------------------------------
(* The mapping *)

\* What the domain sees of a receipt.
held(r) == r.disposition \notin {"released", "blocked_unknown"}

\* A step of a receipt is a step of the domain or none.
LEMMA ReceiptMapped ==
  ASSUME IInv, has_receipt(gate), ReceiptStep(gate.receipt, gate'.receipt)
  PROVE  [Domain!Next]_(Domain!domain)
<1> DEFINE r == gate.receipt
           s == gate'.receipt
<1>1. /\ ReceiptOK(r) /\ r \in Receipt
      /\ ReceiptOK(s) /\ FactsKept(r, s) /\ DomainKept(r, s)
      /\ s.authority = r.authority
      /\ r.outcome = "unknown" => s.outcome = "unknown"
  BY ReceiptIsOK DEF ReceiptStep
<1>2. /\ r.disposition = authority_disposition(r)
      /\ s.disposition = authority_disposition(s)
  BY <1>1 DEF ReceiptOK
<1>3. /\ r.authority.operation_id # 0 /\ s.authority.operation_id # 0
      /\ has_receipt(gate')
      /\ s.authority.operation_id = r.authority.operation_id
  BY <1>1 DEF has_receipt
<1>4. /\ is_revoked(r) => is_revoked(s)
      /\ is_revoked(r) \in BOOLEAN /\ is_revoked(s) \in BOOLEAN
      /\ s.output # r.output => is_revoked(s) = is_revoked(r)
      /\ r.output = "accepted" => s.output = "accepted"
      /\ s.output = "accepted" /\ r.output # "accepted" =>
           ~is_revoked(r) /\ ~is_revoked(s) /\ held(r) /\ s.outcome = "succeeded"
  <2>1. /\ is_revoked(r) => is_revoked(s)
        /\ is_revoked(r) \in BOOLEAN /\ is_revoked(s) \in BOOLEAN
        /\ s.output # r.output => is_revoked(s) = is_revoked(r)
        /\ r.output = "accepted" => s.output = "accepted"
    BY <1>1 DEF FactsKept, DomainKept, is_revoked
  <2>2. ASSUME s.output = "accepted", r.output # "accepted"
        PROVE  ~is_revoked(r) /\ ~is_revoked(s) /\ held(r) /\ s.outcome = "succeeded"
    <3>1. ~is_revoked(r) /\ ~is_revoked(s) /\ s.outcome = "succeeded"
          /\ r.outcome = "succeeded"
      BY <1>1, <2>1, <2>2 DEF DomainKept
    <3>2. r.output = "pending"
      BY <1>1, <2>2 DEF FactsKept
    <3>3. held(r)
      BY <1>2, <3>1, <3>2 DEF held, authority_disposition, has_resolved_closure,
                              has_resolved_effects
    <3> QED BY <3>1, <3>3
  <2> QED BY <2>1, <2>2
<1>5. /\ r.disposition = "released" => s.disposition \in {"released", "blocked_unknown"}
      /\ r.disposition = "blocked_unknown" <=> r.outcome = "unknown"
      /\ s.disposition = "blocked_unknown" <=> s.outcome = "unknown"
  BY <1>1, <1>2 DEF DomainKept, authority_disposition
<1>6. /\ domain_state(gate) = IF r.disposition = "released" THEN "free"
                              ELSE IF r.disposition = "blocked_unknown" THEN "blocked"
                              ELSE "held"
      /\ domain_state(gate)' = IF s.disposition = "released" THEN "free"
                               ELSE IF s.disposition = "blocked_unknown" THEN "blocked"
                               ELSE "held"
  BY <1>3 DEF domain_state, has_receipt
<1> USE DEF Domain!Next, Domain!domain
<1>7. CASE s.disposition # "blocked_unknown" /\ r.disposition # "blocked_unknown"
  <2>1. CASE domain_state(gate)' = domain_state(gate)
    <3>1. CASE s.output = "accepted" /\ r.output # "accepted"
      BY <1>3, <1>4, <1>6, <1>7, <2>1, <3>1 DEF Domain!Deliver, held
    <3>2. CASE ~(s.output = "accepted" /\ r.output # "accepted")
      BY <1>3, <1>4, <1>6, <1>7, <2>1, <3>2 DEF Domain!Revoke
    <3> QED BY <3>1, <3>2
  <2>2. CASE domain_state(gate)' # domain_state(gate)
    <3>1. domain_state(gate) = "held" /\ domain_state(gate)' = "free"
      BY <1>5, <1>6, <1>7, <2>2
    <3> QED BY <1>3, <1>4, <3>1 DEF Domain!Release
  <2> QED BY <2>1, <2>2
<1>8. CASE s.disposition = "blocked_unknown" /\ r.disposition # "blocked_unknown"
  BY <1>3, <1>4, <1>5, <1>6, <1>8 DEF Domain!Block
<1>9. CASE r.disposition = "blocked_unknown"
  BY <1>1, <1>3, <1>4, <1>5, <1>6, <1>9 DEF Domain!Revoke, DomainKept
<1> QED BY <1>7, <1>8, <1>9

\* Every step of the gate is a step of the domain or none.
LEMMA StepMapped == DInv /\ [Next]_vars => [Domain!Next]_(Domain!domain)
<1> SUFFICES ASSUME DInv, [Next]_vars PROVE [Domain!Next]_(Domain!domain)
  OBVIOUS
<1>1. IInv
  BY DEF DInv
<1>2. CASE AdmitStep
  <2>1. domain_state(gate) = "free"
    BY <1>2 DEF AdmitStep, domain_state
  <2>2. gate'.receipt.authority.operation_id = gate.receipt.authority.operation_id + 1
    BY <1>2 DEF DInv, CountFollows, AdmitStep
  <2>3. has_receipt(gate') /\ domain_state(gate)' = "held"
    BY <1>2 DEF AdmitStep, has_receipt, domain_state
  <2>4. ~is_revoked(gate'.receipt)
    BY <1>2 DEF AdmitStep, ReceiptOK, authority_disposition
  <2>5. Domain!Admit
    BY <1>2, <2>1, <2>2, <2>3, <2>4 DEF Domain!Admit, AdmitStep
  <2> QED BY <2>5 DEF Domain!Next
<1>3. CASE gate'.receipt = gate.receipt
  <2>1. domain_state(gate)' = domain_state(gate)
    BY <1>3 DEF domain_state, has_receipt
  <2> QED BY <1>3, <2>1 DEF Domain!domain
<1>4. CASE has_receipt(gate) /\ ReceiptStep(gate.receipt, gate'.receipt)
  BY <1>1, <1>4, ReceiptMapped
<1>5. AdmitStep \/ OperationStep \/ WithdrawalStep \/ BindingStep
  BY <1>1, StepKinds
<1> QED BY <1>2, <1>3, <1>4, <1>5 DEF OperationStep, WithdrawalStep, BindingStep

\* A new gate is a free domain without an owner.
LEMMA InitMapped == Init => Domain!Init
  BY DEF Init, Domain!Init, initial_gate, NoReceipt, new_receipt, NoAuthority,
         domain_state, has_receipt, is_revoked, revocations

\* The gate implements the domain: one owner at a time in the order of admission,
\* one delivery within its authority, and no owner after a contradiction.
THEOREM GateImplementsDomain == Spec => ImplementsDomain
<1>1. Spec => []DInv
  BY InitDInv, StepDInv, PTL DEF Spec
<1> QED
  BY <1>1, InitMapped, StepMapped, PTL DEF Spec, ImplementsDomain, Domain!Spec
=============================================================================
