----------------------------- MODULE GateSystem -----------------------------
(***************************************************************************)
(* The gate as a state machine: every call of the AuthorityGate class is an *)
(* action.  Its single writer passes any time and any evidence record, so   *)
(* reports arrive late, twice, out of order, for earlier operations and for *)
(* earlier bindings.  A call that is refused changes nothing and is a       *)
(* stuttering step.                                                         *)
(***************************************************************************)
EXTENDS AuthorityGate

CONSTANTS
  Offered,   \* the evidence records the environment may report
  Reported,  \* the native event kinds it may report
  Clock,     \* the times the single writer may pass with a call
  Deadlines, \* the deadlines a request may carry
  Expiries   \* the valid_until values an observation may carry

ASSUME EnvironmentAssumption ==
  /\ Offered \subseteq EvidenceRecord
  /\ Reported \subseteq NativeKind
  /\ Clock \subseteq Time
  /\ Deadlines \subseteq Time
  /\ Expiries \subseteq Time

VARIABLES
  gate,       \* AuthorityGate::Implementation
  issued,     \* history: every OperationAuthority handed out by admit
  identities  \* history: every BindingIdentity that was active or candidate

vars == <<gate, issued, identities>>

RecordFrom(source) == {record \in Offered : record.source = source}

Init ==
  /\ gate = initial_gate
  /\ issued = {}
  /\ identities = {InitialBinding}

ObserveStartup ==
  \E c \in Concern, b \in identities, v \in BOOLEAN :
    \E record \in RecordFrom(observer_of(c)) :
      LET e == [concern |-> c, binding |-> b, value |-> v, record |-> record]
      IN  /\ accepts_startup(gate, e)
          /\ gate' = observe_startup(gate, e)
          /\ UNCHANGED <<issued, identities>>

ObserveExecutionCapabilities ==
  \E b \in identities, v \in Capabilities, t \in Expiries,
     record \in RecordFrom(CapabilityObserver) :
    /\ gate' = observe_execution_capabilities(gate,
                 [binding |-> b, value |-> v, record |-> record,
                  valid_until |-> t])
    /\ gate' # gate
    /\ UNCHANGED <<issued, identities>>

WithdrawBinding ==
  \E b \in identities, now \in Clock :
    /\ withdraws_binding(gate, b, now)
    /\ gate' = withdraw_binding(gate, b, now)
    /\ UNCHANGED <<issued, identities>>

BeginRebind ==
  \E b \in identities, p \in Provider, now \in Clock, t \in Expiries,
     record \in RecordFrom(BindingObserver) :
    LET e == [binding |-> b, record |-> record, valid_until |-> t]
    IN  /\ begins_rebind(gate, b, e, now)
        /\ gate' = begin_rebind(gate, b, p, e, now)
        /\ identities' = identities \cup {gate'.candidate.binding}
        /\ UNCHANGED issued

ObserveRebindReadiness ==
  \E c \in Concern, b \in identities, v \in BOOLEAN, t \in Expiries :
    \E record \in RecordFrom(observer_of(c)) :
      /\ gate' = observe_rebind_readiness(gate,
                   [concern |-> c, binding |-> b, value |-> v,
                    record |-> record, valid_until |-> t])
      /\ gate' # gate
      /\ UNCHANGED <<issued, identities>>

CommitRebind ==
  \E b \in identities, now \in Clock :
    /\ commits_rebind(gate, b, now)
    /\ gate' = commit_rebind(gate, b, now)
    /\ UNCHANGED <<issued, identities>>

CloseAdmission ==
  /\ gate' = close_admission(gate)
  /\ UNCHANGED <<issued, identities>>

Admit ==
  \E now \in Clock, d \in Optional(Deadlines), x \in Optional(Requirements) :
    LET q == [requested_at |-> now, deadline |-> d, requirements |-> x]
    IN  /\ admits(gate, q)
        /\ gate' = admit(gate, q)
        /\ issued' = issued \cup {gate'.receipt.authority}
        /\ UNCHANGED identities

ClaimDispatch ==
  \E a \in issued, now \in Clock :
    /\ claims_dispatch(gate, a, now)
    /\ gate' = claim_dispatch(gate, a, now)
    /\ UNCHANGED <<issued, identities>>

RequestCancel ==
  \E a \in issued, now \in Clock :
    /\ applies_cancel(gate, a, now)
    /\ gate' = request_cancel(gate, a, now)
    /\ UNCHANGED <<issued, identities>>

ObserveTime ==
  \E a \in issued, now \in Clock :
    /\ applies_expiry(gate, a, now)
    /\ gate' = observe_time(gate, a, now)
    /\ UNCHANGED <<issued, identities>>

ObserveStopAcknowledgement ==
  \E a \in issued, k \in StopResponse, record \in RecordFrom(StopSource) :
    LET e == [authority |-> a, acknowledgement |-> k, record |-> record]
    IN  /\ accepts_stop_acknowledgement(gate, e)
        /\ gate' = observe_stop_acknowledgement(gate, e)
        /\ UNCHANGED <<issued, identities>>

ObserveNonSubmission ==
  \E a \in issued, record \in RecordFrom(SettlementSource) :
    LET e == [authority |-> a, record |-> record]
    IN  /\ accepts_non_submission(gate, e)
        /\ gate' = observe_non_submission(gate, e)
        /\ UNCHANGED <<issued, identities>>

ObserveNative ==
  \E a \in issued, id \in NativeIdentity, k \in Reported,
     record \in RecordFrom(NativeSource) :
    LET e == [authority |-> a, native_identity |-> id, kind |-> k,
              record |-> record]
    IN  /\ accepts_native(gate, e)
        /\ gate' = observe_native(gate, e)
        /\ UNCHANGED <<issued, identities>>

ObserveOutputAccepted ==
  \E a \in issued, record \in RecordFrom(ResultSinkObserver) :
    LET e == [authority |-> a, record |-> record]
    IN  /\ accepts_output(gate, e)
        /\ gate' = observe_output_accepted(gate, e)
        /\ UNCHANGED <<issued, identities>>

ObserveOutputNotDelivered ==
  \E a \in issued, why \in NonDeliveryReason,
     record \in RecordFrom(ResultSinkObserver) \cup RecordFrom(SettlementSource) :
    LET e == [authority |-> a, reason |-> why, record |-> record]
    IN  /\ accepts_non_delivery(gate, e)
        /\ gate' = observe_output_not_delivered(gate, e)
        /\ UNCHANGED <<issued, identities>>

ObserveSettlement ==
  \E a \in issued, permits \in BOOLEAN,
     record \in RecordFrom(SettlementSource) :
    LET e == [authority |-> a, permits_same_domain_admission |-> permits,
              record |-> record]
    IN  /\ accepts_settlement(gate, e)
        /\ gate' = observe_settlement(gate, e)
        /\ UNCHANGED <<issued, identities>>

Next ==
  \/ ObserveStartup
  \/ ObserveExecutionCapabilities
  \/ WithdrawBinding
  \/ BeginRebind
  \/ ObserveRebindReadiness
  \/ CommitRebind
  \/ CloseAdmission
  \/ Admit
  \/ ClaimDispatch
  \/ RequestCancel
  \/ ObserveTime
  \/ ObserveStopAcknowledgement
  \/ ObserveNonSubmission
  \/ ObserveNative
  \/ ObserveOutputAccepted
  \/ ObserveOutputNotDelivered
  \/ ObserveSettlement

Spec == Init /\ [][Next]_vars

-----------------------------------------------------------------------------
(* Safety *)

TypeOK ==
  /\ gate \in Gate
  /\ issued \subseteq Authority
  /\ identities \subseteq Binding

\* The initialization state, the binding phase and the candidate, which eight
\* methods update separately, always agree; admission is open only on an active
\* binding whose three prerequisites were all observed to hold; and withdrawn_at
\* has a value whenever begin_rebind dereferences it.
PhasesAgree ==
  /\ gate.phase = "preparing" <=> has_candidate(gate)
  /\ gate.phase = "closed" <=> gate.init = "closed"
  /\ gate.init = "ready" => gate.phase = "active" /\ all_facts_hold(gate.facts)
  /\ gate.phase \in {"withdrawn", "preparing"} => gate.withdrawn_at # {}

\* The cached authority_disposition, which admit, begin_rebind and the controls
\* trust, is never stale: it is what the rest of the receipt implies.
DispositionIsFresh ==
  gate.receipt.disposition = authority_disposition(gate.receipt)

\* Work that was revoked (cancelled, expired or its binding withdrawn) after its
\* submission and has no observed outcome has been asked to stop, however the
\* revocation and the dispatch interleaved; and nothing is asked to stop that
\* was not submitted and revoked.
RevokedWorkIsStopped ==
  LET r == gate.receipt
  IN  /\ is_revoked(r) /\ r.dispatch = "submitted" /\ r.outcome = "pending"
           => r.stop_requested_at # {}
      /\ \A t \in r.stop_requested_at :
           /\ t \in revocations(r)
           /\ \E d \in r.dispatched_at : d <= t

\* Work is only ever dispatched inside its authority: before its deadline and
\* not after a revocation, whatever order the calls carry their times in.
DispatchedWithinAuthority ==
  \A t \in gate.receipt.dispatched_at :
    /\ gate.receipt.authority.admitted_at <= t
    /\ \A x \in revocations(gate.receipt) : t <= x
    /\ ~has_reached_deadline(gate.receipt, t)

\* A result counts as accepted only inside the authority too: native success was
\* observed first, the deadline had not passed, and no revocation is earlier.
ResultWithinAuthority ==
  gate.receipt.output = "accepted" =>
    \E o \in gate.receipt.evidence["output"] :
      /\ \E p \in gate.receipt.evidence["succeeded"] :
           p.observed_at <= o.observed_at
      /\ \A x \in revocations(gate.receipt) : o.observed_at <= x
      /\ ~has_reached_deadline(gate.receipt, o.observed_at)

\* What the evidence of a closed operation shows, read off the evidence alone: it
\* was never submitted, or natively rejected, or ended in exactly one way; its
\* output was accepted or disposed of, never both; and its cleanup was reported.
ClosedByEvidence(r) ==
  LET has(k) == r.evidence[k] # {}
      native == {k \in NativeKind : has(k)}
  IN  /\ has("settlement")
      /\ has("output") # has("non_delivery")
      /\ \/ has("non_submission") /\ native = {} /\ ~has("output")
         \/ ~has("non_submission") /\ native = {"rejected"} /\ ~has("output")
         \/ /\ ~has("non_submission") /\ "accepted" \in native
            /\ \E k \in Terminal :
                 /\ native \cap Terminal = {k}
                 /\ has("output") => k = "succeeded"

\* A receipt that reports its authority as released is closed by evidence.
ReleasedIsClosed ==
  gate.receipt.disposition = "released" => ClosedByEvidence(gate.receipt)

\* After a rebind, every readiness fact of the new binding was observed no
\* earlier than anything recorded about the retained work of the old one, also
\* when late evidence of the old work arrived while the candidate was prepared.
ReadinessFollowsOldWork ==
  has_receipt(gate) /\ gate.receipt.authority.binding # gate.binding =>
    \A c \in Concern : \A f \in gate.facts[c] :
      not_before(f.record.observed_at, effect_times(gate.receipt))

\* The capabilities admission and dispatch are checked against are those of the
\* active binding, also across withdrawal, rebinding and abandoned candidates.
CapabilitiesAreCurrent == \A c \in gate.capabilities : c.binding = gate.binding

\* Operation identities are never reused, also when the 64-bit counter wraps.
OperationIdsAreUnique ==
  \A a, b \in issued : a.operation_id = b.operation_id => a = b

-----------------------------------------------------------------------------
(* What a step may never do *)

SameOperation == gate'.receipt.authority = gate.receipt.authority

\* An operation gives way to the next one only when it is closed by evidence, and
\* the next one gets a new authority, admitted no earlier than anything known
\* about the one it follows.
AdmissionIsSerialized ==
  [][~SameOperation =>
       /\ gate'.receipt.authority \notin issued
       /\ has_receipt(gate) =>
            /\ ClosedByEvidence(gate.receipt)
            /\ not_before(gate'.receipt.authority.admitted_at,
                          receipt_times(gate.receipt))]_vars

\* Recorded facts of an operation are kept: no later call replaces or drops a
\* piece of evidence, a revocation or the stop request, or undoes a settlement.
FactsAreKept ==
  [][SameOperation =>
       LET r == gate.receipt
           s == gate'.receipt
       IN  /\ \A k \in EvidenceKind : r.evidence[k] # {} =>
                 s.evidence[k] = r.evidence[k]
           /\ revocations(r) \subseteq revocations(s)
           /\ r.stop_requested_at # {} =>
                s.stop_requested_at = r.stop_requested_at
           /\ r.settlement = "settled" => s.settlement = "settled"
           /\ r.output # "pending" => s.output = r.output]_vars

\* Contradictory terminal evidence blocks the domain for good: no later report,
\* admission or rebind gets past it.
UnknownOutcomeBlocks ==
  [][gate.receipt.outcome = "unknown" =>
       /\ SameOperation
       /\ gate'.receipt.outcome = "unknown"
       /\ gate'.receipt.disposition = "blocked_unknown"
       /\ gate'.binding = gate.binding]_vars

\* Once a rebind has committed, no call changes the retained receipt of the old
\* binding; only the next admission replaces it.
OldReceiptIsReadOnly ==
  [][has_receipt(gate) /\ gate.receipt.authority.binding # gate.binding =>
       \/ gate'.receipt = gate.receipt
       \/ gate'.receipt.authority \notin issued]_vars

\* Candidate identities come from the high-water mark: none equals an identity
\* that was ever active or prepared, abandoned candidates included, and only a
\* prepared identity becomes active.
IdentitiesAreFresh ==
  [][/\ has_candidate(gate)' /\ gate'.candidate.binding # gate.candidate.binding
          => \A b \in identities :
               b.generation < gate'.candidate.binding.generation
     /\ gate'.binding # gate.binding
          => /\ gate'.binding = gate.candidate.binding
             /\ gate.binding.generation < gate'.binding.generation]_vars

\* The gate implements the abstract domain: one owner at a time, one delivery
\* within its authority, and no admission past a contradiction.
Domain == INSTANCE OperationDomain WITH
  owner <- gate.receipt.authority.operation_id,
  state <- domain_state(gate),
  revoked <- is_revoked(gate.receipt),
  delivered <- gate.receipt.output = "accepted"

ImplementsDomain == Domain!Spec
=============================================================================
