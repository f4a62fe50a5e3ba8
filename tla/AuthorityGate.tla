--------------------------- MODULE AuthorityGate ---------------------------
(***************************************************************************)
(* The AuthorityGate of src/core/authority_gate.cpp as operators on its    *)
(* state record g (AuthorityGate::Implementation).  A call of the C++ class *)
(* is one operator; a call that is rejected, or that repeats what is known, *)
(* returns g.  Hosts compose several calls in one serialized step, so the   *)
(* gate is a function of its state; GateSystem makes each call an action.   *)
(*                                                                         *)
(* std::optional<T> is a set with no or one element.  OperationId 0 and     *)
(* generation 0, which is_valid() refuses, mark an absent receipt and an    *)
(* absent candidate.  Identifiers that only have to be non-empty (request,  *)
(* target and result references) are left out.                             *)
(***************************************************************************)
EXTENDS Integers, FiniteSets

CONSTANTS
  Time,               \* MonotonicTime values evidence and calls may carry
  Sequence,           \* EvidenceRecord::sequence values (0 is never valid)
  Provider,           \* provider_id values
  NativeIdentity,     \* native_identity values
  Profile, WorkUnits, \* ExecutionRequirements fields
  LastOperationId,    \* the largest OperationId (2^64 - 1)
  LastGeneration,     \* the largest provider_generation (2^64 - 1)
  InitialBinding,     \* config.binding
  StartedAt,          \* config.started_at
  BindingObserver, WorkerObserver, ResultSinkObserver, NativeSource,
  SettlementSource, StopSource,
  CapabilityObserver  \* "" when execution_capability_observer is empty

Source == {BindingObserver, WorkerObserver, ResultSinkObserver, NativeSource,
           SettlementSource, StopSource, CapabilityObserver}

(***************************************************************************)
(* What the constructor requires of the configuration.                     *)
(***************************************************************************)
ASSUME NumberAssumption ==
  /\ Time \subseteq Nat /\ Sequence \subseteq Nat
  /\ WorkUnits \subseteq Nat
  /\ LastOperationId \in Nat /\ LastOperationId >= 1
  /\ LastGeneration \in Nat
  /\ StartedAt \in Time

ASSUME BindingAssumption ==
  InitialBinding \in [provider : Provider, generation : 1..LastGeneration]

ASSUME SourceAssumption ==
  /\ StopSource \notin {NativeSource, SettlementSource, ResultSinkObserver}
  /\ "" \notin Source \ {CapabilityObserver}

-----------------------------------------------------------------------------
(* Values *)

Optional(S) == {T \in SUBSET S : \A x, y \in T : x = y}

Binding == [provider : Provider, generation : 0..LastGeneration]
EvidenceRecord == [source : Source, observed_at : Time, sequence : Sequence]
Authority == [operation_id : 0..LastOperationId, binding : Binding,
              admitted_at : Time]
Requirements == [profile_id : Profile, work_units : WorkUnits]
Capabilities == [profile_id : Profile, maximum_work_units : WorkUnits,
                 available : BOOLEAN]

Concern == {"idle", "worker", "sink"}
NativeKind == {"accepted", "rejected", "started",
               "succeeded", "failed", "cancelled"}
Terminal == {"succeeded", "failed", "cancelled"}
EvidenceKind == NativeKind \cup
  {"non_submission", "output", "non_delivery", "settlement", "stop"}
NonDeliveryReason == {"no_output", "sink_rejected", "authority_revoked"}
StopResponse == {"acknowledged", "refused", "unavailable"}

Receipt ==
  [authority : Authority,
   dispatch : {"pending", "submitted", "not_submitted"},
   acceptance : {"pending", "accepted", "rejected"},
   outcome : {"pending", "not_executed", "unknown"} \cup Terminal,
   output : {"pending", "accepted", "not_delivered"},
   reason : Optional(NonDeliveryReason),
   settlement : {"pending", "settled"},
   disposition : {"current", "revoked", "released", "blocked_unknown"},
   deadline : Optional(Time),
   dispatched_at : Optional(Time),
   cancelled_at : Optional(Time),
   expired_at : Optional(Time),
   withdrawn_at : Optional(Time),
   stop_requested_at : Optional(Time),
   stop_acknowledgement : {"not_requested", "pending"} \cup StopResponse,
   native_identity : Optional(NativeIdentity),
   requirements : Optional(Requirements),
   evidence : [EvidenceKind -> Optional(EvidenceRecord)]]

\* A startup fact, and an observation about a rebinding candidate.
Fact == [value : BOOLEAN, record : EvidenceRecord]
CapabilityFact == [binding : Binding, value : Capabilities,
                   record : EvidenceRecord, valid_until : Time]
Observation(V) == [value : V, record : EvidenceRecord, valid_until : Time,
                   conflicted : BOOLEAN]

Candidate ==
  [binding : Binding, prepared_at : Time,
   old_scope : Optional([record : EvidenceRecord, valid_until : Time]),
   readiness : [Concern -> Optional(Observation(BOOLEAN))],
   capabilities : Optional(Observation(Capabilities))]

Gate ==
  [init : {"recovery_required", "ready", "closed"},
   facts : [Concern -> Optional(Fact)],
   phase : {"active", "withdrawn", "preparing", "closed"},
   binding : Binding,
   generation_high_water : 0..LastGeneration,
   last_binding_control_at : Time,
   withdrawn_at : Optional(Time),
   last_old_scope_record : Optional(EvidenceRecord),
   candidate : Candidate,
   next_operation_id : 0..LastOperationId,
   receipt : Receipt,
   last_native : Optional([kind : NativeKind, record : EvidenceRecord]),
   capabilities : Optional(CapabilityFact)]

NoBinding == [InitialBinding EXCEPT !.generation = 0]
NoAuthority == [operation_id |-> 0, binding |-> NoBinding,
                admitted_at |-> StartedAt]

new_receipt(authority, deadline, requirements) ==
  [authority |-> authority, dispatch |-> "pending", acceptance |-> "pending",
   outcome |-> "pending", output |-> "pending", reason |-> {},
   settlement |-> "pending", disposition |-> "current",
   deadline |-> deadline, dispatched_at |-> {}, cancelled_at |-> {},
   expired_at |-> {}, withdrawn_at |-> {}, stop_requested_at |-> {},
   stop_acknowledgement |-> "not_requested", native_identity |-> {},
   requirements |-> requirements, evidence |-> [k \in EvidenceKind |-> {}]]

new_candidate(binding, now, old_scope) ==
  [binding |-> binding, prepared_at |-> now, old_scope |-> old_scope,
   readiness |-> [c \in Concern |-> {}], capabilities |-> {}]

NoReceipt == new_receipt(NoAuthority, {}, {})
NoCandidate == new_candidate(NoBinding, StartedAt, {})

initial_gate ==
  [init |-> "recovery_required", facts |-> [c \in Concern |-> {}],
   phase |-> "active", binding |-> InitialBinding,
   generation_high_water |-> InitialBinding.generation,
   last_binding_control_at |-> StartedAt, withdrawn_at |-> {},
   last_old_scope_record |-> {}, candidate |-> NoCandidate,
   next_operation_id |-> 1, receipt |-> NoReceipt, last_native |-> {},
   capabilities |-> {}]

has_receipt(g) == g.receipt.authority.operation_id # 0
has_candidate(g) == g.candidate.binding.generation # 0

-----------------------------------------------------------------------------
(* Evidence records and the times of a receipt *)

is_record_well_formed(record, source, earliest) ==
  /\ record.source = source
  /\ record.sequence # 0
  /\ \A t \in earliest : t <= record.observed_at

follows_same_source_records(record, r) ==
  \A k \in EvidenceKind : \A p \in r.evidence[k] :
    p.source = record.source => p.sequence < record.sequence

revocations(r) == r.cancelled_at \cup r.expired_at \cup r.withdrawn_at

is_revoked(r) == revocations(r) # {}

revocation_precedes(r, t) == \E x \in revocations(r) : x <= t

has_reached_deadline(r, t) == \E d \in r.deadline : d <= t

times_of(records) == {x.observed_at : x \in records}

\* The code takes the maximum of these times and only ever compares with it.
effect_times(r) ==
  {r.authority.admitted_at} \cup r.dispatched_at
    \cup UNION {times_of(r.evidence[k]) : k \in EvidenceKind \ {"stop"}}

receipt_times(r) ==
  effect_times(r) \cup times_of(r.evidence["stop"]) \cup revocations(r)

\* t >= latest_time, for the time t of a call and a set of earlier times.
not_before(t, earlier) == \A x \in earlier : x <= t

fact_times(facts) == {f.record.observed_at : f \in facts}

binding_times(g) ==
  {g.last_binding_control_at}
    \cup (IF has_receipt(g) THEN receipt_times(g.receipt) ELSE {})
    \cup (UNION {fact_times(g.facts[c]) : c \in Concern})
    \cup fact_times(g.capabilities)
    \cup (IF has_candidate(g)
            THEN fact_times(g.candidate.capabilities) \cup
                 UNION {fact_times(g.candidate.readiness[c]) : c \in Concern}
            ELSE {})

-----------------------------------------------------------------------------
(* Closure of an operation *)

has_resolved_effects(r) ==
  LET nothing_produced == r.output = "not_delivered" /\ r.reason = {"no_output"}
  IN  \/ /\ r.dispatch = "not_submitted"
         /\ r.outcome = "not_executed" /\ nothing_produced
      \/ /\ r.dispatch = "submitted" /\ r.acceptance = "rejected"
         /\ r.outcome = "not_executed" /\ nothing_produced
      \/ /\ r.dispatch = "submitted" /\ r.acceptance = "accepted"
         /\ \/ r.outcome \in {"failed", "cancelled"} /\ nothing_produced
            \/ /\ r.outcome = "succeeded"
               /\ \/ r.output = "accepted"
                  \/ /\ r.output = "not_delivered"
                     /\ r.reason \in {{"sink_rejected"}, {"authority_revoked"}}

has_resolved_closure(r) == r.settlement = "settled" /\ has_resolved_effects(r)

current_is_releasable(g) ==
  /\ has_receipt(g)
  /\ has_resolved_closure(g.receipt)
  /\ g.receipt.disposition = "released"

old_work_closed(g) == ~has_receipt(g) \/ current_is_releasable(g)

\* Mutant: a revocation hides a contradiction.
MutantRevokedFirst(r) ==
  IF has_resolved_closure(r) THEN "released"
  ELSE IF is_revoked(r) THEN "revoked"
  ELSE IF r.outcome = "unknown" THEN "blocked_unknown"
  ELSE "current"

authority_disposition(r) ==
  IF r.outcome = "unknown" THEN "blocked_unknown"
  ELSE IF has_resolved_closure(r) THEN "released"
  ELSE IF is_revoked(r) THEN "revoked"
  ELSE "current"

refresh_authority_disposition(r) ==
  [r EXCEPT !.disposition = authority_disposition(r)]

current_authority_matches(g, authority) ==
  /\ has_receipt(g)
  /\ authority.binding = g.binding
  /\ authority = g.receipt.authority

\* Mutant: only work the provider already accepted is asked to stop.
MutantStopAcceptedOnly(r) ==
  /\ r.dispatch = "submitted" /\ r.acceptance = "accepted"
  /\ r.outcome = "pending"
  /\ r.stop_requested_at = {}

should_request_native_stop(r) ==
  /\ r.dispatch = "submitted"
  /\ r.outcome = "pending"
  /\ r.stop_requested_at = {}

revoke(r, now) ==
  refresh_authority_disposition(
    IF should_request_native_stop(r)
      THEN [r EXCEPT !.stop_requested_at = {now},
                     !.stop_acknowledgement = "pending"]
      ELSE r)

-----------------------------------------------------------------------------
(* Startup and execution capabilities *)

observer_of(c) ==
  CASE c = "idle" -> BindingObserver
    [] c = "worker" -> WorkerObserver
    [] c = "sink" -> ResultSinkObserver

all_facts_hold(facts) == \A c \in Concern : \E f \in facts[c] : f.value

\* e : [concern, binding, value, record]
accepts_startup(g, e) ==
  /\ g.phase = "active" /\ g.init # "closed"
  /\ ~has_receipt(g)
  /\ e.binding = g.binding
  /\ is_record_well_formed(e.record, observer_of(e.concern), {StartedAt})
  /\ \A f \in g.facts[e.concern] :
       /\ f.record.sequence < e.record.sequence
       /\ f.record.observed_at <= e.record.observed_at

observe_startup(g, e) ==
  LET facts == [g.facts EXCEPT ![e.concern] =
                  {[value |-> e.value, record |-> e.record]}]
  IN  IF accepts_startup(g, e)
        THEN [g EXCEPT !.facts = facts,
                       !.init = IF all_facts_hold(facts) THEN "ready"
                                ELSE "recovery_required"]
        ELSE g

\* A slot of the candidate: a newer well-formed observation replaces what it
\* holds, a different one with the same sequence poisons it.
observe_slot(slot, e, valid) ==
  LET repeats == \E p \in slot : p.record.sequence = e.record.sequence
      same(p) == /\ p.record = e.record
                 /\ p.value = e.value /\ p.valid_until = e.valid_until
      poisoned(p) == [p EXCEPT !.conflicted = TRUE,
                        !.record.observed_at =
                          IF @ < e.record.observed_at
                            THEN e.record.observed_at ELSE @]
      newer == \A p \in slot :
                 /\ p.record.sequence < e.record.sequence
                 /\ p.record.observed_at <= e.record.observed_at
  IN  IF repeats
        THEN {IF same(p) THEN p ELSE poisoned(p) : p \in slot}
        ELSE IF newer /\ valid /\ e.record.observed_at < e.valid_until
        THEN {[value |-> e.value, record |-> e.record,
               valid_until |-> e.valid_until, conflicted |-> FALSE]}
        ELSE slot

\* e : [binding, value, record, valid_until]
is_candidate_evidence(g, e) ==
  /\ has_candidate(g) /\ g.phase = "preparing"
  /\ e.binding = g.candidate.binding

accepts_capabilities(g, e) ==
  /\ g.init # "closed"
  /\ CapabilityObserver # ""
  /\ e.binding = g.binding
  /\ e.value.maximum_work_units # 0
  /\ e.record.observed_at < e.valid_until
  /\ is_record_well_formed(e.record, CapabilityObserver, {StartedAt})
  /\ \A c \in g.capabilities :
       /\ c.record.observed_at <= e.record.observed_at
       /\ c.record.sequence < e.record.sequence

observe_execution_capabilities(g, e) ==
  IF is_candidate_evidence(g, e)
    THEN IF /\ CapabilityObserver # ""
            /\ is_record_well_formed(e.record, CapabilityObserver,
                                     {g.candidate.prepared_at})
           THEN [g EXCEPT !.candidate.capabilities =
                   observe_slot(@, e, e.value.maximum_work_units # 0)]
           ELSE g
  ELSE IF accepts_capabilities(g, e)
    THEN [g EXCEPT !.capabilities =
            {[binding |-> e.binding, value |-> e.value,
              record |-> e.record, valid_until |-> e.valid_until]}]
  ELSE g

supports_execution(g, requirements, at) ==
  /\ g.phase = "active" /\ g.init # "closed"
  /\ requirements.work_units # 0
  /\ \E c \in g.capabilities :
       /\ c.value.available
       /\ c.value.profile_id = requirements.profile_id
       /\ requirements.work_units <= c.value.maximum_work_units
       /\ c.record.observed_at <= at /\ at < c.valid_until

-----------------------------------------------------------------------------
(* Provider binding: withdraw, begin, observe, commit, close *)

withdraws_current(g) ==
  /\ ~has_candidate(g)
  /\ current_authority_matches(g, g.receipt.authority)
  /\ ~current_is_releasable(g)

withdraws_binding(g, expected, now) ==
  /\ g.phase \notin {"closed", "withdrawn"}
  /\ expected = IF has_candidate(g) THEN g.candidate.binding ELSE g.binding
  /\ not_before(now, binding_times(g))

withdraw_binding(g, expected, now) ==
  IF withdraws_binding(g, expected, now)
    THEN [g EXCEPT
            !.last_binding_control_at = now,
            !.init = "recovery_required",
            !.phase = "withdrawn",
            !.candidate = NoCandidate,
            !.withdrawn_at = IF has_candidate(g) THEN @ ELSE {now},
            !.receipt = IF withdraws_current(g)
                          THEN revoke([@ EXCEPT !.withdrawn_at = {now}], now)
                          ELSE @]
    ELSE g

\* e : [binding, record, valid_until], a positive idle-and-settled observation
\* of the old scope.
accepts_old_scope(g, e, now) ==
  /\ e.binding = g.binding
  /\ is_record_well_formed(e.record, BindingObserver,
       g.withdrawn_at \cup
         IF has_receipt(g) THEN effect_times(g.receipt) ELSE {})
  /\ e.record.observed_at <= now /\ now < e.valid_until
  /\ \A p \in {f.record : f \in g.facts["idle"]} \cup g.last_old_scope_record :
       /\ p.sequence < e.record.sequence
       /\ p.observed_at <= e.record.observed_at

begins_rebind(g, expected, e, now) ==
  /\ g.phase = "withdrawn"
  /\ expected = g.binding
  /\ not_before(now, binding_times(g))
  /\ ~has_candidate(g)
  /\ old_work_closed(g)
  /\ accepts_old_scope(g, e, now)
  /\ g.generation_high_water # LastGeneration

begin_rebind(g, expected, provider, e, now) ==
  LET binding == [provider |-> provider,
                  generation |-> g.generation_high_water + 1]
      old_scope == {[record |-> e.record, valid_until |-> e.valid_until]}
  IN  IF begins_rebind(g, expected, e, now)
        THEN [g EXCEPT !.candidate = new_candidate(binding, now, old_scope),
                       !.last_old_scope_record = {e.record},
                       !.generation_high_water = @ + 1,
                       !.last_binding_control_at = now,
                       !.phase = "preparing"]
        ELSE g

\* e : [concern, binding, value, record, valid_until]
observe_rebind_readiness(g, e) ==
  IF /\ is_candidate_evidence(g, e)
     /\ is_record_well_formed(e.record, observer_of(e.concern),
                              {g.candidate.prepared_at})
    THEN [g EXCEPT !.candidate.readiness[e.concern] = observe_slot(@, e, TRUE)]
    ELSE g

is_usable(p, now) ==
  /\ ~p.conflicted
  /\ p.record.observed_at <= now /\ now < p.valid_until

\* Mutant: evidence of the old work that came after begin_rebind is ignored.
MutantNoLateEffects(g, now) ==
  /\ g.phase = "preparing" /\ has_candidate(g)
  /\ not_before(now, binding_times(g))
  /\ old_work_closed(g)
  /\ \A p \in g.candidate.old_scope : now < p.valid_until
  /\ \A c \in Concern : \E p \in g.candidate.readiness[c] :
       p.value /\ is_usable(p, now)
  /\ CapabilityObserver # "" =>
       \E p \in g.candidate.capabilities : p.value.available /\ is_usable(p, now)

can_commit(g, now) ==
  /\ g.phase = "preparing" /\ has_candidate(g)
  /\ not_before(now, binding_times(g))
  /\ old_work_closed(g)
  /\ \A p \in g.candidate.old_scope :
       /\ now < p.valid_until
       /\ has_receipt(g) =>
            not_before(p.record.observed_at, effect_times(g.receipt))
  /\ \A c \in Concern : \E p \in g.candidate.readiness[c] :
       p.value /\ is_usable(p, now)
  /\ CapabilityObserver # "" =>
       \E p \in g.candidate.capabilities : p.value.available /\ is_usable(p, now)

commits_rebind(g, expected, now) ==
  /\ g.phase # "closed"
  /\ expected = g.candidate.binding
  /\ can_commit(g, now)

commit_rebind(g, expected, now) ==
  LET c == g.candidate
  IN  IF commits_rebind(g, expected, now)
        THEN [g EXCEPT
                !.binding = c.binding,
                !.facts = [k \in Concern |->
                             {[value |-> TRUE, record |-> p.record] :
                                p \in c.readiness[k]}],
                !.capabilities =
                   {[binding |-> c.binding, value |-> p.value,
                     record |-> p.record, valid_until |-> p.valid_until] :
                        p \in c.capabilities},
                !.last_old_scope_record = {},
                !.candidate = NoCandidate,
                !.last_binding_control_at = now,
                !.init = "ready",
                !.phase = "active"]
        ELSE g

close_admission(g) ==
  [g EXCEPT !.init = "closed", !.phase = "closed", !.candidate = NoCandidate]

-----------------------------------------------------------------------------
(* Admission, dispatch, cancellation and deadlines *)

\* Mutant: the request may be earlier than the operation it follows.
MutantAnyTime(g, q) ==
  /\ g.init # "closed"
  /\ g.last_binding_control_at <= q.requested_at
  /\ g.next_operation_id # 0
  /\ \A d \in q.deadline : q.requested_at < d
  /\ g.phase = "active" /\ g.init = "ready"
  /\ has_receipt(g) => current_is_releasable(g)
  /\ \A c \in Concern : not_before(q.requested_at, fact_times(g.facts[c]))
  /\ CapabilityObserver # "" => q.requirements # {}
  /\ \A x \in q.requirements : supports_execution(g, x, q.requested_at)

\* q : [requested_at, deadline, requirements]
admits(g, q) ==
  /\ g.init # "closed"
  /\ g.last_binding_control_at <= q.requested_at
  /\ g.next_operation_id # 0
  /\ \A d \in q.deadline : q.requested_at < d
  /\ g.phase = "active" /\ g.init = "ready"
  /\ has_receipt(g) => /\ current_is_releasable(g)
                       /\ not_before(q.requested_at, receipt_times(g.receipt))
  /\ \A c \in Concern : not_before(q.requested_at, fact_times(g.facts[c]))
  /\ CapabilityObserver # "" => q.requirements # {}
  /\ \A x \in q.requirements : supports_execution(g, x, q.requested_at)

\* next_operation_id++ on std::uint64_t: the last identity wraps to 0.
following_operation_id(id) == IF id = LastOperationId THEN 0 ELSE id + 1

admit(g, q) ==
  LET authority == [operation_id |-> g.next_operation_id,
                    binding |-> g.binding, admitted_at |-> q.requested_at]
  IN  IF admits(g, q)
        THEN [g EXCEPT
                !.next_operation_id = following_operation_id(@),
                !.receipt = new_receipt(authority, q.deadline, q.requirements),
                !.last_native = {}]
        ELSE g

claims_dispatch(g, authority, now) ==
  /\ g.phase = "active" /\ g.init = "ready"
  /\ current_authority_matches(g, authority)
  /\ authority.admitted_at <= now
  /\ g.receipt.dispatch = "pending"
  /\ ~is_revoked(g.receipt)
  /\ ~has_reached_deadline(g.receipt, now)
  /\ \A x \in g.receipt.requirements : supports_execution(g, x, now)

claim_dispatch(g, authority, now) ==
  IF claims_dispatch(g, authority, now)
    THEN [g EXCEPT !.receipt.dispatch = "submitted",
                   !.receipt.dispatched_at = {now}]
    ELSE g

\* The operation can still be controlled, at a time no earlier than its own.
is_controllable(g, authority, now) ==
  /\ current_authority_matches(g, authority)
  /\ g.receipt.disposition # "released"
  /\ not_before(now, receipt_times(g.receipt))

applies_cancel(g, authority, now) ==
  /\ is_controllable(g, authority, now)
  /\ g.receipt.cancelled_at = {}

request_cancel(g, authority, now) ==
  IF applies_cancel(g, authority, now)
    THEN [g EXCEPT !.receipt = revoke([@ EXCEPT !.cancelled_at = {now}], now)]
    ELSE g

applies_expiry(g, authority, now) ==
  /\ is_controllable(g, authority, now)
  /\ g.receipt.expired_at = {}
  /\ has_reached_deadline(g.receipt, now)

observe_time(g, authority, now) ==
  IF applies_expiry(g, authority, now)
    THEN [g EXCEPT !.receipt = revoke([@ EXCEPT !.expired_at = {now}], now)]
    ELSE g

-----------------------------------------------------------------------------
(* Evidence about the current operation *)

\* e : [authority, acknowledgement, record]
accepts_stop_acknowledgement(g, e) ==
  /\ current_authority_matches(g, e.authority)
  /\ g.receipt.stop_requested_at # {}
  /\ is_record_well_formed(e.record, StopSource, g.receipt.stop_requested_at)
  /\ g.receipt.evidence["stop"] = {}
  /\ g.receipt.disposition # "released"

observe_stop_acknowledgement(g, e) ==
  IF accepts_stop_acknowledgement(g, e)
    THEN [g EXCEPT !.receipt.stop_acknowledgement = e.acknowledgement,
                   !.receipt.evidence["stop"] = {e.record}]
    ELSE g

\* Mutant: non-submission is believed after native evidence.
MutantNonSubmission(g, e) ==
  /\ current_authority_matches(g, e.authority)
  /\ is_record_well_formed(e.record, SettlementSource,
                           {e.authority.admitted_at})
  /\ g.receipt.dispatch # "not_submitted"

\* e : [authority, record]
accepts_non_submission(g, e) ==
  /\ current_authority_matches(g, e.authority)
  /\ is_record_well_formed(e.record, SettlementSource,
                           {e.authority.admitted_at})
  /\ \/ g.receipt.dispatch = "pending"
     \/ /\ g.receipt.dispatch = "submitted"
        /\ \E t \in g.receipt.dispatched_at : t <= e.record.observed_at
  /\ \A k \in {"accepted", "rejected", "started", "succeeded", "failed"} :
       g.receipt.evidence[k] = {}

observe_non_submission(g, e) ==
  IF accepts_non_submission(g, e)
    THEN [g EXCEPT !.receipt = refresh_authority_disposition(
            [@ EXCEPT !.dispatch = "not_submitted",
                      !.outcome = "not_executed",
                      !.evidence["non_submission"] = {e.record}])]
    ELSE g

\* e : [authority, native_identity, kind, record]
accepts_native(g, e) ==
  LET r == g.receipt
  IN  /\ current_authority_matches(g, e.authority)
      /\ r.dispatch = "submitted"
      /\ is_record_well_formed(e.record, NativeSource, r.dispatched_at)
      /\ \A last \in g.last_native :
           /\ last.record.sequence < e.record.sequence
           /\ last.record.observed_at <= e.record.observed_at
      /\ \A id \in r.native_identity : id = e.native_identity
      /\ r.native_identity = {} => e.kind \in {"accepted", "rejected"}
      /\ r.acceptance = "rejected" => e.kind = "rejected"
      /\ r.acceptance = "accepted" => e.kind # "rejected"
      /\ e.kind \notin {"accepted", "rejected"} => r.acceptance = "accepted"

seen_terminals(evidence) == {k \in Terminal : evidence[k] # {}}

\* More than one terminal kind is a contradiction, whatever came first.
native_outcome(r, kind, evidence) ==
  IF \E k, l \in seen_terminals(evidence) : k # l THEN "unknown"
  ELSE IF seen_terminals(evidence) # {}
    THEN CHOOSE k \in Terminal : evidence[k] # {}
  ELSE IF kind = "rejected" THEN "not_executed"
  ELSE r.outcome

\* Mutant: the disposition is not refreshed after native evidence.
MutantStaleDisposition(r, e) ==
  LET evidence == IF r.evidence[e.kind] = {}
                    THEN [r.evidence EXCEPT ![e.kind] = {e.record}]
                    ELSE r.evidence
  IN  [r EXCEPT !.evidence = evidence,
                !.native_identity = {e.native_identity},
                !.acceptance = IF e.kind \in {"accepted", "rejected"}
                                 THEN e.kind ELSE @,
                !.outcome = native_outcome(r, e.kind, evidence)]

\* Mutant: a repeated native event replaces its first record.
MutantOverwrite(r, e) ==
  LET evidence == [r.evidence EXCEPT ![e.kind] = {e.record}]
  IN  refresh_authority_disposition(
        [r EXCEPT !.evidence = evidence,
                  !.native_identity = {e.native_identity},
                  !.acceptance = IF e.kind \in {"accepted", "rejected"}
                                   THEN e.kind ELSE @,
                  !.outcome = native_outcome(r, e.kind, evidence)])

apply_native(r, e) ==
  LET evidence == IF r.evidence[e.kind] = {}
                    THEN [r.evidence EXCEPT ![e.kind] = {e.record}]
                    ELSE r.evidence
  IN  refresh_authority_disposition(
        [r EXCEPT !.evidence = evidence,
                  !.native_identity = {e.native_identity},
                  !.acceptance = IF e.kind \in {"accepted", "rejected"}
                                   THEN e.kind ELSE @,
                  !.outcome = native_outcome(r, e.kind, evidence)])

observe_native(g, e) ==
  IF accepts_native(g, e)
    THEN [g EXCEPT !.receipt = apply_native(@, e),
                   !.last_native = {[kind |-> e.kind, record |-> e.record]}]
    ELSE g

can_deliver_result(g, authority) ==
  /\ g.phase \notin {"withdrawn", "preparing"}
  /\ current_authority_matches(g, authority)
  /\ ~is_revoked(g.receipt)
  /\ g.receipt.outcome = "succeeded"
  /\ g.receipt.output = "pending"

\* Mutant: the deadline is not checked again when the sink reports.
MutantLateOutput(g, e) ==
  /\ is_record_well_formed(e.record, ResultSinkObserver,
                           {e.authority.admitted_at})
  /\ can_deliver_result(g, e.authority)
  /\ \E p \in g.receipt.evidence["succeeded"] :
       p.observed_at <= e.record.observed_at

\* e : [authority, record]
accepts_output(g, e) ==
  /\ is_record_well_formed(e.record, ResultSinkObserver,
                           {e.authority.admitted_at})
  /\ can_deliver_result(g, e.authority)
  /\ ~has_reached_deadline(g.receipt, e.record.observed_at)
  /\ \E p \in g.receipt.evidence["succeeded"] :
       p.observed_at <= e.record.observed_at

observe_output_accepted(g, e) ==
  IF accepts_output(g, e)
    THEN [g EXCEPT !.receipt = refresh_authority_disposition(
            [@ EXCEPT !.output = "accepted",
                      !.evidence["output"] = {e.record}])]
    ELSE g

\* The evidence that shows why there is no output.
non_delivery_prerequisite(r, reason) ==
  IF reason = "no_output"
    THEN IF r.dispatch = "not_submitted" THEN r.evidence["non_submission"]
         ELSE IF r.acceptance = "rejected" THEN r.evidence["rejected"]
         ELSE IF r.acceptance = "accepted" /\ r.outcome = "failed"
           THEN r.evidence["failed"]
         ELSE IF r.outcome = "cancelled" THEN r.evidence["cancelled"]
         ELSE {}
    ELSE IF r.acceptance = "accepted" /\ r.outcome = "succeeded"
           THEN r.evidence["succeeded"] ELSE {}

\* e : [authority, reason, record]
accepts_non_delivery(g, e) ==
  LET r == g.receipt
      source == IF e.reason = "no_output" THEN SettlementSource
                ELSE ResultSinkObserver
  IN  /\ current_authority_matches(g, e.authority)
      /\ e.reason = "authority_revoked" =>
           revocation_precedes(r, e.record.observed_at)
      /\ \E p \in non_delivery_prerequisite(r, e.reason) :
           is_record_well_formed(e.record, source, {p.observed_at})
      /\ r.output = "pending"
      /\ follows_same_source_records(e.record, r)

observe_output_not_delivered(g, e) ==
  IF accepts_non_delivery(g, e)
    THEN [g EXCEPT !.receipt = refresh_authority_disposition(
            [@ EXCEPT !.output = "not_delivered",
                      !.reason = {e.reason},
                      !.evidence["non_delivery"] = {e.record}])]
    ELSE g

\* e : [authority, permits_same_domain_admission, record]; the scope matches.
accepts_settlement(g, e) ==
  LET r == g.receipt
  IN  /\ current_authority_matches(g, e.authority)
      /\ is_record_well_formed(e.record, SettlementSource,
                               {e.authority.admitted_at})
      /\ r.settlement # "settled"
      /\ e.permits_same_domain_admission
      /\ r.output # "pending"
      /\ not_before(e.record.observed_at, effect_times(r))
      /\ follows_same_source_records(e.record, r)
      /\ has_resolved_effects(r)

observe_settlement(g, e) ==
  IF accepts_settlement(g, e)
    THEN [g EXCEPT !.receipt = refresh_authority_disposition(
            [@ EXCEPT !.settlement = "settled",
                      !.evidence["settlement"] = {e.record}])]
    ELSE g
-----------------------------------------------------------------------------
(* The effect domain as OperationDomain sees it *)

domain_state(g) ==
  IF ~has_receipt(g) \/ g.receipt.disposition = "released" THEN "free"
  ELSE IF g.receipt.disposition = "blocked_unknown" THEN "blocked"
  ELSE "held"

\* The records of a host that numbers all of them by one counter: a number is
\* only compared with that of a record the gate still holds.
renumbered(g) ==
  LET old(records) == {[r EXCEPT !.sequence = 1] : r \in records}
      aged(facts) == {[f EXCEPT !.record.sequence = 1] : f \in facts}
  IN  [g EXCEPT !.facts = [c \in Concern |-> aged(@[c])],
                !.capabilities = aged(@),
                !.last_native = aged(@),
                !.last_old_scope_record = old(@),
                !.receipt.evidence = [k \in EvidenceKind |-> old(@[k])]]
=============================================================================
