----------------------------- MODULE SampleHost -----------------------------
(***************************************************************************)
(* SampleExecutionHost of src/sample/sample_execution.cpp: a gate, an       *)
(* adapter for a worker and a result sink, and the callbacks of the adapter *)
(* that wait to be reported to the gate.                                    *)
(*                                                                         *)
(* Every public call is an action and runs to its end before the next one:  *)
(* the host has one thread.  A call reads the caller's clock when it polls  *)
(* and again when it acts; the clock may move between these two reads.      *)
(* process_all is a loop of process_next, one step per iteration; until it  *)
(* is over no other call begins.  An event keeps the time at which it was   *)
(* staged.  The values of a request and of a result are left out: a result  *)
(* is the authority it was produced for.                                    *)
(***************************************************************************)
EXTENDS AuthorityGate, Calls, Sequences, SequencesExt

CONSTANTS
  LastTime,        \* the largest MonotonicTime
  Clock,           \* the times the caller's clock shows
  Deadlines,       \* the deadlines a request may carry
  Modes,           \* the cancellation modes the fixture may be set to
  Completions,     \* the completion modes a provider may be created with
  Controls,        \* the other fixture controls that are used
  ObservationLimit, \* bound: calls of initialize and rebind_provider
  ReplayLimit       \* bound: results that wait when another is replayed

ASSUME HostAssumption ==
  /\ LastTime \in Nat /\ ObservationLimit \in Nat
  /\ Time = 0..LastTime /\ StartedAt = 0 /\ Clock \subseteq Time
  /\ 1..5 \subseteq Sequence
  /\ 1..ObservationLimit \subseteq Sequence
  /\ 1..LastOperationId \subseteq NativeIdentity
  /\ Deadlines \subseteq Time

\* The worker, the adapter and the sink report under names of their own.
ASSUME NameAssumption ==
  /\ SettlementSource \notin {NativeSource, ResultSinkObserver}
  /\ NativeSource # ResultSinkObserver

CancellationMode == {"cooperative", "ignore", "refuse", "unavailable", "none"}
CompletionMode == {"synchronous", "deferred"}
Control == {"worker", "sink", "reject", "fail", "reporting", "replay"}
ASSUME ControlAssumption ==
  /\ Modes \subseteq CancellationMode /\ Completions \subseteq CompletionMode
  /\ Completions # {} /\ Controls \subseteq Control

VARIABLES
  gate,       \* AuthorityGate
  adapter,    \* DeterministicSampleAdapter
  staged,     \* staged_events: callbacks with the time they were staged at
  current,    \* current_authority
  prepared,   \* prepared_authority
  sequences,  \* the sequence of the last startup observation of each concern
  last_time,  \* the last value read from the clock
  loop,       \* process_all is running: "no", "all", or within "shutdown"
  is_shutdown,
  results,    \* what the result sink holds
  stops,      \* history: the authority of each native stop request
  muted       \* history: the operations whose settlement was not reported

vars == <<gate, adapter, staged, current, prepared, sequences, last_time, loop,
          is_shutdown, results, stops, muted>>

new_adapter(mode) ==
  [mode |-> mode, worker_ready |-> TRUE, sink_ready |-> TRUE, closed |-> FALSE,
   reject_next |-> FALSE, fail_next |-> FALSE, cancellation |-> "cooperative",
   reporting |-> TRUE, replay |-> FALSE, retained |-> {}, pending |-> {}]

Init ==
  /\ gate = initial_gate
  /\ adapter \in {new_adapter(m) : m \in Completions}
  /\ staged = <<>> /\ current = {} /\ prepared = {}
  /\ sequences = [c \in Concern |-> 0]
  /\ last_time = 0 /\ loop = "no" /\ is_shutdown = FALSE
  /\ results = <<>> /\ stops = <<>> /\ muted = {}

\* The part of the state a call passes from one of its steps to the next.
Host == [gate |-> gate, adapter |-> adapter, staged |-> staged,
         current |-> current, prepared |-> prepared, results |-> results,
         stops |-> stops, muted |-> muted]

Becomes(result) == \E h \in {result} :
  /\ gate' = h.gate /\ adapter' = h.adapter /\ staged' = h.staged
  /\ current' = h.current /\ prepared' = h.prepared
  /\ results' = h.results /\ stops' = h.stops /\ muted' = h.muted

record(source, t, n) == [source |-> source, observed_at |-> t, sequence |-> n]

-----------------------------------------------------------------------------
(* The adapter *)

worker_ready(a) == a.worker_ready /\ ~a.closed
sink_ready(a) == a.sink_ready /\ ~a.closed

\* emit: the callbacks of one authority are staged in order.  A settlement, which
\* comes last, is dropped while reporting is off; the first result is retained
\* for replay.
emit(h, authority, calls, now) ==
  LET heard == IF h.adapter.reporting \/ Last(calls)[1] # "settled" THEN calls
               ELSE Front(calls)
      callback(c) == [kind |-> c[1], authority |-> authority, sequence |-> c[2]]
      event(c) == [kind |-> c[1], authority |-> authority, sequence |-> c[2],
                   observed_at |-> now]
      produced == {callback(c) : c \in {d \in Range(heard) : d[1] = "result"}}
      keeps == h.adapter.replay /\ h.adapter.retained = {}
  IN  [h EXCEPT !.staged = @ \o [i \in DOMAIN heard |-> event(heard[i])],
                !.adapter.retained = IF keeps THEN produced ELSE @,
                !.muted = IF heard = calls THEN @
                          ELSE @ \cup {authority.operation_id}]

not_executed_calls ==
  <<<<"not_submitted", 1>>, <<"no_output", 2>>, <<"settled", 3>>>>
rejected_calls == <<<<"rejected", 1>>, <<"no_output", 1>>, <<"settled", 2>>>>
accepted_calls == <<<<"accepted", 1>>>>
cancelled_calls == <<<<"cancelled", 2>>, <<"no_output", 1>>, <<"settled", 2>>>>
failed_calls ==
  <<<<"started", 2>>, <<"failed", 3>>, <<"no_output", 1>>, <<"settled", 2>>>>
succeeded_calls ==
  <<<<"started", 2>>, <<"succeeded", 3>>, <<"result", 4>>, <<"settled", 5>>>>

finish(h, work, now) ==
  IF work.is_cancelled THEN emit(h, work.authority, cancelled_calls, now)
  ELSE IF h.adapter.fail_next
    THEN then([h EXCEPT !.adapter.fail_next = FALSE], LAMBDA x :
              emit(x, work.authority, failed_calls, now))
  ELSE emit(h, work.authority, succeeded_calls, now)

finish_pending(h, now) ==
  IF h.adapter.pending = {} THEN h
  ELSE then([h EXCEPT !.adapter.pending = {}],
            LAMBDA x : finish(x, CHOOSE w \in h.adapter.pending : TRUE, now))

is_work_of(a, authority) == \E w \in a.pending : w.authority = authority

\* request_stop: the adapter and what it answers, if it does.
stopped(a, authority) ==
  IF is_work_of(a, authority) /\ a.cancellation = "cooperative"
    THEN [a EXCEPT !.pending = {[w EXCEPT !.is_cancelled = TRUE] : w \in @}]
    ELSE a

stop_answer(a, authority) ==
  IF ~is_work_of(a, authority) THEN {"unavailable"}
  ELSE CASE a.cancellation \in {"cooperative", "ignore"} -> {"acknowledged"}
         [] a.cancellation = "refuse" -> {"refused"}
         [] a.cancellation = "unavailable" -> {"unavailable"}
         [] a.cancellation = "none" -> {}

-----------------------------------------------------------------------------
(* Controls that reach the prepared request or the native work *)

\* Mutant: the prepared request is forgotten without a report.
MutantDiscardSilently(h, now) == [h EXCEPT !.prepared = {}]

discard_prepared(h, now) ==
  IF h.prepared = {} THEN h
  ELSE then([h EXCEPT !.prepared = {}],
            LAMBDA x : emit(x, CHOOSE a \in h.prepared : TRUE,
                            not_executed_calls, now))

request_native_stop(h, authority, now) ==
  LET told == [h EXCEPT !.adapter = stopped(@, authority),
                        !.stops = Append(@, authority)]
      report(g, k) == observe_stop_acknowledgement(g,
        [authority |-> authority, acknowledgement |-> k,
         record |-> record(StopSource, now, 1)])
  IN  [told EXCEPT !.gate =
         IF stop_answer(h.adapter, authority) = {} THEN @
         ELSE report(@, CHOOSE k \in stop_answer(h.adapter, authority) : TRUE)]

\* Mutant: a stop is never requested of the native work.
MutantNoStop(h, authority, stop, now) ==
  IF \E a \in h.prepared : a.operation_id = authority.operation_id
    THEN discard_prepared(h, now) ELSE h

\* apply_control, for a decision that was applied.
apply_control(h, authority, stop, now) ==
  then(IF \E a \in h.prepared : a.operation_id = authority.operation_id
         THEN discard_prepared(h, now) ELSE h,
       LAMBDA x : IF stop THEN request_native_stop(x, authority, now) ELSE x)

observe_host_time(h, now) ==
  LET expires == {a \in h.current : applies_expiry(h.gate, a, now)}
      stop == should_request_native_stop(h.gate.receipt)
      expired(a) == [h EXCEPT !.gate = observe_time(@, a, now)]
  IN  IF expires = {} THEN h
      ELSE LET a == CHOOSE y \in expires : TRUE
           IN  then(expired(a), LAMBDA x : apply_control(x, a, stop, now))

withdraw_host_binding(h, expected, now) ==
  LET stop == /\ withdraws_current(h.gate)
              /\ should_request_native_stop(h.gate.receipt)
      withdrawn == then([h EXCEPT !.gate = withdraw_binding(@, expected, now)],
                        LAMBDA x : discard_prepared(x, now))
  IN  IF ~withdraws_binding(h.gate, expected, now) THEN h
      ELSE then(withdrawn, LAMBDA x :
             IF stop THEN apply_control(x, h.gate.receipt.authority, TRUE, now)
             ELSE x)

poll(h, now) ==
  LET unready == /\ h.gate.init = "ready"
                 /\ ~(worker_ready(h.adapter) /\ sink_ready(h.adapter))
  IN  then(IF unready THEN withdraw_host_binding(h, h.gate.binding, now) ELSE h,
           LAMBDA x : observe_host_time(x, now))

-----------------------------------------------------------------------------
(* Reporting a staged event to the gate *)

\* Mutant: the sink takes what the worker produced without asking the gate.
MutantUnaskedSink(h, authority) == TRUE

permits_result(h, authority) == can_deliver_result(h.gate, authority)

report_result(h, authority, now) ==
  LET sink_record == record(ResultSinkObserver, now, 1)
      undelivered(due, reason) ==
        [due EXCEPT !.gate = observe_output_not_delivered(@,
           [authority |-> authority, reason |-> reason, record |-> sink_record])]
      delivered(due) ==
        [due EXCEPT !.results = Append(@, authority),
                    !.gate = observe_output_accepted(@,
                       [authority |-> authority, record |-> sink_record])]
  IN  then(observe_host_time(h, now), LAMBDA due :
        IF ~permits_result(due, authority) THEN undelivered(due, "authority_revoked")
        ELSE IF ~sink_ready(due.adapter) THEN undelivered(due, "sink_rejected")
        ELSE delivered(due))

report_settlement(h, e, now) ==
  then(observe_host_time(h, now), LAMBDA due :
    [due EXCEPT !.gate = observe_settlement(@,
       [authority |-> e.authority, permits_same_domain_admission |-> TRUE,
        record |-> record(SettlementSource, now, e.sequence)])])

report_evidence(g, e) ==
  CASE e.kind = "not_submitted" ->
         observe_non_submission(g,
           [authority |-> e.authority,
            record |-> record(SettlementSource, e.observed_at, e.sequence)])
    [] e.kind = "no_output" ->
         observe_output_not_delivered(g,
           [authority |-> e.authority, reason |-> "no_output",
            record |-> record(SettlementSource, e.observed_at, e.sequence)])
    [] e.kind \in NativeKind ->
         observe_native(g,
           [authority |-> e.authority, kind |-> e.kind,
            native_identity |-> e.authority.operation_id,
            record |-> record(NativeSource, e.observed_at, e.sequence)])

report(h, e, now) ==
  CASE e.kind = "result" -> report_result(h, e.authority, now)
    [] e.kind = "settled" -> report_settlement(h, e, now)
    [] OTHER -> [h EXCEPT !.gate = report_evidence(@, e)]

process_next(h, polled_at, now) ==
  then(poll(h, polled_at), LAMBDA p :
    IF p.staged = <<>> THEN p
    ELSE then([p EXCEPT !.staged = Tail(@)],
              LAMBDA x : report(x, Head(p.staged), now)))

-----------------------------------------------------------------------------
(* The public calls *)

\* One call: it polls (where it does) at t1 and acts at t2.
Reads == {t \in Clock \X Clock : last_time <= t[1] /\ t[1] <= t[2]}

Idle == loop = "no"

Initialize ==
  \E t \in Reads :
    LET next == [c \in Concern |-> sequences[c] + 1]
        polled == IF /\ gate.init = "ready"
                     /\ ~(worker_ready(adapter) /\ sink_ready(adapter))
                    THEN poll(Host, t[1]) ELSE Host
        value(h, c) == CASE c = "idle" -> h.adapter.pending = {}
                         [] c = "worker" -> worker_ready(h.adapter)
                         [] c = "sink" -> sink_ready(h.adapter)
        observed(h, c) == [h EXCEPT !.gate = observe_startup(@,
          [concern |-> c, binding |-> @.binding, value |-> value(h, c),
           record |-> record(observer_of(c), t[2], next[c])])]
    IN  /\ Idle /\ \A c \in Concern : sequences[c] < ObservationLimit
        /\ Becomes(then(then(then(polled,
             LAMBDA x : observed(x, "idle")), LAMBDA x : observed(x, "worker")),
             LAMBDA x : observed(x, "sink")))
        /\ sequences' = next
        /\ last_time' = t[2]
        /\ UNCHANGED <<loop, is_shutdown>>

WithdrawBinding ==
  \E t \in Clock :
    /\ Idle /\ last_time <= t
    /\ Becomes(withdraw_host_binding(Host, gate.binding, t))
    /\ last_time' = t
    /\ UNCHANGED <<sequences, loop, is_shutdown>>

is_quiescent(h) == h.adapter.pending = {} /\ h.prepared = {} /\ h.staged = <<>>

\* The replacement inherits what was observed, and nothing else.
replacement(a, mode) ==
  [new_adapter(mode) EXCEPT !.replay = a.replay, !.retained = a.retained]

\* The gate after the three readiness observations of the replacement.
observed_ready(g, now, next) ==
  LET e(c) == [concern |-> c, binding |-> g.candidate.binding, value |-> TRUE,
               record |-> record(observer_of(c), now, next[c]),
               valid_until |-> now + 1]
  IN  observe_rebind_readiness(observe_rebind_readiness(
        observe_rebind_readiness(g, e("idle")), e("worker")), e("sink"))

\* The candidate is committed or withdrawn within the call.
committed_or_withdrawn(h, g, mode, now) ==
  LET candidate == g.candidate.binding
  IN  IF commits_rebind(g, candidate, now)
        THEN [h EXCEPT !.gate = commit_rebind(g, candidate, now),
                       !.adapter = replacement(@, mode)]
        ELSE [h EXCEPT !.gate = withdraw_binding(g, candidate, now)]

rebound(h, begun, mode, now, next) ==
  then(observed_ready(begun, now, next),
       LAMBDA g : committed_or_withdrawn(h, g, mode, now))

\* The numbers of the observation of the old work and of those of the replacement.
old_work_sequences == [sequences EXCEPT !["idle"] = @ + 1]

replacement_sequences == [c \in Concern |-> old_work_sequences[c] + 1]

\* The observation that the old work has ended.
old_work_ended(expected, now) ==
  [binding |-> expected, valid_until |-> now + 1,
   record |-> record(BindingObserver, now, old_work_sequences["idle"])]

refuses_rebind(h, now) == is_shutdown \/ ~is_quiescent(h) \/ now = LastTime

RebindProvider ==
  \E t \in Reads, mode \in Completions, provider \in Provider,
     expected \in {gate.binding, InitialBinding} :
  \E h \in {poll(Host, t[1])} :
    LET now == t[2]
        old == old_work_ended(expected, now)
        next == replacement_sequences
        begun == begin_rebind(h.gate, expected, provider, old, now)
        refused == refuses_rebind(h, now)
        begins == ~refused /\ begins_rebind(h.gate, expected, old, now)
    IN  /\ Idle /\ \A c \in Concern : sequences[c] + 1 < ObservationLimit
        /\ sequences' = IF refused THEN sequences
                        ELSE IF begins THEN next ELSE old_work_sequences
        /\ Becomes(IF begins THEN rebound(h, begun, mode, now, next) ELSE h)
        /\ last_time' = now
        /\ UNCHANGED <<loop, is_shutdown>>

Prepare ==
  \E t \in Reads, d \in Optional(Deadlines) :
  \E h \in {then(poll(Host, t[1]), LAMBDA x : observe_host_time(x, t[2]))} :
    LET q == [requested_at |-> t[2], deadline |-> d, requirements |-> {}]
        admitted == admit(h.gate, q)
        authority == {admitted.receipt.authority}
    IN  /\ Idle
        /\ IF admits(h.gate, q)
             THEN Becomes([h EXCEPT !.gate = admitted, !.current = authority,
                                    !.prepared = authority])
             ELSE Becomes(h)
        /\ last_time' = t[2]
        /\ UNCHANGED <<sequences, loop, is_shutdown>>

\* The adapter takes the work the gate has let it have.
submit_native(h, authority, now) ==
  LET work == [authority |-> authority, is_cancelled |-> FALSE]
  IN  IF h.adapter.reject_next
        THEN then([h EXCEPT !.adapter.reject_next = FALSE], LAMBDA x :
                  emit(x, authority, rejected_calls, now))
      ELSE then(emit(h, authority, accepted_calls, now), LAMBDA x :
             IF x.adapter.mode = "synchronous" THEN finish(x, work, now)
             ELSE [x EXCEPT !.adapter.pending = {work}])

\* dispatch of the adapter.  The prepared request has been taken out of h.
dispatch(h, authority, now) ==
  LET able == /\ worker_ready(h.adapter) /\ sink_ready(h.adapter)
              /\ h.adapter.pending = {}
      claimed(due) == [due EXCEPT !.gate = claim_dispatch(@, authority, now)]
  IN  IF ~able THEN emit(h, authority, not_executed_calls, now)
      ELSE then(observe_host_time(h, now), LAMBDA due :
             IF claims_dispatch(due.gate, authority, now)
               THEN then(claimed(due), LAMBDA x : submit_native(x, authority, now))
               ELSE emit(due, authority, not_executed_calls, now))

\* A prepared request that polling discarded is reported like one that was
\* dispatched: one event with a deferred provider, all of them otherwise.
DispatchPrepared ==
  \E t \in Reads, authority \in prepared :
  \E h \in {poll(Host, t[1])} :
    LET sent == IF h.prepared = {} THEN h
                ELSE then([h EXCEPT !.prepared = {}], LAMBDA x :
                          dispatch(x, authority, t[2]))
        deferred == h.adapter.mode = "deferred"
    IN  /\ Idle
        /\ Becomes(then(sent, LAMBDA x :
             IF deferred THEN process_next(x, t[2], t[2]) ELSE x))
        /\ loop' = IF deferred THEN "no" ELSE "all"
        /\ last_time' = t[2]
        /\ UNCHANGED <<sequences, is_shutdown>>

RequestCancel ==
  \E t \in Reads, authority \in current :
  \E h \in {poll(Host, t[1])} :
    LET stop == should_request_native_stop(h.gate.receipt)
        cancelled == [h EXCEPT !.gate = request_cancel(@, authority, t[2])]
    IN  /\ Idle
        /\ Becomes(IF applies_cancel(h.gate, authority, t[2])
                     THEN then(cancelled, LAMBDA x :
                               apply_control(x, authority, stop, t[2]))
                     ELSE h)
        /\ last_time' = t[2]
        /\ UNCHANGED <<sequences, loop, is_shutdown>>

Poll ==
  \E t \in Clock :
    /\ Idle /\ last_time <= t
    /\ Becomes(poll(Host, t))
    /\ last_time' = t
    /\ UNCHANGED <<sequences, loop, is_shutdown>>

CompleteDeferred ==
  \E t \in Reads :
    /\ Idle
    /\ Becomes(then(poll(Host, t[1]), LAMBDA h :
         IF h.adapter.closed THEN h ELSE finish_pending(h, t[2])))
    /\ last_time' = t[2]
    /\ UNCHANGED <<sequences, loop, is_shutdown>>

ReplayRetainedResult ==
  \E t \in Clock, c \in adapter.retained :
    /\ Idle /\ last_time <= t /\ ~adapter.closed
    /\ Cardinality({i \in DOMAIN staged : staged[i].kind = "result"}) <= ReplayLimit
    /\ staged' = <<[kind |-> c.kind, authority |-> c.authority,
                    sequence |-> c.sequence, observed_at |-> t]>> \o staged
    /\ last_time' = t
    /\ UNCHANGED <<gate, adapter, current, prepared, sequences, loop,
                   is_shutdown, results, stops, muted>>

ProcessNext ==
  \E t \in Reads :
    /\ Idle
    /\ Becomes(process_next(Host, t[1], t[2]))
    /\ last_time' = t[2]
    /\ UNCHANGED <<sequences, loop, is_shutdown>>

ProcessAll ==
  /\ Idle
  /\ loop' = "all"
  /\ UNCHANGED <<gate, adapter, staged, current, prepared, sequences, last_time,
                 is_shutdown, results, stops, muted>>

close_and_drain(h, now) ==
  then(then([h EXCEPT !.gate = close_admission(@)],
            LAMBDA x : discard_prepared(x, now)),
       LAMBDA x : finish_pending(x, now))

Shutdown ==
  \E t \in Reads :
    /\ Idle /\ ~is_shutdown
    /\ Becomes(then(poll(Host, t[1]), LAMBDA h : close_and_drain(h, t[2])))
    /\ loop' = "shutdown"
    /\ last_time' = t[2]
    /\ UNCHANGED <<sequences, is_shutdown>>

closed_adapter(a) ==
  [a EXCEPT !.worker_ready = FALSE, !.sink_ready = FALSE, !.retained = {},
            !.replay = FALSE, !.closed = TRUE]

\* One iteration of process_all: it ends when polling leaves nothing staged.
Iterate ==
  \E t \in Reads :
  \E p \in {poll(Host, t[1])} :
    LET ends == p.staged = <<>>
        closes == ends /\ loop = "shutdown"
    IN  /\ loop # "no"
        /\ Becomes(IF closes THEN [p EXCEPT !.adapter = closed_adapter(@)]
                   ELSE process_next(Host, t[1], t[2]))
        /\ loop' = IF ends THEN "no" ELSE loop
        /\ is_shutdown' = (is_shutdown \/ closes)
        /\ last_time' = t[2]
        /\ UNCHANGED sequences

\* The controls of the fixture: readiness, the next outcome, cancellation.
set_control(a, control, on) ==
  CASE control = "worker" -> [a EXCEPT !.worker_ready = on]
    [] control = "sink" -> [a EXCEPT !.sink_ready = on]
    [] control = "reject" -> [a EXCEPT !.reject_next = TRUE]
    [] control = "fail" -> [a EXCEPT !.fail_next = TRUE]
    [] control = "reporting" -> [a EXCEPT !.reporting = on]
    [] control = "replay" -> [a EXCEPT !.replay = on, !.retained = {}]

Configure ==
  /\ Idle
  /\ \/ \E control \in Controls, on \in BOOLEAN :
          adapter' = set_control(adapter, control, on)
     \/ \E mode \in Modes : adapter' = [adapter EXCEPT !.cancellation = mode]
  /\ UNCHANGED <<gate, staged, current, prepared, sequences, last_time, loop,
                 is_shutdown, results, stops, muted>>

Next ==
  \/ Initialize \/ WithdrawBinding \/ RebindProvider
  \/ Prepare \/ DispatchPrepared \/ RequestCancel \/ Poll
  \/ CompleteDeferred \/ ReplayRetainedResult
  \/ ProcessNext \/ ProcessAll \/ Iterate \/ Shutdown \/ Configure

Spec == Init /\ [][Next]_vars

-----------------------------------------------------------------------------
(* Properties *)

\* The sink and the gate agree: what the sink took last is what the receipt
\* says was accepted, and the sink takes nothing twice, however often the
\* result was replayed and in front of whatever it was staged.
SinkAgreesWithGate ==
  /\ \A i, j \in DOMAIN results : results[i] = results[j] => i = j
  /\ has_receipt(gate) =>
       (gate.receipt.output = "accepted"
          <=> \E i \in DOMAIN results : results[i] = gate.receipt.authority)

\* A result reaches the sink only for the operation and binding that are
\* current, before its deadline and before any revocation: the clock is read
\* and the gate asked between the callback and the sink.
DeliveredWithinAuthority ==
  [][results' # results =>
       LET authority == results'[Len(results')]
       IN  /\ authority = gate.receipt.authority /\ authority.binding = gate.binding
           /\ ~is_revoked(gate'.receipt)
           /\ ~has_reached_deadline(gate.receipt, last_time')
           /\ gate.phase \notin {"withdrawn", "preparing"}]_vars

\* No operation is lost: until the gate can release it there is a prepared
\* request, work in the adapter, or a staged callback that carries it on.  A
\* withdrawal, a deadline or a shutdown at any point moves it to another of
\* these, and the gate refuses no report the domain would then wait for.
OperationIsCarried ==
  (has_receipt(gate) /\ gate.receipt.disposition # "released") =>
    \/ prepared # {} \/ adapter.pending # {} \/ staged # <<>>
    \/ gate.receipt.authority.operation_id \in muted

\* The adapter was asked to stop exactly when the gate says so, once, and only
\* for work that was submitted: also when the deadline is found by a poll, by a
\* settlement or by the sink, or when readiness is lost.
StopsAgree ==
  /\ \A i, j \in DOMAIN stops : stops[i] = stops[j] => i = j
  /\ has_receipt(gate) =>
       (gate.receipt.stop_requested_at # {}
          <=> \E i \in DOMAIN stops : stops[i] = gate.receipt.authority)
  /\ \A w \in adapter.pending : is_revoked(gate.receipt) =>
       \E i \in DOMAIN stops : stops[i] = w.authority
=============================================================================
