----------------------------- MODULE ComputeHost -----------------------------
(***************************************************************************)
(* ComputeExecutionHost of src/compute/compute_execution.cpp: an            *)
(* AuthorityGate over one ComputeProcess at a time.                          *)
(*                                                                         *)
(* Every public call is an action; poll is two, because the worker runs on   *)
(* between reading its frames and waiting for its exit.  The clock moves     *)
(* between the calls and between two readings within one.  The authority the *)
(* host keeps is the one of the gate's receipt.  All records of the host are *)
(* numbered by one counter, and a number only matters where it is compared   *)
(* with that of a record the gate still holds: at the end of a call the      *)
(* records it holds are renumbered to 1, and the next call counts from 2.    *)
(***************************************************************************)
EXTENDS AuthorityGate, ComputeProcess, Calls

CONSTANTS
  LastTime,     \* bound: the clock stops there
  Validity,     \* the lifetime of an observation (1000 ms)
  Deadlines,    \* the deadlines a request may carry
  Requirement,  \* required_profile_id and iterations of the requests
  Faults        \* the system faults that may happen

ASSUME ComputeHostAssumption ==
  /\ LastTime \in Nat /\ Validity \in Nat \ {0}
  /\ 0..LastTime + Validity \subseteq Time /\ StartedAt = 0
  /\ 1..11 \subseteq Sequence
  /\ 1..LastOperationId \subseteq NativeIdentity
  /\ Deadlines \subseteq Time /\ Requirement \in Requirements
  /\ {BindingObserver, WorkerObserver, SettlementSource} = {CapabilityObserver}
  /\ Faults \subseteq {"spawn", "executable", "crash", "steal", "read", "close"}

\* What the constructor refuses: kObserver has a name, and maximum_iterations is not 0.
ASSUME ComputeConfigAssumption ==
  CapabilityObserver # "" /\ Requirement.work_units # 0

VARIABLES
  gate,         \* AuthorityGate
  process,      \* ComputeProcess
  child,        \* the worker and its channels
  host,         \* the other members of Implementation
  now,          \* steady_clock
  launchable,   \* can_launch(config.worker_executable)
  is_polling    \* poll has read the frames and not yet waited for the exit

vars == <<gate, process, child, host, now, launchable, is_polling>>

new_host ==
  [has_process |-> FALSE, result |-> FALSE, initialized |-> FALSE,
   stop_reported |-> FALSE, outcome_reported |-> FALSE,
   evidence_error |-> FALSE, shutdown |-> "open"]

Init ==
  /\ gate = initial_gate /\ process = new_process /\ child = no_child
  /\ host = new_host /\ now = StartedAt
  /\ launchable \in {TRUE, "executable" \notin Faults} /\ is_polling = FALSE

\* The part of the state a call passes from one of its steps to the next.
Host == [gate |-> gate, process |-> process, child |-> child, host |-> host,
         sequence |-> 1]

Becomes(result) == \E h \in {result} :
  /\ gate' = renumbered(h.gate)
  /\ process' = h.process /\ child' = h.child /\ host' = h.host

May(fault) == IF fault \in Faults THEN BOOLEAN ELSE {FALSE}

-----------------------------------------------------------------------------
(* Reports to the gate *)

record(h, source, t) ==
  [source |-> source, observed_at |-> t, sequence |-> h.sequence + 1]

\* accept: a report the gate refuses is an error the host never forgets.
accept(h, accepted, g) ==
  [h EXCEPT !.sequence = @ + 1, !.gate = g,
            !.host.evidence_error = @ \/ ~accepted]

authority(h) == h.gate.receipt.authority

native(h, kind, t) ==
  LET e == [authority |-> authority(h), kind |-> kind,
            native_identity |-> authority(h).operation_id,
            record |-> record(h, NativeSource, t)]
  IN  accept(h, accepts_native(h.gate, e), observe_native(h.gate, e))

not_delivered(h, reason, t) ==
  LET source == IF reason = "no_output" THEN SettlementSource
                ELSE ResultSinkObserver
      e == [authority |-> authority(h), reason |-> reason,
            record |-> record(h, source, t)]
  IN  accept(h, accepts_non_delivery(h.gate, e),
             observe_output_not_delivered(h.gate, e))

settle(h, t) ==
  LET e == [authority |-> authority(h), permits_same_domain_admission |-> TRUE,
            record |-> record(h, SettlementSource, t)]
  IN  accept(h, accepts_settlement(h.gate, e), observe_settlement(h.gate, e))

not_submitted(h, t) ==
  LET e == [authority |-> authority(h), record |-> record(h, SettlementSource, t)]
  IN  accept(h, accepts_non_submission(h.gate, e), observe_non_submission(h.gate, e))

settle_unsubmitted(h, t, cleanup_confirmed) ==
  then(then(not_submitted(h, t), LAMBDA x : not_delivered(x, "no_output", t)),
       LAMBDA x : IF cleanup_confirmed THEN settle(x, t)
                  ELSE [x EXCEPT !.host.evidence_error = TRUE])

is_undispatched(h) == has_receipt(h.gate) /\ h.gate.receipt.dispatch = "pending"

-----------------------------------------------------------------------------
(* Controls: each one stops the process it finds running *)

apply_stop(h, stop, t) ==
  IF stop /\ h.process.launched THEN request_stop(h, t) ELSE h

withdraw_host_binding(h, expected, t) ==
  LET stop == /\ withdraws_current(h.gate)
              /\ should_request_native_stop(h.gate.receipt)
      withdrawn == [h EXCEPT !.gate = withdraw_binding(@, expected, t)]
  IN  IF ~withdraws_binding(h.gate, expected, t) THEN h
      ELSE then(then(withdrawn, LAMBDA x : apply_stop(x, stop, t)),
                LAMBDA x : IF is_undispatched(x) THEN settle_unsubmitted(x, t, TRUE)
                           ELSE x)

expire(h, t) ==
  IF has_receipt(h.gate) /\ applies_expiry(h.gate, authority(h), t)
    THEN then([h EXCEPT !.gate = observe_time(@, authority(h), t)],
              LAMBDA x : apply_stop(x, should_request_native_stop(h.gate.receipt), t))
    ELSE h

cancel(h, t) ==
  LET stop == should_request_native_stop(h.gate.receipt)
      cancelled == [h EXCEPT !.gate = request_cancel(@, authority(h), t)]
  IN  IF ~applies_cancel(h.gate, authority(h), t) THEN h
      ELSE then(then(cancelled, LAMBDA x : apply_stop(x, stop, t)),
                LAMBDA x : IF is_undispatched(x) THEN settle_unsubmitted(x, t, TRUE)
                           ELSE x)

observe_capabilities(h, t) ==
  LET e == [binding |-> h.gate.binding,
            value |-> [profile_id |-> Requirement.profile_id,
                       maximum_work_units |-> Requirement.work_units,
                       available |-> launchable],
            record |-> record(h, CapabilityObserver, t),
            valid_until |-> t + Validity]
  IN  IF h.gate.phase # "active" THEN h
      ELSE then(accept(h, accepts_capabilities(h.gate, e),
                       observe_execution_capabilities(h.gate, e)),
                LAMBDA x : IF x.host.initialized /\ ~launchable
                             THEN withdraw_host_binding(x, x.gate.binding, t)
                             ELSE x)

-----------------------------------------------------------------------------
(* Observing the process *)

observe_process_events(h, t) ==
  LET p == h.process
      answer == IF ~p.stop_delivered THEN "unavailable"
                ELSE IF p.stop_ignored THEN "refused" ELSE "acknowledged"
      answered == /\ ~h.host.stop_reported /\ stop_requested(p)
                  /\ ~p.stop_delivered \/ p.stop_acknowledged \/ p.stop_ignored
      e(x) == [authority |-> authority(x), acknowledgement |-> answer,
               record |-> record(x, StopSource, t)]
  IN  then(IF p.started /\ h.gate.receipt.evidence["started"] = {}
             THEN native(h, "started", t) ELSE h,
           LAMBDA x : IF ~answered THEN x
             ELSE [accept(x, accepts_stop_acknowledgement(x.gate, e(x)),
                          observe_stop_acknowledgement(x.gate, e(x)))
                     EXCEPT !.host.stop_reported = TRUE])

outcome(p) ==
  LET valid == ~p.malformed /\ ~p.io_error
  IN  IF /\ valid /\ p.exit_status = {"completed"}
         /\ p.terminal = "completed" /\ p.terminal_iterations = Batches
        THEN "succeeded"
      ELSE IF /\ valid /\ p.exit_status = {"cancelled"} /\ stop_requested(p)
              /\ p.terminal = "cancelled" /\ p.terminal_iterations < Batches
        THEN "cancelled"
      ELSE "failed"

\* Mutant: the gate is not asked again when the result is stored.
MutantUnasked(h, t) ==
  LET e == [authority |-> authority(h), record |-> record(h, ResultSinkObserver, t)]
  IN  [accept(h, accepts_output(h.gate, e), observe_output_accepted(h.gate, e))
         EXCEPT !.host.result = TRUE]

\* Mutant: the deadline is not looked at again before the result is stored.
MutantUntimed(h, t) ==
  LET e == [authority |-> authority(h), record |-> record(h, ResultSinkObserver, t)]
  IN  IF ~h.host.evidence_error /\ can_deliver_result(h.gate, authority(h))
        THEN [accept(h, accepts_output(h.gate, e), observe_output_accepted(h.gate, e))
                EXCEPT !.host.result = TRUE]
        ELSE not_delivered(h, "authority_revoked", t)

deliver(h, t) ==
  LET e(x) == [authority |-> authority(x), record |-> record(x, ResultSinkObserver, t)]
  IN  then(expire(h, t), LAMBDA x :
        IF ~x.host.evidence_error /\ can_deliver_result(x.gate, authority(x))
          THEN [accept(x, accepts_output(x.gate, e(x)),
                       observe_output_accepted(x.gate, e(x)))
                  EXCEPT !.host.result = TRUE]
          ELSE not_delivered(x, "authority_revoked", t))

\* The outcome is observed at t, the result delivered at the later time u.
report_outcome(h, t, u) ==
  then(then(expire(h, t), LAMBDA x : native(x, outcome(x.process), t)), LAMBDA x :
    [(IF outcome(x.process) = "succeeded" THEN deliver(x, u)
      ELSE not_delivered(x, "no_output", t)) EXCEPT !.host.outcome_reported = TRUE])

\* Mutant: the operation is settled when its outcome is known.
MutantEarlySettlement(h, u, fails) ==
  then(close_channels(h, fails), LAMBDA x :
    IF ~x.host.evidence_error /\ x.gate.receipt.settlement = "pending"
      THEN settle(x, u) ELSE x)

close_and_settle(h, u, fails) ==
  then(close_channels(h, fails), LAMBDA x :
    IF /\ x.process.channels_closed
       /\ ~x.host.evidence_error /\ x.gate.receipt.settlement = "pending"
      THEN settle(x, u) ELSE x)

finish(h, t, u, fails) ==
  LET p == h.process
  IN  IF p.exit_status = {} \/ ~p.event_eof \/ p.ownership_lost THEN h
      ELSE then(IF h.host.outcome_reported THEN h ELSE report_outcome(h, t, u),
                LAMBDA x : close_and_settle(x, u, fails))

\* Mutant: shutdown waits for a settlement that is withheld.
MutantShutdownWaits(h) ==
  LET p == h.process
      settled == has_receipt(h.gate) => h.gate.receipt.settlement = "settled"
      owned_clear == ~p.launched \/ p.channels_closed
  IN  IF h.host.shutdown # "open" /\ settled /\ owned_clear
        THEN [h EXCEPT !.host.shutdown = "closed"]
        ELSE h

update_shutdown_status(h) ==
  LET p == h.process
      settled == has_receipt(h.gate) => h.gate.receipt.settlement = "settled"
      owned_clear == ~p.launched \/ p.channels_closed
      unresolved == \/ h.host.evidence_error \/ p.ownership_lost
                    \/ ~owned_clear /\ (p.io_error \/ p.termination_error)
  IN  IF h.host.shutdown = "open" THEN h
      ELSE IF unresolved THEN [h EXCEPT !.host.shutdown = "unresolved"]
      ELSE IF settled /\ owned_clear THEN [h EXCEPT !.host.shutdown = "closed"]
      ELSE h

-----------------------------------------------------------------------------
(* The public calls.  The clock may be read again within one. *)

Idle == ~is_polling

Later == now..LastTime

Initialize ==
  LET startup(h, c, value) ==
        LET e == [concern |-> c, binding |-> h.gate.binding, value |-> value,
                  record |-> record(h, observer_of(c), now)]
        IN  accept(h, accepts_startup(h.gate, e), observe_startup(h.gate, e))
      started(h) ==
        then(then(startup(h, "idle", TRUE), LAMBDA x : startup(x, "worker", launchable)),
             LAMBDA x : startup(x, "sink", TRUE))
  IN  /\ Idle /\ host.shutdown = "open" /\ gate.phase = "active"
      /\ Becomes(then(observe_capabilities(Host, now), LAMBDA h :
           IF host.initialized THEN h
           ELSE then(started(h), LAMBDA x :
                  [x EXCEPT !.host.initialized = launchable /\ ~x.host.evidence_error])))
      /\ UNCHANGED <<now, launchable, is_polling>>

WithdrawBinding ==
  /\ Idle
  /\ Becomes(withdraw_host_binding(Host, gate.binding, now))
  /\ UNCHANGED <<now, launchable, is_polling>>

old_scope_is_clear(h) ==
  LET p == h.process
  IN  /\ ~h.host.evidence_error
      /\ has_receipt(h.gate) => h.gate.receipt.disposition = "released"
      /\ h.host.has_process =>
           /\ ~p.ownership_lost
           /\ IF p.launched THEN p.exit_status # {} /\ p.event_eof /\ p.channels_closed
              ELSE ~p.io_error

RebindProvider ==
  \E provider \in Provider, ready \in {TRUE, "executable" \notin Faults}, t \in Later :
    LET old == [binding |-> gate.binding, valid_until |-> now + Validity,
                record |-> record(Host, BindingObserver, now)]
        begun == begin_rebind(gate, gate.binding, provider, old, now)
        candidate == begun.candidate.binding
        slot(c, n, value) ==
          [concern |-> c, binding |-> candidate, value |-> value,
           record |-> [source |-> observer_of(c), observed_at |-> t, sequence |-> n],
           valid_until |-> t + Validity]
        capabilities ==
          [binding |-> candidate,
           value |-> [profile_id |-> Requirement.profile_id, available |-> ready,
                      maximum_work_units |-> Requirement.work_units],
           record |-> [source |-> CapabilityObserver, observed_at |-> t, sequence |-> 6],
           valid_until |-> t + Validity]
        observed == observe_execution_capabilities(observe_rebind_readiness(
          observe_rebind_readiness(observe_rebind_readiness(begun,
            slot("idle", 3, TRUE)), slot("worker", 4, ready)), slot("sink", 5, TRUE)),
          capabilities)
    IN  /\ Idle /\ host.shutdown = "open" /\ gate.phase = "withdrawn"
        /\ old_scope_is_clear(Host)
        /\ begins_rebind(gate, gate.binding, old, now)
        /\ \E g \in {observed} :
             IF commits_rebind(g, candidate, t)
               THEN /\ gate' = renumbered(commit_rebind(g, candidate, t))
                    /\ host' = [host EXCEPT !.initialized = TRUE]
                    /\ launchable' = ready
               ELSE /\ gate' = renumbered(withdraw_binding(g, candidate, t))
                    /\ UNCHANGED <<host, launchable>>
        /\ now' = t
        /\ UNCHANGED <<process, child, is_polling>>

Prepare ==
  \E t \in Later, d \in Optional(Deadlines) :
  \E h \in {observe_capabilities(Host, now)} :
    LET q == [requested_at |-> t, deadline |-> d, requirements |-> {Requirement}]
    IN  /\ Idle /\ ~host.evidence_error /\ host.shutdown = "open"
        /\ Becomes(IF ~admits(h.gate, q) THEN h
             ELSE [h EXCEPT !.gate = admit(@, q),
                            !.process = new_process, !.child = no_child,
                            !.host = [@ EXCEPT !.has_process = FALSE,
                                               !.result = FALSE,
                                               !.stop_reported = FALSE,
                                               !.outcome_reported = FALSE]])
        /\ now' = t
        /\ UNCHANGED <<launchable, is_polling>>

\* claim_dispatch allows the launch, which may fail, cleanly or not.
dispatched(h, t, spawned, unclean) ==
  then([h EXCEPT !.gate = claim_dispatch(@, authority(h), t),
                 !.host.has_process = TRUE], LAMBDA x :
    then(launch(x, spawned, unclean), LAMBDA y :
      IF y.process.launched THEN native(y, "accepted", t)
      ELSE settle_unsubmitted(y, t, ~y.process.io_error)))

DispatchPrepared ==
  \E t \in Later, fails \in May("spawn"), unclean \in May("close") :
  \E h \in {observe_capabilities(Host, now)} :
    /\ Idle /\ has_receipt(gate) /\ ~host.has_process
    /\ Becomes(IF ~is_undispatched(h) THEN h
         ELSE then(expire(h, t), LAMBDA x :
                IF x.host.evidence_error \/ ~claims_dispatch(x.gate, authority(x), t)
                  THEN settle_unsubmitted(x, t, TRUE)
                  ELSE dispatched(x, t, ~fails, unclean)))
    /\ now' = t
    /\ UNCHANGED <<launchable, is_polling>>

RequestCancel ==
  /\ Idle /\ has_receipt(gate)
  /\ Becomes(cancel(Host, now))
  /\ UNCHANGED <<now, launchable, is_polling>>

observes(h) == h.process.launched /\ ~h.process.channels_closed

unsupported(h, t) ==
  /\ h.host.shutdown = "open" /\ h.gate.phase = "active"
  /\ ~supports_execution(h.gate, Requirement, t)

poll_begun(h, t, fails) ==
  LET checked == IF h.host.shutdown = "open" /\ h.host.initialized
                   THEN observe_capabilities(h, t) ELSE h
      settled(x) == IF /\ ~x.host.has_process /\ is_undispatched(x)
                       /\ x.gate.receipt.disposition = "revoked"
                      THEN settle_unsubmitted(x, t, TRUE) ELSE x
      supported(x) == IF unsupported(x, t)
                        THEN withdraw_host_binding(x, x.gate.binding, t) ELSE x
  IN  then(then(then(checked, LAMBDA x : expire(x, t)), LAMBDA x : settled(x)),
           LAMBDA x : IF observes(x)
                        THEN then(supported(x), LAMBDA y : begin_poll(y, fails))
                        ELSE x)

poll_finished(h, t, u, fails) ==
  LET broken(x) == x.process.malformed \/ x.process.io_error \/ x.process.ownership_lost
  IN  then(IF ~observes(h) THEN h
           ELSE then(then(then(finish_poll(h, t, FALSE),
                  LAMBDA x : IF broken(x) THEN cancel(x, t) ELSE x),
                  LAMBDA x : observe_process_events(x, t)),
                  LAMBDA x : finish(x, t, u, fails)),
           LAMBDA x : update_shutdown_status(x))

Poll ==
  /\ Idle /\ host.shutdown # "closed"
  /\ \E fails \in May("read") : Becomes(poll_begun(Host, now, fails))
  /\ is_polling' = TRUE
  /\ UNCHANGED <<now, launchable>>

FinishPoll ==
  \E u \in Later, fails \in May("close") :
    /\ is_polling
    /\ Becomes(poll_finished(Host, now, u, fails))
    /\ is_polling' = FALSE
    /\ now' = u
    /\ UNCHANGED launchable

BeginShutdown ==
  LET closing == [Host EXCEPT !.gate = close_admission(@), !.host.shutdown = "closing"]
  IN  /\ Idle /\ host.shutdown = "open"
      /\ \E fails \in May("read") :
           Becomes(then(IF has_receipt(gate) THEN cancel(closing, now) ELSE closing,
                        LAMBDA h : poll_begun(h, now, fails)))
      /\ is_polling' = TRUE
      /\ UNCHANGED <<now, launchable>>

-----------------------------------------------------------------------------
(* The system around the host *)

Work ==
  /\ child.status = "alive"
  /\ child' \in worker_steps(child)
  /\ UNCHANGED <<gate, process, host, now, launchable, is_polling>>

Die ==
  /\ child.status = "alive" /\ (child.killed \/ "crash" \in Faults)
  /\ child' = exited(child, "killed")
  /\ UNCHANGED <<gate, process, host, now, launchable, is_polling>>

Steal ==
  /\ child.status = "exited" /\ "steal" \in Faults
  /\ child' = [child EXCEPT !.status = "stolen"]
  /\ UNCHANGED <<gate, process, host, now, launchable, is_polling>>

Executable ==
  /\ "executable" \in Faults
  /\ launchable' = ~launchable
  /\ UNCHANGED <<gate, process, child, host, now, is_polling>>

Tick ==
  /\ now < LastTime
  /\ now' = now + 1
  /\ UNCHANGED <<gate, process, child, host, launchable, is_polling>>

Next ==
  \/ Initialize \/ WithdrawBinding \/ RebindProvider \/ Prepare
  \/ DispatchPrepared \/ RequestCancel \/ Poll \/ FinishPoll \/ BeginShutdown
  \/ Work \/ Die \/ Steal \/ Executable \/ Tick

\* A host that is shut down is polled until it says how that ended; the worker
\* runs, and the kernel delivers SIGKILL.
Fairness ==
  /\ WF_vars(host.shutdown # "open" /\ Poll) /\ WF_vars(FinishPoll)
  /\ WF_vars(Work) /\ WF_vars(child.killed /\ Die) /\ WF_vars(Tick)

Spec == Init /\ [][Next]_vars /\ Fairness

-----------------------------------------------------------------------------
(* Properties *)

\* An operation is settled only when nothing of it is left: the child was waited
\* for, its frames were read to their end and the channels are closed, or there
\* never was a child; and its outcome is the way the child ended.
SettledIsClosed ==
  LET r == gate.receipt
  IN  (has_receipt(gate) /\ r.settlement = "settled" /\ gate.binding = r.authority.binding) =>
        /\ IF r.dispatch = "submitted"
             THEN child.status = "reaped" /\ child.pipe = <<>> /\ process.channels_closed
             ELSE child.status = "absent"
        /\ r.outcome = "succeeded" => child.exit = {"completed"}
        /\ r.outcome = "cancelled" => child.exit = {"cancelled"}

\* The gate refuses no report of the host, in whatever order frames, the exit,
\* deadlines, cancellation, withdrawal and shutdown come: the only error is a
\* launch whose own cleanup failed.  Then the settlement is withheld for good.
ReportsAreAccepted ==
  /\ host.evidence_error => process.channel_cleanup_unknown /\ ~process.launched
  /\ host.evidence_error => gate.receipt.settlement = "pending"

\* The host implements the abstract domain with the result it has stored.
Domain == INSTANCE OperationDomain WITH
  owner <- gate.receipt.authority.operation_id,
  state <- domain_state(gate),
  revoked <- is_revoked(gate.receipt),
  delivered <- host.result

ImplementsDomain == Domain!Spec

\* A shutdown ends: with everything closed, or with the answer that it is not.
ShutdownEnds == (host.shutdown # "open") ~> (host.shutdown \in {"closed", "unresolved"})
=============================================================================
