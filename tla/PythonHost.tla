----------------------------- MODULE PythonHost -----------------------------
(***************************************************************************)
(* The Host of bindings/python/robot_harness/_host.py with its              *)
(* ExecutionCoordinator and its Gate: one loop that serves a client,        *)
(* listens to a worker that proposes actions, and makes the effects.        *)
(*                                                                         *)
(* A turn of the loop is a step for each thing it looks at, and the worker   *)
(* runs, answers and exits between any two of them: the loop asks three      *)
(* times in a turn whether the worker has exited.  The client is not         *)
(* modelled as a process: the loop finds any command, or the end of the      *)
(* connection.  now() is read several times by a handler and moves between   *)
(* the readings.  The pauses of the loop and the pacing of the steps are     *)
(* left out; a budget that runs (before the worker is terminated and killed, *)
(* for its readiness, to flush the reply to a close) is over at any time.    *)
(* A candidate is the number of the prediction it answers.                   *)
(*                                                                         *)
(* All records of the host come from one counter and one clock that never    *)
(* goes back, so each is later than those before it: between two steps the   *)
(* numbers and times the gate holds are aged to the earliest ones, and only  *)
(* the times that lie ahead, deadlines and validities, are kept.             *)
(***************************************************************************)
EXTENDS AuthorityGate, Calls, Sequences

CONSTANTS
  LastTime,        \* bound: the clock stops there
  Validity,        \* how long an observed capability holds (60 s)
  Renewal,         \* when it is observed again (30 s)
  MaximumRecords,  \* MAX_RECORDS
  Chunk,           \* the candidates asked of the worker at once (100)
  MaximumSteps,    \* MAX_STEPS
  Steps,           \* the steps of a request for each skill
  Deadlines,       \* the deadlines a request may carry, from its time on
  Profiles,        \* the backends the host is started with
  Faults           \* what may go wrong

Skill == {"policy", "hold"}

ASSUME PythonHostAssumption ==
  /\ 0..LastTime + Validity \subseteq Time /\ StartedAt = 0
  /\ Renewal \in 1..Validity
  /\ 1..11 \subseteq Sequence /\ 1..LastOperationId \subseteq NativeIdentity
  /\ MaximumRecords \in Nat /\ Chunk \in Nat \ {0}
  /\ MaximumSteps \in WorkUnits /\ Cardinality(Profile) = 1
  /\ Steps \in [Skill -> WorkUnits \cap 1..MaximumSteps]
  /\ Deadlines \subseteq 1..LastTime
  /\ Profiles \subseteq {"fixture", "trial", "handoff"} /\ Profiles # {}
  /\ Faults \subseteq {"crash", "stuck", "foreign", "step", "begin", "reset"}

VARIABLES
  host,      \* the members of Host, of its coordinator, gate and backend
  worker,    \* the worker process and its channels
  pc,        \* where the loop is, or how it ended
  last_time  \* the last value of now()

vars == <<host, worker, pc, last_time>>

new_backend(profile) ==
  [profile |-> profile, stage |-> "transfer_ready", skill |-> "none",
   steps |-> 0, valid |-> TRUE, closed |-> FALSE]

\* Optional numbers are 0, or sets, when there is none.
new_host(profile) ==
  [gate |-> initial_gate, sequence |-> 1, raised |-> "no",
   phase |-> "starting", worker_ready |-> FALSE, failure |-> FALSE,
   closing |-> FALSE, close_rpc |-> FALSE, peer_alive |-> TRUE,
   flush |-> "off", next_capability |-> 0,
   channel |-> TRUE, outbox |-> <<>>,
   shutdown_sent |-> FALSE, killed |-> FALSE, grace |-> "off",
   records |-> <<>>, active |-> 0,
   prediction |-> {}, asked |-> <<>>, queue |-> <<>>,
   last_action |-> 0, fixed_action |-> 0,
   backend |-> new_backend(profile)]

new_worker ==
  [state |-> "starting", failed |-> FALSE, stuck |-> FALSE, signal |-> "none",
   connected |-> TRUE, inbox |-> <<>>, replies |-> <<>>, pending |-> {}]

Init ==
  /\ host \in {new_host(p) : p \in Profiles}
  /\ worker = new_worker /\ pc = "commands" /\ last_time = StartedAt

is_reaped == worker.state = "exited"

aged(g) ==
  LET old(record) == [record EXCEPT !.observed_at = StartedAt]
      facts(fs) == {[f EXCEPT !.record = old(@)] : f \in fs}
      past(times) == {StartedAt : t \in times}
      receipt(r) ==
        [r EXCEPT !.authority.admitted_at = StartedAt,
                  !.dispatched_at = past(@), !.cancelled_at = past(@),
                  !.expired_at = past(@), !.stop_requested_at = past(@),
                  !.evidence = [k \in EvidenceKind |-> {old(x) : x \in @[k]}]]
  IN  [renumbered(g) EXCEPT !.facts = [c \in Concern |-> facts(@[c])],
                            !.capabilities = facts(@),
                            !.last_native = facts(@),
                            !.receipt = receipt(@)]

\* What the gate looks at again of an operation that is released.
closed_receipt(r) ==
  [new_receipt(r.authority, {}, {}) EXCEPT
     !.dispatch = r.dispatch, !.acceptance = r.acceptance,
     !.outcome = r.outcome, !.output = r.output, !.reason = r.reason,
     !.settlement = r.settlement, !.disposition = r.disposition]

\* What no later step looks at is forgotten: the past of a released operation,
\* what a host that closes or failed would have used for another one, and how a
\* worker that is gone was stopped.
forgotten(h) ==
  LET released == [h EXCEPT
        !.gate.receipt = IF h.active = 0 /\ has_receipt(h.gate)
                           THEN closed_receipt(@) ELSE @]
      ending == [released EXCEPT
        !.gate.capabilities = {}, !.next_capability = 0, !.asked = <<>>,
        !.last_action = 0, !.close_rpc = @ /\ h.peer_alive,
        !.backend = IF h.active = 0
                      THEN [new_backend(@.profile) EXCEPT
                              !.closed = released.backend.closed]
                      ELSE @]
      stopped(x) == [x EXCEPT !.grace = "off", !.killed = FALSE,
                              !.shutdown_sent = FALSE]
      known == IF h.closing \/ h.failure THEN ending ELSE released
  IN  IF is_reaped THEN stopped(known) ELSE known

Becomes(result) ==
  \E h \in {[result EXCEPT !.gate = aged(@), !.sequence = 1]} :
    host' = forgotten(h)

\* The n readings of now() within a handler, if it needs them.
Reads(n, is_read) ==
  {t \in [1..n -> last_time..LastTime] :
     /\ \A i, j \in 1..n : i <= j => t[i] <= t[j]
     /\ ~is_read => t[n] = last_time}

May(fault) == IF fault \in Faults THEN BOOLEAN ELSE {FALSE}

-----------------------------------------------------------------------------
(* Calls that may raise *)

\* Step is not reached after an exception that nobody catches.
unless_raised(h, Step(_)) == IF h.raised # "no" THEN h ELSE then(h, Step)

raise(h, what) == [h EXCEPT !.raised = what]

-----------------------------------------------------------------------------
(* Gate and ExecutionCoordinator *)

record(h, source, t) ==
  [source |-> source, observed_at |-> t, sequence |-> h.sequence + 1]

\* accepted: evidence the gate refuses raises.
accepted(h, is_accepted, g) ==
  IF is_accepted THEN [h EXCEPT !.sequence = @ + 1, !.gate = g]
  ELSE raise(h, "evidence")

authority(h) == h.gate.receipt.authority

profile == CHOOSE p \in Profile : TRUE

startup(h, kind, t) ==
  LET e == [concern |-> kind, binding |-> h.gate.binding, value |-> TRUE,
            record |-> record(h, observer_of(kind), t)]
  IN  accepted(h, accepts_startup(h.gate, e), observe_startup(h.gate, e))

refresh_capability(h, available, t) ==
  LET e == [binding |-> h.gate.binding,
            value |-> [profile_id |-> profile, available |-> available,
                       maximum_work_units |-> MaximumSteps],
            record |-> record(h, CapabilityObserver, t),
            valid_until |-> t + Validity]
  IN  unless_raised(accepted(h, accepts_capabilities(h.gate, e),
                             observe_execution_capabilities(h.gate, e)),
        LAMBDA x : [x EXCEPT !.next_capability = t + Renewal])

maintain_capability(h, t) ==
  IF /\ h.phase \in {"ready", "running"} /\ h.worker_ready
     /\ ~is_reaped /\ ~h.backend.closed /\ h.next_capability <= t
    THEN refresh_capability(h, TRUE, t)
    ELSE h

cancel(h, t) == [h EXCEPT !.gate = request_cancel(@, authority(h), t)]

tick(h, t) == [h EXCEPT !.gate = observe_time(@, authority(h), t)]

native(h, kind, t) ==
  LET e == [authority |-> authority(h), kind |-> kind,
            native_identity |-> authority(h).operation_id,
            record |-> record(h, NativeSource, t)]
  IN  accepted(h, accepts_native(h.gate, e), observe_native(h.gate, e))

non_submission(h, t) ==
  LET e == [authority |-> authority(h), record |-> record(h, SettlementSource, t)]
  IN  accepted(h, accepts_non_submission(h.gate, e),
                  observe_non_submission(h.gate, e))

not_delivered(h, reason, t) ==
  LET source == IF reason = "no_output" THEN SettlementSource
                ELSE ResultSinkObserver
      e == [authority |-> authority(h), reason |-> reason,
            record |-> record(h, source, t)]
  IN  accepted(h, accepts_non_delivery(h.gate, e),
                  observe_output_not_delivered(h.gate, e))

\* Mutant: the result that was staged stays when the gate refuses its delivery.
MutantRetract(h) == h

retract(h) == [h EXCEPT !.records[h.active].result = FALSE]

\* The record is the sink: a result is staged in it, and retracted when the
\* deadline passed before the gate was told.
dispose_result(h, has_candidate_result, t1, t2) ==
  LET e == [authority |-> authority(h),
            record |-> record(h, ResultSinkObserver, t1)]
      staged == [h EXCEPT !.records[h.active].result = TRUE,
                          !.sequence = @ + 1]
      refused == tick(retract(staged), t2)
  IN  IF ~has_candidate_result THEN not_delivered(h, "no_output", t1)
      ELSE IF ~can_deliver_result(h.gate, authority(h))
        THEN not_delivered(h, "authority_revoked", t1)
      ELSE IF accepts_output(h.gate, e)
        THEN [staged EXCEPT !.gate = observe_output_accepted(@, e)]
      ELSE then(refused, LAMBDA x :
             IF can_deliver_result(x.gate, authority(x))
               THEN raise(x, "evidence")
             ELSE not_delivered(x, "authority_revoked", t2))

settle(h, t) ==
  LET e == [authority |-> authority(h), permits_same_domain_admission |-> TRUE,
            record |-> record(h, SettlementSource, t)]
  IN  unless_raised(accepted(h, accepts_settlement(h.gate, e),
                                observe_settlement(h.gate, e)),
        LAMBDA x : [x EXCEPT
          !.records[h.active] =
             [@ EXCEPT !.state = "finished", !.output = x.gate.receipt.output,
                       !.disposition = x.gate.receipt.disposition]])

is_current(h) == h.gate.receipt.disposition = "current"

-----------------------------------------------------------------------------
(* The backends: the fixture's counter, a trial and the two segments of the
   handoff *)

is_handoff(b) == b.profile = "handoff"

can_start(b, skill) ==
  IF is_handoff(b)
    THEN /\ b.stage = (IF skill = "hold" THEN "hold_ready" ELSE "transfer_ready")
         /\ b.valid /\ ~b.closed
    ELSE skill = "policy"

begin_operation(b, skill) ==
  IF is_handoff(b)
    THEN [b EXCEPT !.skill = skill, !.steps = 0, !.stage = "running"] ELSE b

reset(b) ==
  [b EXCEPT !.steps = 0, !.stage = "transfer_ready", !.skill = "none",
            !.valid = TRUE]

\* completion: a trial may also end by its native conditions.
completions(b, limit) ==
  (IF b.profile = "trial" THEN {"completed", "native_failure"} ELSE {})
    \cup (IF b.steps < limit THEN {"none"}
          ELSE IF b.profile = "trial" THEN {"step_limit"} ELSE {"completed"})

\* The summary of a segment goes to the trace, which closing the backend closes.
can_finish(b) == ~(is_handoff(b) /\ b.closed)

is_continued(b, delivered) ==
  is_handoff(b) /\ delivered /\ b.skill = "policy" /\ b.valid

after_settlement(b, delivered) ==
  IF is_handoff(b)
    THEN [b EXCEPT !.stage = IF is_continued(b, delivered) THEN "hold_ready"
                             ELSE "needs_reset"]
    ELSE b

-----------------------------------------------------------------------------
(* The operation of the host *)

fail_worker(h, t) ==
  IF h.failure THEN h
  ELSE unless_raised(refresh_capability([h EXCEPT !.failure = TRUE], FALSE, t),
         LAMBDA x : [(IF x.active = 0 THEN x ELSE cancel(x, t)) EXCEPT
                       !.queue = <<>>, !.phase = "failed"])

outcome_of(reason) ==
  CASE reason = "completed" -> "succeeded"
    [] reason \in {"worker_error", "step_limit", "native_failure"} -> "failed"
    [] OTHER -> "cancelled"

release(h, reason, t) ==
  LET r == h.records[h.active]
      delivered == /\ reason = "completed" /\ r.result
                   /\ r.disposition = "released" /\ r.output = "accepted"
                   /\ ~h.failure /\ ~h.closing /\ ~is_reaped
      continues == is_continued(h.backend, delivered)
      released == [h EXCEPT
        !.backend = after_settlement(@, delivered),
        !.active = 0, !.fixed_action = 0,
        !.phase = IF h.failure THEN "failed" ELSE IF h.closing THEN "closing"
                  ELSE IF continues THEN "ready" ELSE "needs_reset"]
  IN  IF continues THEN refresh_capability(released, TRUE, t) ELSE released

\* Mutant: the capability is withdrawn of a gate that is closed, too.
MutantRefresh(h, t) == refresh_capability(h, FALSE, t)

withdraw_capability(h, t) ==
  IF h.closing THEN h ELSE refresh_capability(h, FALSE, t)

finish(h, reason, is_native, t) ==
  LET ticked == [tick(h, t[1]) EXCEPT !.queue = <<>>]
      ended(x) == IF ~can_finish(x.backend) THEN raise(x, "recording")
                  ELSE IF is_native THEN native(x, outcome_of(reason), t[2])
                  ELSE x
      disposed(x) == dispose_result(x, reason = "completed", t[2], t[3])
      settled(x) == settle(x, t[3])
      released(x) == release(x, reason, t[3])
  IN  IF h.prediction # {} THEN raise(h, "prediction")
      ELSE unless_raised(unless_raised(unless_raised(unless_raised(
             withdraw_capability(ticked, t[1]),
             ended), disposed), settled), released)

new_record(operation, skill) ==
  [state |-> "running", operation |-> operation, skill |-> skill,
   result |-> FALSE, output |-> "pending", disposition |-> "current"]

is_ready_for(h, skill) ==
  /\ h.phase = "ready" /\ ~is_reaped
  /\ can_start(h.backend, skill)
  /\ h.prediction = {} /\ h.queue = <<>>
  /\ skill = "hold" => h.last_action # 0
  /\ h.backend.profile = "handoff" => h.backend.valid

request(skill, deadline, t) ==
  [requested_at |-> t, deadline |-> {t + d : d \in deadline},
   requirements |-> {[profile_id |-> profile, work_units |-> Steps[skill]]}]

\* submit, of a request whose reference is new and that the gate admits.
start(h, skill, q, begins, t) ==
  LET operation == h.gate.next_operation_id
      admitted == [h EXCEPT
        !.gate = admit(@, q), !.phase = "running", !.active = Len(h.records) + 1,
        !.records = Append(@, new_record(operation, skill))]
      begun(x) == [x EXCEPT
        !.backend = begin_operation(@, skill),
        !.fixed_action = IF skill = "hold" THEN h.last_action ELSE 0]
      unsubmitted(x, reason) ==
        unless_raised(non_submission(x, t[2]), LAMBDA y :
          finish(y, reason, FALSE, <<t[3], t[3], t[3]>>))
      dispatched(x) ==
        IF claims_dispatch(x.gate, authority(x), t[2])
          THEN native([x EXCEPT !.gate = claim_dispatch(@, authority(x), t[2])],
                      "accepted", t[3])
          ELSE unsubmitted(x, "not_submitted")
  IN  IF begins THEN then(begun(admitted), dispatched)
      ELSE unless_raised(fail_worker(admitted, t[2]),
                         LAMBDA x : unsubmitted(x, "worker_error"))

initialize(h, t) ==
  unless_raised(unless_raised(unless_raised(unless_raised(
    startup([h EXCEPT !.worker_ready = TRUE], "idle", t),
    LAMBDA x : startup(x, "worker", t)), LAMBDA x : startup(x, "sink", t)),
    LAMBDA x : refresh_capability(x, TRUE, t)),
    LAMBDA x : [x EXCEPT !.phase = "ready"])

is_greeting(h, m) ==
  m.kind = "ready" /\ ~h.worker_ready /\ h.phase = "starting"

\* Mutant: any prediction will do.
MutantIdentity(m, p) == TRUE

matches_identity(m, p) == m.number = p.number

is_answer(h, m) ==
  /\ m.kind = "prediction"
  /\ \E p \in h.prediction : matches_identity(m, p) /\ m.count = p.count

\* The candidates are discarded when the operation lost its authority.
take_prediction(h, m) ==
  LET is_wanted == is_current(h) /\ ~h.closing /\ ~h.failure
      candidates == [i \in 1..m.count |-> m.number]
  IN  [h EXCEPT !.prediction = {},
                !.queue = IF is_wanted THEN @ \o candidates ELSE @]

lose_worker(h, t) ==
  [(IF h.closing THEN h ELSE fail_worker(h, t)) EXCEPT !.channel = FALSE]

worker_message(h, m, t) ==
  IF is_greeting(h, m) THEN initialize(h, t)
  ELSE IF is_answer(h, m) THEN take_prediction(h, m)
  ELSE lose_worker(h, t)

\* The next message is read unless the channel was given up or an exception ends
\* the loop.
hear(h, m, t) == IF h.channel /\ h.raised = "no" THEN worker_message(h, m, t) ELSE h

heard(h, messages, t) ==
  LET after[n \in 0..Len(messages)] ==
        IF n = 0 THEN h ELSE hear(after[n - 1], messages[n], t)
  IN  after[Len(messages)]

predict(h) ==
  LET limit == Steps[h.records[h.active].skill]
      left == limit - h.backend.steps
      p == [kind |-> "predict", number |-> Len(h.asked) + 1,
            count |-> IF left < Chunk THEN left ELSE Chunk]
  IN  IF h.channel
        THEN [h EXCEPT !.asked = Append(@, authority(h).operation_id),
                       !.prediction = {p}, !.outbox = Append(@, p)]
        ELSE raise(h, "channel")

\* One native step; what it returns is a reason to finish, or "none".
step(h, fails, reason, t) ==
  LET action == IF h.fixed_action # 0 THEN h.fixed_action ELSE Head(h.queue)
      popped == IF h.fixed_action # 0 THEN h ELSE [h EXCEPT !.queue = Tail(@)]
      stepped == [popped EXCEPT !.backend.steps = @ + 1, !.last_action = action]
      started == IF stepped.backend.steps = 1 THEN native(stepped, "started", t[2])
                 ELSE stepped
  IN  IF fails THEN fail_worker([popped EXCEPT !.backend.valid = FALSE], t[2])
      ELSE unless_raised(started, LAMBDA x :
             IF reason = "none" THEN x ELSE finish(x, reason, TRUE, Tail(t)))

has_authority(h, t) == is_current(tick(h, t))

advance(h, fails, reason, t) ==
  LET limit == Steps[h.records[h.active].skill]
      ticked == tick(h, t[1])
      supported == supports_execution(ticked.gate,
                     [profile_id |-> profile, work_units |-> limit], t[2])
  IN  IF h.active = 0 THEN h
      ELSE IF ~has_authority(h, t[1])
        THEN then([ticked EXCEPT !.queue = <<>>], LAMBDA x :
               IF x.prediction # {} THEN x
               ELSE finish(x, IF x.failure THEN "worker_error" ELSE "cancelled",
                           TRUE, Tail(t)))
      ELSE IF ~supported THEN [cancel(ticked, t[2]) EXCEPT !.queue = <<>>]
      ELSE IF ticked.prediction # {} THEN ticked
      ELSE IF ticked.queue = <<>> /\ ticked.fixed_action = 0 THEN predict(ticked)
      ELSE step(ticked, fails, reason, Tail(t))

begin_close(h, t) ==
  LET cancelled == IF h.active = 0 THEN h ELSE cancel(h, t)
  IN  IF h.closing THEN h
      ELSE [cancelled EXCEPT !.closing = TRUE, !.queue = <<>>,
                             !.gate = close_admission(@), !.phase = "closing"]

\* Mutant: the worker is asked to terminate, and never killed.
MutantPatient(h) ==
  IF is_reaped THEN [h EXCEPT !.prediction = {}]
  ELSE IF ~h.shutdown_sent
    THEN [h EXCEPT !.shutdown_sent = TRUE, !.grace = "running",
                   !.outbox = IF h.channel THEN Append(@, [kind |-> "close"])
                              ELSE @]
  ELSE IF h.grace = "over" THEN [h EXCEPT !.grace = "running"]
  ELSE h

stop_worker(h) ==
  IF is_reaped THEN [h EXCEPT !.prediction = {}]
  ELSE IF ~h.shutdown_sent
    THEN [h EXCEPT !.shutdown_sent = TRUE, !.grace = "running",
                   !.outbox = IF h.channel THEN Append(@, [kind |-> "close"])
                              ELSE @]
  ELSE IF h.grace = "over" THEN [h EXCEPT !.killed = TRUE, !.grace = "running"]
  ELSE h

-----------------------------------------------------------------------------
(* A turn of the loop *)

\* An exception ends the loop.
Turns(result, following) ==
  /\ Becomes(result)
  /\ pc' = IF host'.raised # "no" THEN "raised" ELSE following

Serves == pc = "commands" /\ host.peer_alive

\* The connection ends, or a message on it is malformed.
LosePeer ==
  /\ Serves /\ UNCHANGED worker
  /\ \E t \in Reads(1, TRUE) :
       /\ last_time' = t[1]
       /\ Turns(begin_close([host EXCEPT !.peer_alive = FALSE], t[1]),
                "commands")

\* A request that is refused is answered and remembered, and changes nothing.
Submit ==
  /\ Serves /\ Len(host.records) < MaximumRecords /\ UNCHANGED worker
  /\ \E t \in Reads(3, TRUE), skill \in Skill, deadline \in Optional(Deadlines),
        fails \in May("begin") :
       LET q == request(skill, deadline, t[1])
       IN  /\ is_ready_for(host, skill) /\ admits(host.gate, q)
           /\ last_time' = t[3]
           /\ Turns(start(host, skill, q, ~fails, t), "commands")

Cancel ==
  /\ Serves /\ host.active # 0 /\ UNCHANGED worker
  /\ \E t \in Reads(1, TRUE) :
       /\ last_time' = t[1]
       /\ Turns([cancel(host, t[1]) EXCEPT !.queue = <<>>], "commands")

Reset ==
  /\ Serves /\ host.phase = "needs_reset" /\ host.active = 0
  /\ UNCHANGED worker
  /\ \E t \in Reads(1, TRUE), fails \in May("reset") :
       LET ready == [host EXCEPT !.backend = reset(@), !.last_action = 0,
                                 !.fixed_action = 0, !.phase = "ready"]
       IN  /\ last_time' = t[1]
           /\ Turns(IF fails THEN fail_worker(host, t[1])
                    ELSE refresh_capability(ready, TRUE, t[1]),
                    "commands")

Close ==
  /\ Serves /\ UNCHANGED worker
  /\ \E t \in Reads(1, TRUE) :
       /\ last_time' = t[1]
       /\ Turns(begin_close([host EXCEPT !.close_rpc = TRUE], t[1]), "commands")

Commands == Submit \/ Cancel \/ Reset \/ Close \/ LosePeer

\* pump of the worker's channel: what waits there is read, or the end of it.
ReadReplies ==
  LET is_broken == /\ ~worker.connected
                   /\ host.outbox # <<>> \/ worker.replies = <<>>
      is_read == host.channel /\ ~is_broken
  IN  /\ pc = "commands"
      /\ worker' =
           IF is_read
             THEN [worker EXCEPT
                     !.inbox = IF worker.connected THEN @ \o host.outbox ELSE @,
                     !.replies = <<>>]
             ELSE worker
      /\ \E t \in Reads(1, host.channel) :
           /\ last_time' = t[1]
           /\ Turns(IF is_read
                      THEN heard([host EXCEPT !.outbox = <<>>], worker.replies, t[1])
                    ELSE IF host.channel THEN lose_worker(host, t[1])
                    ELSE host,
                    "watch")

\* The worker is polled twice; an exit in between is seen by the second poll
\* and does what it would have done at the first.
Watch ==
  LET lost(t) == IF host.closing THEN host ELSE fail_worker(host, t)
      polled(t) == IF ~is_reaped THEN host
                   ELSE unless_raised(lost(t),
                          LAMBDA x : [x EXCEPT !.prediction = {}])
      stops == host.failure \/ host.closing
      stopped(t) == IF stops THEN stop_worker(polled(t)) ELSE polled(t)
      signals == stops /\ ~is_reaped /\ host.shutdown_sent /\ host.grace = "over"
  IN  /\ pc = "watch"
      /\ worker' =
           IF signals
             THEN [worker EXCEPT !.signal = IF host.killed THEN "kill" ELSE "term"]
             ELSE worker
      /\ \E t \in Reads(1, is_reaped \/ host.phase = "starting"),
            is_late \in BOOLEAN :
           /\ is_late => host.phase = "starting"
           /\ last_time' = t[1]
           /\ Turns(IF is_late THEN fail_worker(stopped(t[1]), t[1])
                    ELSE stopped(t[1]),
                    "advance")

Advance ==
  LET limit == IF host.active = 0 THEN 1
               ELSE Steps[host.records[host.active].skill]
      stepped == [host.backend EXCEPT !.steps = @ + 1]
  IN  /\ pc = "advance" /\ UNCHANGED worker
      /\ \E t \in Reads(5, host.active # 0), fails \in May("step"),
            reason \in completions(stepped, limit) :
           /\ last_time' = t[5]
           /\ Turns(advance(host, fails, reason, t), "close")

\* The worker may be found to have exited here and not when Watch looked.  The
\* next turn begins with the upkeep of the capability.
EndTurn ==
  LET is_closed == host.closing /\ is_reaped
      answers == host.peer_alive /\ host.close_rpc
      ended == IF is_closed
                 THEN [host EXCEPT
                         !.backend.closed = TRUE, !.close_rpc = @ /\ ~answers,
                         !.flush = IF @ = "off" THEN "running" ELSE @]
                 ELSE host
  IN  /\ pc = "close" /\ UNCHANGED worker
      /\ \E t \in Reads(1, host.phase \in {"ready", "running"}),
            is_flushed \in BOOLEAN :
           /\ is_flushed => is_closed /\ ~answers
           /\ last_time' = t[1]
           /\ Turns(maintain_capability(ended, t[1]),
                    IF is_closed /\ (\/ ~host.peer_alive \/ is_flushed
                                     \/ host.flush = "over")
                      THEN "returned" ELSE "commands")

\* What the loop does of itself.
Loop == ReadReplies \/ Watch \/ Advance \/ EndTurn

\* The budgets of the loop run out.
GraceEnds ==
  /\ host.grace = "running" /\ host' = [host EXCEPT !.grace = "over"]
  /\ UNCHANGED <<worker, pc, last_time>>

FlushEnds ==
  /\ host.flush = "running" /\ host' = [host EXCEPT !.flush = "over"]
  /\ UNCHANGED <<worker, pc, last_time>>

-----------------------------------------------------------------------------
(* The worker *)

is_over == pc \in {"returned", "raised"}

left(w) == [w EXCEPT !.state = "leaving", !.connected = FALSE,
                     !.inbox = <<>>, !.pending = {}]

gone(w) == [left(w) EXCEPT !.state = "exited", !.failed = TRUE,
                           !.signal = "none", !.stuck = FALSE]

WorkerRuns == worker.state = "running" /\ ~worker.stuck

Greet ==
  /\ worker.state = "starting" /\ ~worker.stuck
  /\ worker' = [worker EXCEPT !.state = "running",
                              !.replies = Append(@, [kind |-> "ready"])]
  /\ UNCHANGED <<host, pc, last_time>>

Receive ==
  /\ WorkerRuns /\ worker.inbox # <<>>
  /\ LET m == Head(worker.inbox)
     IN  worker' = IF m.kind = "close" \/ worker.pending # {} THEN left(worker)
                   ELSE [worker EXCEPT !.inbox = Tail(@), !.pending = {m}]
  /\ UNCHANGED <<host, pc, last_time>>

reply(number, count) ==
  [kind |-> "prediction", number |-> number, count |-> count]

Answer ==
  /\ WorkerRuns
  /\ \E m \in worker.pending :
       worker' = [worker EXCEPT !.pending = {},
                                !.replies = Append(@, reply(m.number, m.count))]
  /\ UNCHANGED <<host, pc, last_time>>

\* The worker sees the end of the channel.
Leave ==
  /\ WorkerRuns /\ ~host.channel
  /\ worker' = left(worker)
  /\ UNCHANGED <<host, pc, last_time>>

ExitWorker ==
  /\ \/ worker.state = "leaving"
     \/ worker.state # "exited" /\ worker.signal = "kill"
     \/ worker.state # "exited" /\ worker.signal = "term" /\ ~worker.stuck
  /\ worker' = gone(worker)
  /\ UNCHANGED <<host, pc, last_time>>

\* Another program in its place repeats an answer, or gives one that does not
\* fit; bound: one fault of the worker, an answer while nothing waits to be read.
foreign ==
  {[kind |-> "ready"]} \cup
  {reply(n, c) : n \in DOMAIN host.asked, c \in {1, Chunk}}

Misbehave ==
  /\ ~worker.failed
  /\ \/ /\ "crash" \in Faults /\ worker.state # "exited"
        /\ worker' = gone(worker)
     \/ /\ "stuck" \in Faults /\ worker.state \in {"starting", "running"}
        /\ worker' = [worker EXCEPT !.failed = TRUE, !.stuck = TRUE]
     \/ /\ "foreign" \in Faults /\ WorkerRuns /\ worker.replies = <<>>
        /\ ~host.closing /\ ~host.failure
        /\ \E m \in foreign :
             worker' = [worker EXCEPT !.failed = TRUE, !.replies = <<m>>]
  /\ UNCHANGED <<host, pc, last_time>>

\* The model ends with the loop: what it leaves is closed and killed then.
Worker ==
  /\ pc \notin {"returned", "raised"}
  /\ Greet \/ Receive \/ Answer \/ Leave \/ ExitWorker \/ Misbehave

Next == Commands \/ Loop \/ GraceEnds \/ FlushEnds \/ Worker

Spec == Init /\ [][Next]_vars

\* The loop reaches its next place: until it is over a step of Loop is enabled,
\* and only those, and exceptions, move pc.
Proceeds ==
  /\ ~is_over
  /\ pc' \in {"commands", "watch", "advance", "close", "returned", "raised"}

\* The loop runs, budgets run out, and a worker that closed its channel or got a
\* signal it cannot ignore ends.  The worker need not answer.
Fairness ==
  /\ WF_pc(Proceeds) /\ WF_vars(ExitWorker)
  /\ WF_host(GraceEnds) /\ WF_host(FlushEnds)

FairSpec == Spec /\ Fairness

-----------------------------------------------------------------------------
(* Properties *)

\* An effect is made only while the operation has its authority and its
\* deadline has not passed, with a candidate the worker gave for the last thing
\* it was asked, on behalf of this operation; or, for a hold, with the last
\* candidate of a transfer whose result was delivered.  Late, repeated and
\* foreign answers of the worker never reach the backend.
EffectsAreAuthorized ==
  [][host'.backend.steps = host.backend.steps + 1 =>
       LET action == host'.last_action
           operation == host.gate.receipt.authority.operation_id
       IN  /\ host.active # 0 /\ ~is_revoked(host.gate.receipt)
           /\ ~has_reached_deadline(host.gate.receipt, last_time)
           /\ ~host.closing /\ ~host.failure
           /\ IF host.fixed_action = 0
                THEN action = Len(host.asked) /\ host.asked[action] = operation
                ELSE \E i \in DOMAIN host.records :
                       /\ host.records[i].operation = host.asked[action]
                       /\ host.records[i].operation = operation - 1
                       /\ host.records[i].result
                       /\ host.records[i].output = "accepted"]_vars

\* A record that is finished has a result exactly when the gate knows it as
\* delivered, and its operation is released: also when the deadline passes
\* between the question to the gate and the report of the delivery.
RecordsAreTrue ==
  \A i \in DOMAIN host.records :
    LET r == host.records[i]
    IN  IF r.state = "running" THEN host.active = i \/ is_over
        ELSE /\ r.disposition = "released"
             /\ r.result <=> r.output = "accepted"

\* The loop ends in order: the worker is reaped and nothing is left running,
\* unless the client is gone, too.  Every report to the gate is accepted and no
\* operation is settled while the worker may still answer.
EndsInOrder ==
  /\ pc = "returned" => /\ is_reaped /\ host.backend.closed
                        /\ host.active = 0 \/ ~host.peer_alive
  /\ host.raised \in {"no", "recording"}

\* A close, or the loss of the client, ends the host, whatever the worker does.
CloseEnds == host.closing ~> is_over
=============================================================================
