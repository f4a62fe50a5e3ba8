-------------------------- MODULE NavigationHandoff --------------------------
(***************************************************************************)
(* The navigation owner of navigation_observation.cpp, built with            *)
(* settlement: operation A is dispatched to a native stack, ends or is       *)
(* cancelled, its native work is shown closed (NativeClosure) and the robot  *)
(* at rest, and only then is A settled and operation B admitted and          *)
(* dispatched on a context of its own.                                       *)
(*                                                                         *)
(* The program is one thread.  pc is the wait it is in, during which its     *)
(* callbacks run one at a time; what it does between two waits is one step.  *)
(* GiveUp is a wait that ends by its timeout.  The native stack, the drive,  *)
(* the robot and the publishers are world.  Everything the gate is told      *)
(* happens at time 0, except that a dispatch may come when the capability    *)
(* has expired: the times of evidence are the subject of GateSystem.         *)
(***************************************************************************)
EXTENDS AuthorityGate, ObservationWatches, Calls

CONSTANT Cases  \* the argument of the program, and what goes wrong around it

\* The argument, without the faults it injects.
Mode == {"normal", "cancel", "replace", "resume"}

\* One at a time: a stream that stands still, a retained acknowledgement of
\* another worker, a drive that does not close, a scan with an old stamp, a
\* capability that expires before the dispatch.  Anything may get lost.
Fault == Stream \cup {"none", "foreign", "refused", "late", "expired"}

ASSUME OwnerAssumption ==
  /\ Cases \subseteq Mode \X Fault
  /\ {0, 1} \subseteq Time /\ 1..6 \subseteq Sequence /\ StartedAt = 0
  /\ LastOperationId = 2 /\ {1, 2} \subseteq NativeIdentity
  /\ CapabilityObserver # "" /\ Profile # {} /\ 1 \in WorkUnits

VARIABLES
  mode,      \* the case the program was started for
  pc,        \* the wait the owner is in
  gate,      \* AuthorityGate
  owner,     \* the members of NavigationObservation
  closure,   \* closure_ : NativeClosure
  runtime,   \* runtime_watch_
  corridor,  \* obstacle_watch_
  window,    \* motion_window_
  world,     \* what really happens around the owner
  truth      \* history: what the messages delivered so far amount to

vars == <<mode, pc, gate, owner, closure, runtime, corridor, window, world, truth>>

-----------------------------------------------------------------------------
(* The state *)

requirements == [profile_id |-> CHOOSE p \in Profile : TRUE, work_units |-> 1]

capability(sequence) ==
  [binding |-> InitialBinding,
   value |-> [profile_id |-> requirements.profile_id,
              maximum_work_units |-> 1, available |-> TRUE],
   record |-> [source |-> CapabilityObserver, observed_at |-> 0,
               sequence |-> sequence],
   valid_until |-> 1]

request == [requested_at |-> 0, deadline |-> {}, requirements |-> {requirements}]

\* run() up to the admission of A.
admitted_gate ==
  LET startup(c) == [concern |-> c, binding |-> InitialBinding, value |-> TRUE,
                     record |-> [source |-> observer_of(c), observed_at |-> 0,
                                 sequence |-> 1]]
      ready_gate == observe_startup(observe_startup(observe_startup(
        initial_gate, startup("idle")), startup("worker")), startup("sink"))
  IN  admit(observe_execution_capabilities(ready_gate, capability(1)), request)

\* What run_goal resets, and what is still as new when it sends B.
new_goal ==
  [handle |-> FALSE, feedback |-> FALSE, done |-> FALSE, error |-> FALSE,
   stop_requested |-> FALSE, stop_sent |-> FALSE, cancel_seen |-> FALSE,
   loss |-> FALSE, reason |-> ""]

new_owner ==
  [goal |-> new_goal, sends |-> 0, native_sequence |-> 0, output_sequence |-> 0,
   settlement_sequence |-> 0, refused |-> FALSE, outcome |-> ""]

new_closure(generation) ==
  [facts |-> new_facts(generation), requested |-> FALSE, response |-> "none"]

new_work ==
  [goal |-> "none", workers |-> [c \in Child |-> "idle"], joined |-> FALSE]

new_truth == [gap |-> FALSE, clears |-> 0, unseen |-> ScanLimit]

Init ==
  /\ mode \in {c[1] : c \in Cases}
  /\ pc = IF mode = "resume" THEN "baseline" ELSE "opening"
  /\ gate = admitted_gate /\ owner = new_owner /\ closure = new_closure(1)
  /\ runtime = new_runtime_watch /\ corridor = new_obstacle_watch
  /\ window = new_window
  /\ world \in [work : {new_work}, drive : {[generation |-> 0, applied |-> 0]},
                robot : {"still"}, fault : {c[2] : c \in Cases}]
  /\ <<mode, world.fault>> \in Cases
  /\ truth = new_truth

\* What a step of the owner passes from one call to the next.
Here == [pc |-> pc, gate |-> gate, owner |-> owner, closure |-> closure,
         runtime |-> runtime, corridor |-> corridor, window |-> window]

Becomes(next) == \E h \in {next} :
  /\ pc' = h.pc /\ gate' = h.gate /\ owner' = h.owner /\ closure' = h.closure
  /\ runtime' = h.runtime /\ corridor' = h.corridor /\ window' = h.window

\* One callback of the executor, in whatever wait the owner is.
Callback(next) ==
  /\ pc # "ended" /\ Becomes(next) /\ UNCHANGED <<mode, truth>>

\* The program ends: main catches what was thrown, the destructor closes.
ended(h, outcome) ==
  [h EXCEPT !.pc = "ended", !.owner.outcome = outcome, !.gate = close_admission(@),
            !.runtime = new_runtime_watch, !.corridor = new_obstacle_watch,
            !.window = new_window]

raised(h) == ended(h, "raised")

\* blocked: what was thrown earlier is thrown again; otherwise A stays unsettled.
blocked(h) == ended(h, IF h.owner.goal.error THEN "raised" ELSE "blocked")

-----------------------------------------------------------------------------
(* Reports to the gate from a callback.  capture_callback keeps what is      *)
(* thrown: the rest of the callback, and every later one, does nothing.      *)

failed(h) == [h EXCEPT !.owner.goal.error = TRUE]

unless_failed(h, Step(_)) ==
  then(h, LAMBDA x : IF x.owner.goal.error THEN x ELSE Step(x))

authority(h) == h.gate.receipt.authority

report(h, accepted, g) == IF accepted THEN [h EXCEPT !.gate = g] ELSE failed(h)

record(source, n) == [source |-> source, observed_at |-> 0, sequence |-> n]

native(h, kind) ==
  LET n == h.owner.native_sequence + 1
      e == [authority |-> authority(h), kind |-> kind,
            native_identity |-> authority(h).operation_id,
            record |-> record(NativeSource, n)]
  IN  report([h EXCEPT !.owner.native_sequence = n],
             accepts_native(h.gate, e), observe_native(h.gate, e))

not_delivered(h, reason) ==
  LET produced == reason = "authority_revoked"
      n == 1 + (IF produced THEN h.owner.output_sequence
                ELSE h.owner.settlement_sequence)
      e == [authority |-> authority(h), reason |-> reason,
            record |-> record(IF produced THEN ResultSinkObserver
                              ELSE SettlementSource, n)]
      counted == IF produced THEN [h EXCEPT !.owner.output_sequence = n]
                 ELSE [h EXCEPT !.owner.settlement_sequence = n]
  IN  report(counted, accepts_non_delivery(h.gate, e),
             observe_output_not_delivered(h.gate, e))

output(h) ==
  LET n == h.owner.output_sequence + 1
      e == [authority |-> authority(h), record |-> record(ResultSinkObserver, n)]
  IN  report([h EXCEPT !.owner.output_sequence = n],
             accepts_output(h.gate, e), observe_output_accepted(h.gate, e))

send_native_stop(h) ==
  IF h.owner.goal.handle THEN [h EXCEPT !.owner.goal.stop_sent = TRUE] ELSE h

request_drive_close(h) == [h EXCEPT !.closure.requested = TRUE]

-----------------------------------------------------------------------------
(* The callbacks of the goal, each of the operation that is current *)

\* Mutant: a goal accepted after the stop was asked for is not cancelled.
MutantForgetsStop(h, accepted) ==
  IF ~accepted THEN failed(native(h, "rejected"))
  ELSE unless_failed(native([h EXCEPT !.owner.goal.handle = TRUE], "accepted"),
                     LAMBDA x : [x EXCEPT !.closure.facts.parent = TRUE])

goal_response(h, accepted) ==
  IF ~accepted THEN failed(native(h, "rejected"))
  ELSE unless_failed(native([h EXCEPT !.owner.goal.handle = TRUE], "accepted"),
         LAMBDA x : LET bound == [x EXCEPT !.closure.facts.parent = TRUE]
                    IN  IF x.owner.goal.stop_requested
                          THEN send_native_stop(bound) ELSE bound)

feedback(h) ==
  LET counted == [h EXCEPT !.owner.goal.feedback = TRUE]
  IN  IF h.owner.goal.feedback THEN h ELSE native(counted, "started")

\* withdraw_binding returns the authority to stop the first time only.
check_runtime_observations(h) ==
  LET stop == /\ withdraws_current(h.gate)
              /\ should_request_native_stop(h.gate.receipt)
      lost == [h EXCEPT !.gate = withdraw_binding(@, InitialBinding, 0),
                        !.owner.goal.loss = TRUE]
  IN  IF h.owner.goal.loss \/ h.owner.goal.error \/ stale(h.runtime) = {} THEN h
      ELSE IF ~withdraws_binding(h.gate, InitialBinding, 0) THEN failed(h)
      ELSE then(request_drive_close(lost), LAMBDA x :
        IF ~stop THEN x
        ELSE send_native_stop([x EXCEPT !.owner.goal.stop_requested = TRUE]))

\* What the result leads to, after it was reported; pose: the last feedback
\* shows the robot at the target, recently enough.
deliver(h, kind, pose) ==
  LET goal == h.owner.goal
      done(x) == [x EXCEPT !.owner.goal.done = TRUE]
  IN  IF goal.stop_requested \/ goal.loss
        THEN unless_failed(
               not_delivered(h, IF kind = "succeeded" THEN "authority_revoked"
                                ELSE "no_output"), done)
      ELSE IF kind = "succeeded" /\ goal.feedback /\ pose
              /\ can_deliver_result(h.gate, authority(h))
        THEN unless_failed(output(h), done)
      ELSE failed(h)

native_result(h, kind, pose) ==
  unless_failed(native(h, kind), LAMBDA x :
    unless_failed(check_runtime_observations(x),
                  LAMBDA y : deliver(y, kind, pose)))

cancel_response(h, answer) ==
  LET e == [authority |-> authority(h), acknowledgement |-> answer,
            record |-> record(StopSource, 1)]
  IN  unless_failed(report(h, accepts_stop_acknowledgement(h.gate, e),
                           observe_stop_acknowledgement(h.gate, e)),
                    LAMBDA x : [x EXCEPT !.owner.goal.cancel_seen = TRUE])

\* seen: the clock advanced within the last second; where this is asked, what
\* the streams did is the choice of the world.
resume_ready(h, seen) == seen /\ can_resume(h.corridor)

\* far: the feedback and the odometry show the robot well under way.
wants_cancel(h, far) ==
  LET goal == h.owner.goal
  IN  /\ mode # "normal" /\ (h.owner.sends = 1 \/ mode = "resume")
      /\ ~goal.stop_requested /\ ~goal.done /\ ~goal.error
      /\ goal.handle /\ goal.feedback
      /\ IF mode = "resume" THEN decision(h.corridor) # "continue" ELSE far

maybe_cancel_moving(h, far) ==
  LET cancelled ==
        [h EXCEPT !.gate = request_cancel(@, authority(h), 0),
                  !.owner.goal.stop_requested = TRUE,
                  !.owner.goal.reason =
                    IF mode = "resume" THEN decision(h.corridor) ELSE @]
  IN  IF ~wants_cancel(h, far) THEN h
      ELSE IF /\ applies_cancel(h.gate, authority(h), 0)
              /\ should_request_native_stop(h.gate.receipt)
        THEN send_native_stop(cancelled)
      ELSE failed(h)

-----------------------------------------------------------------------------
(* From one wait to the next *)

\* The runtime watch and, until the owner waits for a clear corridor, the
\* obstacle watch are not read again: what they hold is forgotten.
after_goal(h, next) ==
  [h EXCEPT !.pc = next, !.runtime = new_runtime_watch,
            !.corridor = new_obstacle_watch]

\* run_goal returned to run() or to handoff().
goal_ended(h) ==
  LET goal == h.owner.goal
      is_cancelled == goal.stop_requested
      must_be_cancelled == mode # "normal" /\ h.owner.sends = 1
  IN  IF goal.error THEN raised(h)
      ELSE IF goal.loss THEN after_goal(h, "lost")
      ELSE IF must_be_cancelled /\ ~is_cancelled THEN raised(h)
      ELSE after_goal(h, IF is_cancelled THEN "terminal" ELSE "workers")

to_quiet(h, next) == [h EXCEPT !.pc = next, !.window = new_window]

\* NativeClosure::close returned; what it threw has rejected the facts.
closed_or_not(h, closed) ==
  LET goal == h.owner.goal
      left == IF closed THEN h ELSE [h EXCEPT !.closure.facts = rejected_facts(@)]
      isolated == h.closure.response = "accepted" /\ h.closure.facts.drive = "closed"
  IN  IF closed \/ (goal.loss /\ isolated) THEN to_quiet(left, "quiet")
      ELSE IF goal.loss
        THEN IF goal.error THEN raised(left) ELSE ended(left, "lost")
      ELSE IF h.owner.sends = 2
        THEN IF goal.stop_requested THEN ended(left, "interrupted") ELSE raised(left)
      ELSE IF mode = "cancel"
        THEN IF goal.error THEN raised(left) ELSE ended(left, "cancelled")
      ELSE blocked(left)

after_quiet(h, observed) ==
  LET goal == h.owner.goal
  IN  IF h.owner.refused
        THEN IF observed THEN ended(h, "refused") ELSE raised(h)
      ELSE IF goal.loss \/ (h.owner.sends = 1 /\ mode = "cancel")
        THEN IF goal.error THEN raised(h)
             ELSE ended(h, IF goal.loss THEN "lost" ELSE "cancelled")
      ELSE IF h.owner.sends = 2
        THEN IF goal.stop_requested THEN ended(h, "interrupted")
             ELSE IF observed THEN ended(h, "passed") ELSE raised(h)
      ELSE IF ~observed THEN blocked(h)
      ELSE IF mode # "resume" THEN [h EXCEPT !.pc = "preparing"]
      ELSE IF goal.reason = "blocked" THEN [h EXCEPT !.pc = "clear"]
      ELSE raised(h)

\* A callback of the closure threw: through spin_some into the wait.
thrown(h) ==
  IF h.pc \in {"workers", "bt", "drive"} THEN closed_or_not(h, FALSE)
  ELSE IF h.pc \in {"preparing", "quiet_again", "settling"} THEN blocked(h)
  ELSE raised(h)

observed_facts(h, facts, rejects) ==
  LET told == [h EXCEPT !.closure.facts = facts]
  IN  IF rejects THEN thrown(told) ELSE told

drive_isolated(h) ==
  h.closure.response = "accepted" /\ h.closure.facts.drive = "closed"

\* refuse_resumed_dispatch: B was admitted and its drive opened, no more.
refuse_resumed_dispatch(h) ==
  LET e(x) == [authority |-> authority(x),
               record |-> record(SettlementSource, x.owner.settlement_sequence + 1)]
      revoked == [h EXCEPT !.gate = close_admission(
                                      request_cancel(@, authority(h), 0))]
      reported == then(revoked, LAMBDA x :
        report([x EXCEPT !.owner.settlement_sequence = @ + 1],
               accepts_non_submission(x.gate, e(x)),
               observe_non_submission(x.gate, e(x))))
      resolved == unless_failed(reported, LAMBDA x : not_delivered(x, "no_output"))
  IN  IF ~applies_cancel(h.gate, authority(h), 0) THEN raised(h)
      ELSE then(resolved, LAMBDA x :
        IF x.owner.goal.error THEN raised(x)
        ELSE [request_drive_close(x) EXCEPT !.owner.refused = TRUE,
                                            !.pc = "sealing"])

\* run_goal up to the submission, without a callback in between.
dispatch(h, t) ==
  LET sent == [h EXCEPT !.gate = claim_dispatch(@, authority(h), t),
                        !.owner.sends = @ + 1,
                        !.runtime = start_watch(@), !.pc = "running"]
  IN  IF claims_dispatch(h.gate, authority(h), t) THEN sent ELSE raised(h)

run_goal(h, t, seen) ==
  LET reset == [h EXCEPT !.owner.goal = new_goal]
  IN  IF mode = "resume" /\ h.owner.sends = 1 /\ ~resume_ready(h, seen)
        THEN refuse_resumed_dispatch(reset)
        ELSE dispatch(reset, t)

settle(h) ==
  LET n == h.owner.settlement_sequence + 1
      e == [authority |-> authority(h), permits_same_domain_admission |-> TRUE,
            record |-> record(SettlementSource, n)]
  IN  report([h EXCEPT !.owner.settlement_sequence = n],
             accepts_settlement(h.gate, e), observe_settlement(h.gate, e))

\* From the last look at A to the admission of B.
hand_over(h) ==
  LET told == then(settle(h), LAMBDA x :
        [x EXCEPT !.gate = observe_execution_capabilities(@, capability(2))])
  IN  IF h.owner.goal.error \/ ~facts_closed(h.closure.facts) THEN raised(h)
      ELSE then(told, LAMBDA x :
        IF x.owner.goal.error \/ ~admits(x.gate, request) THEN raised(x)
        ELSE [x EXCEPT !.gate = admit(@, request), !.closure = new_closure(2),
                       !.pc = "opening"])

-----------------------------------------------------------------------------
(* The owner, from wait to wait *)

Step(next) == Becomes(next) /\ UNCHANGED <<mode, world, truth>>

Baseline ==
  /\ pc = "baseline" /\ ready(corridor)
  /\ Step([Here EXCEPT !.pc = "opening"])

\* open_drive and run_goal: the drive opens the next generation once the one
\* before it is sealed, and no callback runs before the goal is sent.
OpenAndRun == \E t \in {0} \cup {1 : f \in {world.fault} \cap {"expired"}}, seen \in BOOLEAN :
  /\ pc = "opening"
  /\ world.drive.generation = closure.facts.generation - 1
  /\ world.drive.generation \in {0, world.drive.applied}
  /\ Becomes(run_goal(Here, t, seen))
  /\ world' = [world EXCEPT !.drive.generation = closure.facts.generation,
                            !.work = [new_work EXCEPT !.goal =
                              IF owner'.sends > owner.sends THEN "sent" ELSE "none"]]
  /\ truth' = [truth EXCEPT !.gap = FALSE]
  /\ UNCHANGED mode

\* The predicate of the wait for the result, and what follows it.
looked(h, far) ==
  LET watched == IF h.owner.goal.done \/ h.owner.goal.error THEN h
                 ELSE check_runtime_observations(h)
  IN  then(watched, LAMBDA x :
        IF x.owner.goal.loss THEN x ELSE maybe_cancel_moving(x, far))

Poll == \E far, waited \in BOOLEAN :
  /\ pc = "running"
  /\ Step(then(looked(Here, far), LAMBDA x :
       IF \/ x.owner.goal.done \/ x.owner.goal.error
          \/ (x.owner.goal.loss /\ waited)
         THEN goal_ended(x) ELSE x))

\* observe_cancelled_terminal
AwaitCancelled ==
  /\ pc = "terminal" /\ (owner.goal.cancel_seen \/ owner.goal.error)
  /\ LET r == gate.receipt
         is_expected == /\ ~owner.goal.error
                        /\ r.stop_acknowledgement = "acknowledged" /\ r.outcome = "cancelled"
                        /\ r.output = "not_delivered"
     IN  Step(IF is_expected THEN [Here EXCEPT !.pc = "workers"] ELSE raised(Here))

LostWaitEnds == pc = "lost" /\ Step([Here EXCEPT !.pc = "workers"])

\* NativeClosure::close: the workers, the tree, the drive.
WorkersAreClosed ==
  /\ pc = "workers" /\ workers_closed(closure.facts)
  /\ Step([Here EXCEPT !.pc = "bt"])

CloseBt ==
  /\ pc = "bt" /\ world.work.goal \in Terminal
  /\ LET facts == observe_bt(closure.facts, TRUE)
         told == [Here EXCEPT !.closure.facts = facts]
     IN  Becomes(IF facts.rejected THEN closed_or_not(told, FALSE)
                 ELSE [request_drive_close(told) EXCEPT !.pc = "drive"])
  /\ world' = [world EXCEPT !.work.joined = TRUE]
  /\ UNCHANGED <<mode, truth>>

DriveEnds ==
  /\ pc = "drive" /\ (drive_isolated(Here) \/ closure.response = "failed")
  /\ Step(closed_or_not(Here, drive_isolated(Here) /\ facts_closed(closure.facts)))

\* seen: both streams were received within the last second.
QuietEnds == \E seen \in BOOLEAN :
  /\ pc \in {"quiet", "quiet_again"}
  /\ LET observed == window.status = "observed" /\ ~owner.goal.error /\ seen
         here == [Here EXCEPT !.window = new_window]
     IN  IF pc = "quiet"
           THEN /\ Becomes(then(after_quiet(here, observed), LAMBDA x :
                     IF x.pc = "clear" THEN [x EXCEPT !.corridor = new_obstacle_watch]
                     ELSE x))
                /\ truth' = [truth EXCEPT !.clears = 0, !.unseen = ScanLimit]
           ELSE /\ Becomes(IF observed THEN [here EXCEPT !.pc = "settling"]
                           ELSE blocked(here))
                /\ UNCHANGED truth
  /\ UNCHANGED <<mode, world>>

\* wait_for_clear_corridor
CorridorClear == \E seen \in BOOLEAN :
  /\ pc = "clear" /\ resume_ready(Here, seen) /\ ~owner.goal.error
  /\ Step([Here EXCEPT !.pc = "preparing"])

\* The next context is there and probed.
PrepareNext == pc = "preparing" /\ Step(to_quiet(Here, "quiet_again"))

\* seen, all: of the clock, and of both streams.
Settle == \E seen, all \in BOOLEAN :
  /\ pc = "settling" /\ (all => seen)
  /\ Step(IF ~all \/ (mode = "resume" /\ ~resume_ready(Here, seen))
            THEN blocked(Here) ELSE hand_over(Here))

Sealed ==
  /\ pc = "sealing" /\ drive_isolated(Here)
  /\ Step(to_quiet(Here, "quiet"))

\* A wait ends by its timeout; that of quiet and of lost is above.
GiveUp ==
  /\ pc \notin {"ended", "lost", "quiet", "quiet_again"}
  /\ Step(IF pc = "clear" THEN blocked(Here) ELSE thrown(Here))

Owner ==
  \/ Baseline \/ OpenAndRun \/ Poll \/ AwaitCancelled \/ LostWaitEnds
  \/ WorkersAreClosed \/ CloseBt \/ DriveEnds \/ QuietEnds \/ CorridorClear
  \/ PrepareNext \/ Settle \/ Sealed \/ GiveUp

-----------------------------------------------------------------------------
(* The callbacks *)

\* The operation a callback was made for is still the one of the owner.
is_current == owner.sends = gate.receipt.authority.operation_id

GoalResponse ==
  /\ is_current /\ world.work.goal \notin {"none", "sent"}
  /\ ~owner.goal.handle /\ ~owner.goal.error
  /\ Callback(goal_response(Here, world.work.goal # "refused"))
  /\ UNCHANGED world

Feedback ==
  /\ is_current /\ owner.goal.handle /\ ~owner.goal.feedback /\ ~owner.goal.error
  /\ Callback(feedback(Here)) /\ UNCHANGED world

Result == \E pose \in BOOLEAN :
  /\ is_current /\ world.work.goal \in Terminal
  /\ owner.goal.handle /\ ~owner.goal.done /\ ~owner.goal.error
  /\ Callback(native_result(Here, world.work.goal, pose)) /\ UNCHANGED world

CancelResponse == \E answer \in StopResponse :
  /\ is_current /\ owner.goal.stop_sent /\ ~owner.goal.cancel_seen /\ ~owner.goal.error
  /\ Callback(cancel_response(Here, answer)) /\ UNCHANGED world

\* A link is published when a worker starts, its acknowledgement when it is
\* over, in the context of the task; what was published before the owner waits
\* for it is retained, and read then (earlier only where it could be refused).
\* An acknowledgement carries no scope: one of another worker may come.
ChildFact == \E child \in Child, acknowledges \in BOOLEAN :
  /\ closure.facts.generation = world.drive.generation
  /\ pc = "workers" \/ \E c \in Child : closure.facts.ack[c] = {"foreign"}
  /\ IF acknowledges THEN world.work.workers[child] = "over"
     ELSE world.work.workers[child] # "idle"
  /\ {} = IF acknowledges THEN closure.facts.ack[child] ELSE closure.facts.link[child]
  /\ LET facts == observe_child(closure.facts, child, acknowledges, "own")
     IN  Callback(observed_facts(Here, facts,
                    facts.rejected /\ ~closure.facts.rejected))
  /\ UNCHANGED world

ForeignFact == \E child \in Child :
  /\ world.fault = "foreign"
  /\ LET facts == observe_child(closure.facts, child, TRUE, "foreign")
     IN  Callback(observed_facts(Here, facts,
                    facts.rejected /\ ~closure.facts.rejected))
  /\ world' = [world EXCEPT !.fault = "none"]

\* The acknowledgement of the last seal is retained on its topic.
DriveAck ==
  /\ world.drive.applied # 0
  /\ LET facts == observe_drive(closure.facts, world.drive.applied,
                    closure.requested /\ world.drive.applied = world.drive.generation)
     IN  /\ facts # closure.facts
         /\ Callback(observed_facts(Here, facts,
                       facts.rejected /\ ~closure.facts.rejected))
  /\ UNCHANGED world

CloseResponse == \E answer \in {"accepted"} \cup {"failed" : f \in {world.fault} \cap {"refused"}} :
  /\ closure.requested /\ closure.response = "none"
  /\ Callback([Here EXCEPT !.closure.response = answer]) /\ UNCHANGED world

\* The odometry, in a quiet window: what the robot does, or a bad sample.
Motion == \E step \in {0, 1}, bad \in BOOLEAN :
  /\ pc \in {"quiet", "quiet_again"} /\ window.status = "pending"
  /\ Callback([Here EXCEPT !.window =
                 observe_motion(@, IF bad THEN "bad" ELSE world.robot, step)])
  /\ UNCHANGED world

\* A message of the stream that stands still now and then while the goal runs;
\* the other one, or both, come in time and their ages stay at 0.
silent == pc = "running" /\ world.fault \in Stream

StreamMessage == \E progresses \in BOOLEAN :
  /\ silent
  /\ Callback([Here EXCEPT !.runtime = observe_stream(@, world.fault, progresses)])
  /\ UNCHANGED world

\* Where the owner reads the corridor again before it forgets it.
watches == /\ mode = "resume"
           /\ pc \in {"baseline", "opening", "running", "clear", "preparing",
                      "quiet_again", "settling"}

\* Only a window that is still going to be read is kept: that of clear frames
\* from the boundary to the dispatch of B, which empties that of close frames,
\* and that of close frames otherwise.
remembered(w) ==
  IF owner.sends = 1 /\ pc # "running" THEN [w EXCEPT !.close = <<>>]
  ELSE [w EXCEPT !.clear = <<>>]

\* Scans have stamps in order, so after the boundary they stay after it; one
\* that is not newer is the last one again.  One with an old stamp comes after the
\* boundary: before it, the owner sees no more of it than of an invalid one.
Scan == \E m \in [newer : BOOLEAN, age : {0} \cup {ScanLimit : f \in {world.fault} \cap {"late"}},
                  after : BOOLEAN, value : Clearance] :
  /\ watches
  /\ m.after => owner.sends > 0 /\ pc # "running"
  /\ m.age # 0 => m.after
  /\ IF m.newer THEN \A last \in corridor.scan : last.after => m.after
     ELSE \E last \in corridor.scan : last.value = m.value /\ last.after = m.after
  /\ Becomes([Here EXCEPT !.corridor = remembered(observe_scan(@, m))])
  /\ truth' = IF ~m.newer THEN truth
              ELSE [truth EXCEPT
                      !.unseen = m.age,
                      !.clears = IF m.value # "clear" \/ ~m.after \/ m.age # 0 THEN 0
                                 ELSE IF @ < Frames THEN @ + 1 ELSE @]
  /\ UNCHANGED <<mode, world>>

Costmap == \E m \in [newer : {TRUE}, age : {0}, after : BOOLEAN, value : Occupancy] :
  /\ watches
  /\ m.after => owner.sends > 0 /\ pc # "running"
  /\ \A last \in corridor.costmap : last.after => m.after
  /\ Callback([Here EXCEPT !.corridor = observe_costmap(@, m)]) /\ UNCHANGED world

Callbacks ==
  \/ GoalResponse \/ Feedback \/ Result \/ CancelResponse
  \/ ChildFact \/ ForeignFact \/ DriveAck \/ CloseResponse
  \/ Motion \/ StreamMessage \/ Scan \/ Costmap

-----------------------------------------------------------------------------
(* The world *)

Happens(w) ==
  /\ pc # "ended" /\ world' = w
  /\ UNCHANGED <<mode, pc, gate, owner, closure, runtime, corridor, window, truth>>

ServerAnswers == \E goal \in {"active", "refused"} :
  /\ world.work.goal = "sent"
  /\ Happens([world EXCEPT !.work.goal = goal])

\* The tree runs the planner, then the controller.
WorkerStarts == \E child \in Child :
  /\ world.work.goal = "active" /\ world.work.workers[child] = "idle"
  /\ child = "controller" => world.work.workers["planner"] = "over"
  /\ Happens([world EXCEPT !.work.workers[child] = "running"])

\* A worker ends when it does, also long after the goal.
WorkerEnds == \E child \in Child :
  /\ world.work.workers[child] = "running"
  /\ Happens([world EXCEPT !.work.workers[child] = "over"])

GoalEnds == \E outcome \in Terminal :
  /\ world.work.goal = "active"
  /\ outcome = "succeeded" => world.work.workers["controller"] # "idle"
  /\ outcome = "cancelled" => owner.goal.stop_sent
  /\ Happens([world EXCEPT !.work.goal = outcome])

open_drive == world.drive.applied # world.drive.generation

\* Commands of a controller that runs, or of the smoother behind it.
RobotMoves ==
  /\ world.robot = "still" /\ open_drive
  /\ world.work.workers["controller"] # "idle"
  /\ Happens([world EXCEPT !.robot = "moving"])

RobotRests ==
  /\ world.robot = "moving"
  /\ Happens([world EXCEPT !.robot = "still"])

DriveSeals ==
  /\ closure.requested /\ open_drive
  /\ closure.facts.generation = world.drive.generation
  /\ Happens([world EXCEPT !.drive.applied = world.drive.generation])

Tick ==
  /\ pc # "ended" /\ (silent \/ watches)
  /\ runtime' = IF silent THEN aged_runtime(runtime, {world.fault}) ELSE runtime
  /\ corridor' = IF watches THEN aged_obstacle(corridor) ELSE corridor
  /\ truth' = [truth EXCEPT
       !.gap = @ \/ \E s \in Stream : expired(runtime', s),
       !.unseen = IF watches THEN older(@, ScanLimit) ELSE @]
  /\ UNCHANGED <<mode, pc, gate, owner, closure, window, world>>

World ==
  \/ ServerAnswers \/ WorkerStarts \/ WorkerEnds \/ GoalEnds
  \/ RobotMoves \/ RobotRests \/ DriveSeals \/ Tick

Next == Owner \/ Callbacks \/ World

Spec == Init /\ [][Next]_vars

-----------------------------------------------------------------------------
(* Properties *)

\* A is settled, and B admitted in its place, only when nothing of A is left:
\* its workers are over and its tree joined, the drive is sealed for its
\* generation and the robot rests.  A terminal result of the goal shows none
\* of this, and the facts come in any order (NativeClosure::close, quiet).
SettlementIsEarned ==
  [][gate'.receipt.authority.operation_id # gate.receipt.authority.operation_id
       => /\ \A c \in Child : world.work.workers[c] # "running"
          /\ world.work.joined /\ world.robot = "still"
          /\ world.drive.applied = 1]_vars

\* A result is delivered only if the clock and the odometry never stood still
\* for the budget since the goal was sent, also when both are back before the
\* owner looked (latch_expiry, check_runtime_observations in the result).
OutputIsObserved ==
  [][gate'.receipt.output = "accepted" /\ gate.receipt.output = "pending"
       => ~truth.gap]_vars

\* After an obstacle stopped A, B is sent only on as many scans in a row,
\* made after A came to rest, as the window holds, the last one fresh at that
\* moment; repeated frames do not count (can_resume, resume_ready).
ResumeIsClear ==
  [][mode = "resume" /\ owner.sends = 1 /\ owner'.sends = 2
       => truth.clears = Frames /\ truth.unseen < ScanLimit]_vars

\* An accepted goal whose authority is revoked has been told to stop, whichever
\* came first: the revocation or the acceptance (goal_response_callback).
StopsReachTheGoal ==
  LET r == gate.receipt
  IN  (/\ is_current /\ owner.goal.handle /\ ~owner.goal.error
       /\ r.disposition = "revoked" /\ r.outcome = "pending")
        => owner.goal.stop_sent

\* The drive never contradicts the closure: the acknowledgement of the task
\* before, which its topic retains, is not judged (observe_drive).
RetainedIsHarmless == closure.facts.drive # "rejected"
=============================================================================
