--------------------------- MODULE RecoverySession ---------------------------
(***************************************************************************)
(* The recovery owner and client of src/compute/recovery_owner.cpp and       *)
(* recovery_client.cpp: an owner that keeps one ComputeProcess through the   *)
(* crashes of its hosts, and the clients of these hosts, one session each,    *)
(* over SOCK_SEQPACKET channels.                                             *)
(*                                                                         *)
(* Client i holds one end of channel i; up[i] and down[i] are the frames in   *)
(* it.  A frame is lost only when its sender closed with frames it had not    *)
(* read.  Sending never waits: the buffers hold more than a session sends.    *)
(* The amount of work is the same for all submissions, and the value of a     *)
(* result is left out.  Operation 0 is no operation; operation_handed_off     *)
(* and operation_discarded are left out, operation becomes 0 with each.       *)
(* Nobody else waits for the child; ComputeChild has that fault.             *)
(***************************************************************************)
EXTENDS AuthorityGate, ComputeProcess, Calls, SequencesExt

CONSTANTS
  Clients,     \* bound: the number of hosts that connect
  LastRequest, \* the largest request number (2^64 - 1)
  LastTime,    \* bound: the clock stops there
  Lifetime,    \* kEvidenceLifetimeMs
  Faults       \* the system faults that may happen

\* Sessions are provider generations: LastGeneration is the last of both.
ASSUME SessionAssumption ==
  /\ Clients \in Nat /\ LastRequest \in Nat
  /\ 0..LastTime + Lifetime \subseteq Time /\ StartedAt = 0 /\ Lifetime > 0
  /\ 1..4 * (LastOperationId + 1) \subseteq Sequence
  /\ 1..LastOperationId \subseteq NativeIdentity
  /\ Provider = {BindingObserver} /\ CapabilityObserver = ""
  /\ {WorkerObserver, NativeSource, SettlementSource} = {BindingObserver}
  /\ Faults \subseteq {"spawn", "executable", "crash", "read", "close",
                       "session", "clock"}

VARIABLES
  owner,      \* Owner::Impl; fd is the channel of the session, or 0
  process,    \* the process of the owner, while it has one
  child,      \* the worker and its channels
  clients,    \* Client::Impl of every host
  up, down,   \* the frames in the channels
  attached,   \* the channels the owner took
  now,        \* the monotonic clock of both sides
  launched,   \* history: the operations with a child, and how it ended
  handed      \* history: the number of results of children that were sent

vars == <<owner, process, child, clients, up, down, attached, now, launched, handed>>

Client == 1..Clients

message(kind, session, request) ==
  [kind |-> kind, session |-> session, request |-> request, operation |-> 0,
   value |-> 0, flags |-> "none"]

new_owner ==
  [fd |-> 0, epoch |-> 1, last_now |-> 0, fault |-> FALSE, is_gone |-> FALSE,
   is_polling |-> FALSE, active |-> FALSE, last_request |-> 0,
   last_operation |-> 0, clear_token |-> 0, clear_token_at |-> 0,
   pending |-> {}, pending_at |-> 0, operation |-> 0, operation_request |-> 0,
   operation_session |-> 0, has_process |-> FALSE, result |-> {},
   launches |-> 0, discarded_results |-> 0]

new_client(state, t) ==
  [state |-> state, exchange |-> "hello", last_time |-> t, issued_at |-> t,
   queued_at |-> 0, query_at |-> 0, epoch |-> 0, nonce |-> 0, sequence |-> 0,
   token |-> 0, gate |-> initial_gate, pending |-> {}, has_value |-> FALSE]

Init ==
  /\ owner = new_owner /\ process = new_process /\ child = no_child
  /\ clients = [i \in Client |-> new_client("absent", 0)]
  /\ up = [i \in Client |-> <<>>] /\ down = [i \in Client |-> <<>>]
  /\ attached = {} /\ now = 0 /\ launched = <<>> /\ handed = 0

\* At most one system call of a step fails.
Fault == {"none"} \cup Faults

\* What a side reads of the clock.
Reading == IF "clock" \in Faults THEN 0..now ELSE {now}

\* The end of the client, which the launcher holds until the host runs.
is_open(i) == clients[i].state # "closed"

runs(i) == clients[i].state \notin {"absent", "closed"}

is_fresh(start, t) == start <= t /\ t - start < Lifetime

-----------------------------------------------------------------------------
(* The owner.  s has what a call of it changes, and the system call that fails. *)

Owner(fault) ==
  [owner |-> owner, process |-> process, child |-> child, up |-> up,
   down |-> down, launched |-> launched, handed |-> handed,
   fault |-> fault]

\* The file system is asked every time.
can_launch(s) == s.fault # "executable"

Becomes(result) == \E s \in {result} :
  /\ owner' = s.owner /\ process' = s.process /\ child' = s.child
  /\ up' = s.up /\ down' = s.down
  /\ launched' = s.launched /\ handed' = s.handed

\* Mutant: work that was told to stop does not count.
MutantStoppedIsClear(s) ==
  ~s.owner.fault /\ can_launch(s) /\ (s.owner.has_process => stop_requested(s.process))

clear(s) ==
  LET p == s.process
  IN  /\ ~s.owner.fault /\ can_launch(s)
      /\ s.owner.has_process =>
           /\ p.exit_status # {} /\ p.event_eof /\ p.channels_closed
           /\ ~p.ownership_lost /\ ~p.malformed /\ ~p.io_error

hung_up(s) ==
  LET i == s.owner.fd
  IN  IF i = 0 THEN s
      ELSE [s EXCEPT !.down[i] = IF s.up[i] = <<>> THEN @ ELSE <<>>,
                     !.up[i] = <<>>,
                     !.owner.fd = 0, !.owner.fault = @ \/ s.fault = "session"]

forgotten(s) ==
  [s EXCEPT
     !.owner.discarded_results = IF s.owner.operation # 0 THEN @ + 1 ELSE @,
     !.owner.operation = 0, !.owner.result = {}, !.owner.active = FALSE,
     !.owner.clear_token = 0, !.owner.pending = {}]

\* Mutant: the session is given up, its work goes on.
MutantLeaveRunning(s, t) == hung_up(forgotten(s))

disconnect(s, t) ==
  LET owns == /\ s.owner.has_process /\ s.process.launched
              /\ s.process.exit_status = {}
  IN  then(IF owns THEN request_stop(s, t) ELSE s, LAMBDA x : hung_up(forgotten(x)))

faulted(s, t) == disconnect([s EXCEPT !.owner.fault = TRUE], t)

queue(s, m, t) == [s EXCEPT !.owner.pending = {m}, !.owner.pending_at = t]

is_of_child(m) == m.kind = "result" /\ m.flags # "not_launched"

\* Mutant: the operation is kept when its result is sent.
MutantKeepOperation(s, m) ==
  [s EXCEPT !.down[s.owner.fd] = Append(@, m),
            !.owner.pending = {},
            !.owner.result = IF m.kind = "result" THEN {} ELSE @,
            !.handed = IF is_of_child(m) THEN @ + 1 ELSE @]

sent_message(s, m) ==
  [s EXCEPT !.down[s.owner.fd] = Append(@, m),
            !.owner.pending = {},
            !.owner.operation = IF m.kind = "result" THEN 0 ELSE @,
            !.owner.result = IF m.kind = "result" THEN {} ELSE @,
            !.handed = IF is_of_child(m) THEN @ + 1 ELSE @]

flush(s, t) ==
  IF s.owner.pending = {} THEN s
  ELSE IF t - s.owner.pending_at >= Lifetime \/ ~is_open(s.owner.fd)
    THEN disconnect(s, t)
  ELSE sent_message(s, CHOOSE m \in s.owner.pending : TRUE)

\* Mutant: how the child exited is not looked at.
MutantTerminalOnly(p) ==
  IF p.terminal = "completed" THEN "succeeded" ELSE "failed"

outcome(p) ==
  IF /\ p.exit_status = {"completed"}
     /\ p.terminal = "completed" /\ p.terminal_iterations = Batches
    THEN "succeeded"
  ELSE IF /\ p.exit_status = {"cancelled"} /\ stop_requested(p)
          /\ p.terminal = "cancelled"
    THEN "cancelled"
  ELSE "failed"

\* The child is gone and its channels are closed: the owner lets it go.
collected(s) ==
  LET o == s.owner
      result == [message("result", o.operation_session, o.operation_request)
                   EXCEPT !.operation = o.operation, !.flags = outcome(s.process)]
  IN  [s EXCEPT
         !.owner.has_process = FALSE,
         !.owner.result = IF o.operation = 0 \/ o.fd = 0 THEN @ ELSE {result},
         !.process = new_process, !.child = no_child,
         !.launched[Len(s.launched)].exit = s.process.exit_status]

observe_process(s, t) ==
  LET broken(x) == \/ x.process.ownership_lost \/ x.process.malformed
                   \/ x.process.io_error
      ended(x) == x.process.exit_status # {} /\ x.process.event_eof
      closed(x) == IF x.process.channels_closed THEN collected(x) ELSE faulted(x, t)
  IN  IF ~s.owner.has_process THEN s
      ELSE then(then(finish_poll(s, t, FALSE),
                     LAMBDA x : IF broken(x) THEN faulted(x, t) ELSE x),
                LAMBDA x : IF ended(x) THEN then(close_channels(x, s.fault = "close"), closed) ELSE x)

answer(s, kind, m) == message(kind, s.owner.epoch, m.request)

snapshot(s, m, t) ==
  LET frame_sent == [answer(s, "snapshot", m) EXCEPT
                       !.flags = IF clear(s) THEN "clear" ELSE "none"]
      token == IF clear(s) THEN m.request ELSE 0
  IN  queue([s EXCEPT !.owner.last_request = m.request,
                      !.owner.clear_token = token,
                      !.owner.clear_token_at = IF clear(s) THEN t ELSE @],
            frame_sent, t)

activates(s, m, t) ==
  /\ ~s.owner.active
  /\ s.owner.clear_token # 0 /\ m.value = s.owner.clear_token
  /\ t - s.owner.clear_token_at < Lifetime /\ clear(s)

activation(s, m, t) ==
  queue([s EXCEPT !.owner.last_request = m.request, !.owner.active = TRUE,
                  !.owner.clear_token = 0],
        [answer(s, "activated", m) EXCEPT !.value = m.value], t)

\* The owner ends, on purpose or because it lost account of a channel.  The
\* destructor of ComputeProcess kills the child it has and waits for it.
gone(s, t) ==
  [disconnect(s, t) EXCEPT !.owner.has_process = FALSE, !.owner.is_gone = TRUE,
                           !.process = new_process, !.child = no_child]

submission(s, m, t) ==
  LET o == [s.owner EXCEPT !.last_request = m.request, !.last_operation = m.operation]
      started(x) ==
        [x EXCEPT
           !.owner = [o EXCEPT !.operation = m.operation,
                        !.operation_session = s.owner.epoch,
                        !.operation_request = m.request,
                        !.has_process = TRUE, !.launches = o.launches + 1],
           !.launched = Append(x.launched, [session |-> s.owner.epoch,
                                            operation |-> m.operation, exit |-> {}])]
      rejected == [answer(s, "result", m) EXCEPT
                     !.operation = m.operation, !.flags = "not_launched"]
      accepted == [answer(s, "accepted", m) EXCEPT !.operation = m.operation]
  IN  then(launch([s EXCEPT !.owner = o, !.child = no_child],
                  s.fault # "spawn", s.fault = "close"),
           LAMBDA x : IF x.process.io_error THEN gone([x EXCEPT !.owner.fault = TRUE], t)
                      ELSE IF x.process.launched THEN queue(started(x), accepted, t)
                      ELSE queue(x, rejected, t))

submits(s, m) ==
  /\ s.owner.active /\ s.owner.operation = 0
  /\ m.operation > s.owner.last_operation /\ clear(s)

received(s, m, t) ==
  IF m.session # s.owner.epoch \/ m.request <= s.owner.last_request
    THEN disconnect(s, t)
  ELSE IF m.kind = "query" /\ ~s.owner.active THEN snapshot(s, m, t)
  ELSE IF m.kind = "activate" /\ activates(s, m, t) THEN activation(s, m, t)
  ELSE IF m.kind = "submit" /\ submits(s, m)
    THEN submission(s, m, t)
  ELSE disconnect(s, t)

receive(s, t) ==
  LET i == s.owner.fd
      rest == [s EXCEPT !.up[i] = Tail(@)]
  IN  IF s.up[i] # <<>> THEN received(rest, Head(s.up[i]), t)
      ELSE IF is_open(i) THEN s ELSE disconnect(s, t)

queue_result(s, t) ==
  IF s.owner.pending # {} \/ s.owner.result = {} THEN s
  ELSE queue(s, CHOOSE m \in s.owner.result : TRUE, t)

exchange_frames(s, t) ==
  IF s.owner.fd = 0 THEN s
  ELSE then(flush(queue_result(s, t), t), LAMBDA x :
         IF x.owner.fd = 0 THEN x
         ELSE then(queue_result(x, t), LAMBDA y :
                IF y.owner.pending # {} THEN y ELSE receive(y, t)))

-----------------------------------------------------------------------------
(* Calls of the owner.  A poll is two steps, between which the worker runs. *)

Owns == ~owner.is_gone /\ ~owner.is_polling

\* Channel 0 is a descriptor that is no end of a channel.
attach(s, i, t) ==
  IF \/ s.owner.fd # 0 \/ s.owner.fault \/ s.owner.epoch = LastGeneration
     \/ t < s.owner.last_now \/ i = 0 \/ ~can_launch(s)
    THEN IF t < s.owner.last_now \/ s.owner.epoch = LastGeneration
           THEN faulted(s, s.owner.last_now) ELSE s
    ELSE queue([s EXCEPT !.owner.fd = i, !.owner.epoch = @ + 1,
                         !.owner.last_now = t, !.owner.active = FALSE,
                         !.owner.last_request = 0, !.owner.last_operation = 0,
                         !.owner.clear_token = 0, !.owner.clear_token_at = 0],
               message("hello", s.owner.epoch + 1, 0), t)

\* The launcher makes the next channel, and keeps the other end for its host.
Attach ==
  \E t \in Reading, fault \in Fault \cap {"none", "executable", "session"} :
  \E i \in {0} \cup {j \in Client \ attached : 1..j - 1 \subseteq attached} :
    /\ Owns
    /\ Becomes(attach(Owner(fault), i, t))
    /\ attached' = attached \cup ({owner'.fd} \ {0})
    /\ UNCHANGED <<clients, now>>

Poll ==
  \E t \in Reading, fault \in Fault \cap {"none", "read", "session"} :
    LET s == Owner(fault)
        timed == IF t < owner.last_now THEN faulted(s, owner.last_now)
                 ELSE [s EXCEPT !.owner.last_now = t]
    IN  /\ Owns
        /\ Becomes(then(timed, LAMBDA x :
             [(IF x.owner.has_process THEN begin_poll(x, fault = "read") ELSE x)
                EXCEPT !.owner.is_polling = TRUE]))
        /\ UNCHANGED <<clients, attached, now>>

FinishPoll ==
  \E fault \in Fault \cap {"none", "executable", "spawn", "close", "session"} :
    LET t == owner.last_now
    IN  /\ owner.is_polling
        /\ Becomes(then(observe_process(Owner(fault), t), LAMBDA x :
             [exchange_frames(x, t) EXCEPT !.owner.is_polling = FALSE]))
        /\ UNCHANGED <<clients, attached, now>>

Destroy ==
  /\ Owns
  /\ Becomes(gone(Owner("none"), owner.last_now))
  /\ UNCHANGED <<clients, attached, now>>

-----------------------------------------------------------------------------
(* The client: calls on its record c *)

\* What a closed client has left to show is its session, its gate and its result.
closed(c) ==
  [new_client("closed", 0) EXCEPT
     !.epoch = c.epoch, !.has_value = c.has_value,
     !.gate = IF c.epoch = 0 THEN @ ELSE close_admission(c.gate)]

\* A step of a call that is not reached once the client is closed.
also(c, Step(_)) == then(c, LAMBDA x : IF x.state = "closed" THEN x ELSE Step(x))

time(c, t) == IF t < c.last_time THEN closed(c) ELSE [c EXCEPT !.last_time = t]

queued(c, m, t) ==
  IF c.pending # {} \/ c.nonce = LastRequest THEN closed(c)
  ELSE [c EXCEPT !.nonce = @ + 1, !.queued_at = t, !.issued_at = t,
                 !.pending = {[m EXCEPT !.session = c.epoch, !.request = c.nonce + 1]}]

record(c, source, t) ==
  [source |-> source, observed_at |-> t, sequence |-> c.sequence + 1]

\* A report the gate refuses leaves it as it was, and closes the client.
evidence(c, g) ==
  IF g = c.gate THEN closed(c) ELSE [c EXCEPT !.gate = g, !.sequence = @ + 1]

greeted(c, m, t) ==
  LET binding == [InitialBinding EXCEPT !.generation = m.session - 1]
      gate == [initial_gate EXCEPT !.binding = binding,
                 !.generation_high_water = binding.generation,
                 !.last_binding_control_at = t]
  IN  IF m.kind # "hello" \/ m.session < 2 THEN closed(c)
      ELSE [c EXCEPT !.epoch = m.session, !.state = "blocked", !.exchange = "idle",
                     !.gate = withdraw_binding(gate, binding, t)]

prepared(c, m, t) ==
  LET old == [binding |-> c.gate.binding, record |-> record(c, BindingObserver, t),
              valid_until |-> c.query_at + Lifetime]
      begun == begin_rebind(c.gate, c.gate.binding, BindingObserver, old, t)
      activate == [message("activate", 0, 0) EXCEPT !.value = m.request]
  IN  IF m.kind # "snapshot" \/ ~is_fresh(c.query_at, t) THEN closed(c)
      ELSE IF m.flags = "none" THEN [c EXCEPT !.state = "blocked", !.exchange = "idle"]
      ELSE IF begun.candidate.binding.generation # c.epoch THEN closed(c)
      ELSE also(queued([c EXCEPT !.gate = begun, !.sequence = @ + 1,
                                 !.token = m.request], activate, t),
                LAMBDA x : [x EXCEPT !.exchange = "activation"])

committed(c, m, t) ==
  LET observed(x, concern) ==
        evidence(x, observe_rebind_readiness(x.gate,
          [concern |-> concern, binding |-> x.gate.candidate.binding, value |-> TRUE,
           record |-> record(x, observer_of(concern), t),
           valid_until |-> x.query_at + Lifetime]))
      commit(x) == IF commits_rebind(x.gate, x.gate.candidate.binding, t)
                     THEN [x EXCEPT !.state = "ready", !.exchange = "idle",
                            !.gate = commit_rebind(@, @.candidate.binding, t)]
                     ELSE closed(x)
  IN  IF m.kind # "activated" \/ m.value # c.token \/ ~is_fresh(c.query_at, t)
        THEN closed(c)
      ELSE also(also(also(observed(c, "idle"),
                          LAMBDA x : observed(x, "worker")),
                     LAMBDA x : observed(x, "sink")), commit)

authority(c) == c.gate.receipt.authority

native(c, kind, t) ==
  evidence(c, observe_native(c.gate,
    [authority |-> authority(c), native_identity |-> authority(c).operation_id,
     kind |-> kind, record |-> record(c, NativeSource, t)]))

event_of(flags) ==
  CASE flags = "succeeded" -> "succeeded"
    [] flags = "cancelled" -> "cancelled"
    [] flags = "not_launched" -> "rejected"
    [] OTHER -> "failed"

output(c, t) ==
  evidence(c, observe_output_accepted(c.gate,
    [authority |-> authority(c), record |-> record(c, ResultSinkObserver, t)]))

no_output(c, t) ==
  evidence(c, observe_output_not_delivered(c.gate,
    [authority |-> authority(c), reason |-> "no_output",
     record |-> record(c, SettlementSource, t)]))

settle(c, t) ==
  evidence(c, observe_settlement(c.gate,
    [authority |-> authority(c), permits_same_domain_admission |-> TRUE,
     record |-> record(c, SettlementSource, t)]))

resolved(c, m, t) ==
  LET succeeded == m.flags = "succeeded"
      delivered(x) == IF ~succeeded THEN no_output(x, t)
                      ELSE IF can_deliver_result(x.gate, authority(x)) THEN output(x, t)
                      ELSE closed(x)
  IN  also(also(also(native(c, event_of(m.flags), t), delivered),
                LAMBDA x : settle(x, t)),
           LAMBDA x : [x EXCEPT !.has_value = succeeded, !.exchange = "idle"])

is_result(c, m) ==
  /\ m.kind = "result"
  /\ \/ c.exchange = "result" /\ m.flags # "not_launched"
     \/ c.exchange = "acceptance" /\ m.flags = "not_launched"

handle(c, m, t) ==
  IF c.exchange = "hello" THEN greeted(c, m, t)
  ELSE IF m.session # c.epoch \/ m.request # c.nonce THEN closed(c)
  ELSE IF c.exchange = "snapshot" THEN prepared(c, m, t)
  ELSE IF c.exchange = "activation" THEN committed(c, m, t)
  ELSE IF ~has_receipt(c.gate) \/ m.operation # authority(c).operation_id THEN closed(c)
  ELSE IF c.exchange = "acceptance" /\ m.kind = "accepted"
    THEN also(native(c, "accepted", t), LAMBDA x : [x EXCEPT !.exchange = "result"])
  ELSE IF is_result(c, m) THEN resolved(c, m, t)
  ELSE closed(c)

\* Calls of the client.  One that closes it hangs up.
Hears(i, result, sent_frames, read_frames) == \E c \in {result} :
  LET hangs == c.state = "closed"
      left == Len(down[i]) > read_frames
  IN  /\ clients' = [clients EXCEPT ![i] = c]
      /\ up' = [up EXCEPT ![i] = IF hangs /\ left THEN <<>> ELSE @ \o sent_frames]
      /\ down' = [down EXCEPT ![i] =
                    IF hangs THEN <<>> ELSE SubSeq(@, read_frames + 1, Len(@))]
      /\ UNCHANGED <<owner, process, child, attached, now, launched, handed>>

is_peer_open(i) == owner.fd = i

Connect ==
  \E i \in Client, t \in Reading :
    /\ i \in attached /\ clients[i].state = "absent"
    /\ clients' = [clients EXCEPT ![i] = new_client("connecting", t)]
    /\ UNCHANGED <<owner, process, child, up, down, attached, now, launched, handed>>

ClientPoll ==
  \E i \in Client, t \in Reading :
    LET c == time(clients[i], t)
        m == SetToSeq(c.pending)
        waits == c.exchange \notin {"idle", "result"}
        unsent == /\ c.pending # {}
                  /\ ~is_fresh(c.queued_at, t) \/ ~is_peer_open(i)
        late == waits /\ ~is_fresh(c.issued_at, t)
    IN  /\ runs(i)
        /\ IF c.state = "closed" THEN Hears(i, c, <<>>, 0)
           ELSE IF unsent THEN Hears(i, closed(c), <<>>, 0)
           ELSE IF late THEN Hears(i, closed(c), m, 0)
           ELSE IF down[i] # <<>>
             THEN Hears(i, handle([c EXCEPT !.pending = {}], Head(down[i]), t), m, 1)
           ELSE Hears(i, IF is_peer_open(i) THEN [c EXCEPT !.pending = {}] ELSE closed(c), m, 0)

Recover ==
  \E i \in Client, t \in Reading : \E c \in {time(clients[i], t)} :
    /\ runs(i)
    /\ c.state = "closed" \/ (c.state = "blocked" /\ c.exchange = "idle")
    /\ Hears(i, also(c, LAMBDA x : also(queued(x, message("query", 0, 0), t),
                LAMBDA y : [y EXCEPT !.query_at = t, !.exchange = "snapshot",
                                     !.state = "recovering"])), <<>>, 0)

submitted(c, t) ==
  LET claimed == claim_dispatch(c.gate, authority(c), t)
      submit == [message("submit", 0, 0) EXCEPT !.operation = authority(c).operation_id]
  IN  IF ~claims_dispatch(c.gate, authority(c), t) THEN closed(c)
      ELSE also(queued([c EXCEPT !.gate = claimed], submit, t),
                LAMBDA x : [x EXCEPT !.exchange = "acceptance"])

Submit ==
  \E i \in Client, t \in Reading : \E c \in {time(clients[i], t)} :
    LET q == [requested_at |-> t, deadline |-> {}, requirements |-> {}]
    IN  /\ runs(i)
        /\ c.state = "closed" \/ (c.state = "ready" /\ c.exchange = "idle")
        /\ Hears(i, also(c, LAMBDA x :
             IF ~admits(x.gate, q) THEN x
             ELSE then([x EXCEPT !.gate = admit(@, q), !.has_value = FALSE],
                       LAMBDA y : submitted(y, t))), <<>>, 0)

\* The host closes its client, ends or crashes.
Leave ==
  \E i \in Client :
    /\ runs(i)
    /\ Hears(i, closed(clients[i]), <<>>, 0)

-----------------------------------------------------------------------------
(* The system around them *)

Rest == UNCHANGED <<owner, process, clients, up, down, attached, launched, handed>>

Work ==
  /\ child.status = "alive"
  /\ child' \in worker_steps(child)
  /\ Rest /\ UNCHANGED now

Die ==
  /\ child.status = "alive" /\ (child.killed \/ "crash" \in Faults)
  /\ child' = exited(child, "killed")
  /\ Rest /\ UNCHANGED now

Tick ==
  /\ now < LastTime
  /\ now' = now + 1
  /\ Rest /\ UNCHANGED child

Next ==
  \/ Connect \/ Attach \/ Poll \/ FinishPoll \/ Destroy
  \/ ClientPoll \/ Recover \/ Submit \/ Leave
  \/ Work \/ Die \/ Tick

Spec == Init /\ [][Next]_vars

-----------------------------------------------------------------------------
(* Properties *)

\* A client never works next to what an earlier session left: when it is ready,
\* no child of an earlier session runs or waits to be waited for, whatever was
\* lost, restarted or late in between.
SessionsDoNotOverlap ==
  \A i \in Client :
    (clients[i].state = "ready" /\ child.status \in {"alive", "exited"}) =>
      owner.operation_session >= clients[i].epoch

\* The child of a session that ended is told to stop, whichever side ended the
\* session and whatever the poll was doing when it did.
OrphanIsStopped ==
  (/\ child.status = "alive" /\ owner.has_process
   /\ owner.fd = 0 \/ owner.operation_session # owner.epoch) =>
     stop_requested(process)

\* What the gate of a client says of an operation is what became of its child:
\* it succeeded only if the child of this session and operation completed, and
\* was rejected only if there was none.  A result of a child of another session
\* is never taken for it.
ResultIsTrue ==
  \A i \in Client :
    LET r == clients[i].gate.receipt
        own == {launched[k] : k \in {k \in 1..Len(launched) :
                  /\ launched[k].session = clients[i].epoch
                  /\ launched[k].operation = r.authority.operation_id}}
    IN  /\ r.outcome = "succeeded" => \A w \in own : w.exit = {"completed"}
        /\ r.outcome \in {"failed", "cancelled"} => \A w \in own : w.exit # {}
        /\ r.outcome \in Terminal => Cardinality(own) = 1
        /\ r.outcome = "not_executed" => own = {}

\* Every child that was started is accounted for once: its result was sent once,
\* or it was given up, or it is the operation of the session.
EveryResultIsAccounted ==
  /\ owner.launches = Len(launched)
  /\ owner.launches = handed + owner.discarded_results
                        + IF owner.operation = 0 THEN 0 ELSE 1
=============================================================================
