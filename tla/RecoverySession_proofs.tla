------------------------ MODULE RecoverySession_proofs ------------------------
(***************************************************************************)
(* What the sessions of a recovery owner leave behind, for every number of   *)
(* hosts, amount of work, lifetime of evidence and width of the counters,    *)
(* and for every loss, crash and delay the module has.                       *)
(***************************************************************************)
EXTENDS RecoverySession, GateProcess_proofs, FiniteSetTheorems

-----------------------------------------------------------------------------
(* Types of what the owner has *)

MessageKind == {"hello", "query", "snapshot", "activate", "activated", "submit",
                "accepted", "result"}
Flags == {"none", "clear", "not_launched", "succeeded", "cancelled", "failed"}

Message == [kind : MessageKind, session : Nat, request : Nat, operation : Nat,
            value : Nat, flags : Flags]
Waiting == {{}} \cup {{m} : m \in Message}

OwnerRecord ==
  [fd : 0..Clients, epoch : Nat, last_now : Nat, fault : BOOLEAN,
   is_gone : BOOLEAN, is_polling : BOOLEAN, active : BOOLEAN,
   last_request : Nat, last_operation : Nat, clear_token : Nat,
   clear_token_at : Nat, pending : Waiting, pending_at : Nat, operation : Nat,
   operation_request : Nat, operation_session : Nat, has_process : BOOLEAN,
   result : Waiting, launches : Nat, discarded_results : Nat]

Launched == [session : Nat, operation : Nat, exit : ExitStatus]

Parts == {"owner", "process", "child", "up", "down", "launched", "handed", "fault"}

Typed(s) ==
  /\ DOMAIN s = Parts
  /\ s.owner \in OwnerRecord /\ s.process \in ProcessRecord
  /\ s.child \in ChildRecord
  /\ s.up \in [Client -> Seq(Message)] /\ s.down \in [Client -> Seq(Message)]
  /\ s.launched \in Seq(Launched) /\ s.handed \in Nat

-----------------------------------------------------------------------------
(* The inductive invariant of the owner, on any state s of it *)

\* The process that the owner has was launched and is not closed, and its child
\* is known to it until it was waited for.
Live(s) ==
  LET p == s.process
  IN  /\ Paced(s.child)
      /\ IF s.owner.has_process
           THEN /\ p.launched /\ ~p.channels_closed /\ ~p.ownership_lost
                /\ s.child.status \in {"alive", "exited", "reaped"}
                /\ p.exit_status = {} <=> s.child.status \in {"alive", "exited"}
                /\ p.is_owned <=> p.exit_status = {}
                /\ s.child.exit = {} <=> s.child.status = "alive"
           ELSE p = new_process /\ s.child = no_child

Runs(s) == s.child.status \in {"alive", "exited"}

\* OrphanIsStopped, from the time the session ends to the collection.
Quiet(s) ==
  (/\ Runs(s)
   /\ s.owner.fd = 0 \/ s.owner.operation_session # s.owner.epoch) =>
     stop_requested(s.process)

\* EveryResultIsAccounted, with what the messages that are due will add.
Accounts(s) ==
  LET o == s.owner
  IN  /\ o.launches = Len(s.launched)
      /\ o.launches = s.handed + o.discarded_results
                      + IF o.operation = 0 THEN 0 ELSE 1
      /\ \A m \in o.result : is_of_child(m) /\ o.operation # 0
      /\ \A m \in o.pending :
           m.kind = "result" => (is_of_child(m) <=> o.operation # 0)

\* What was launched, or refused, in session e for operation id is decided.
Decided(s, e, id) ==
  e < s.owner.epoch \/ (e = s.owner.epoch /\ id <= s.owner.last_operation)

LaunchesOf(s, e, id) ==
  {k \in 1..Len(s.launched) :
     s.launched[k].session = e /\ s.launched[k].operation = id}

\* It was launched once and its child is gone.
Ended(s, e, id, exit) ==
  \E k \in 1..Len(s.launched) :
    /\ LaunchesOf(s, e, id) = {k}
    /\ s.launched[k].exit = exit /\ exit # {}

\* The operations that were launched are told apart by session and number; the
\* last one is that of the process and of the session.
History(s) ==
  LET last == Len(s.launched)
  IN  /\ \A k \in 1..last :
           /\ Decided(s, s.launched[k].session, s.launched[k].operation)
           /\ LaunchesOf(s, s.launched[k].session, s.launched[k].operation) = {k}
      /\ s.owner.has_process => last > 0 /\ s.launched[last].exit = {}
      /\ s.owner.operation # 0 =>
           /\ last > 0
           /\ s.launched[last].session = s.owner.operation_session
           /\ s.launched[last].operation = s.owner.operation

\* Nothing of a session before e runs.
Clean(s, e) == Runs(s) => s.owner.operation_session >= e

\* What a message says of the state is so, and stays so.
Fair(s, m) ==
  /\ m.kind = "activated" => m.session <= s.owner.epoch /\ Clean(s, m.session)
  /\ m.kind = "result" =>
       /\ Decided(s, m.session, m.operation)
       /\ IF m.flags = "not_launched" THEN LaunchesOf(s, m.session, m.operation) = {}
          ELSE \E exit \in ExitStatus :
                 /\ Ended(s, m.session, m.operation, exit)
                 /\ m.flags = "succeeded" => exit = {"completed"}

\* A message on its way to a client.
Says(s, m) ==
  \/ m \in s.owner.pending \/ m \in s.owner.result
  \/ \E i \in Client : \E k \in 1..Len(s.down[i]) : s.down[i][k] = m

Honest(s) == \A m \in Message : Says(s, m) => Fair(s, m)

Sound(s) ==
  Typed(s) /\ Live(s) /\ Quiet(s) /\ Accounts(s) /\ History(s) /\ Honest(s)

\* What held of the sessions up to s holds after a step to r.
Advances(r, s) ==
  /\ s.owner.epoch <= r.owner.epoch
  /\ \A e \in Nat : (e <= s.owner.epoch /\ Clean(s, e)) => Clean(r, e)
  /\ \A e, id \in Nat : Decided(s, e, id) =>
       /\ Decided(r, e, id)
       /\ LaunchesOf(s, e, id) = {} => LaunchesOf(r, e, id) = {}
       /\ \A exit : Ended(s, e, id, exit) => Ended(r, e, id, exit)

LEMMA ClientsNat == Clients \in Nat
BY SessionAssumption, Zenon

LEMMA NewProcessTyped == new_process \in ProcessRecord /\ no_child \in ChildRecord
BY DEF new_process, no_child, ProcessRecord, ChildRecord, Stopped, ExitStatus, Ending

LEMMA NoChildPaced == Paced(no_child)
BY ProcessAssumption DEF Paced, no_child

LEMMA AdvancesSelf == ASSUME NEW s, Typed(s) PROVE Advances(s, s)
BY SMTT(30) DEF Advances, Typed, OwnerRecord

LEMMA AdvancesOn ==
  ASSUME NEW s, NEW r, NEW q, Typed(s), Typed(r), Typed(q),
         Advances(r, s), Advances(q, r)
  PROVE  Advances(q, s)
<1>1. /\ s.owner.epoch \in Nat /\ r.owner.epoch \in Nat /\ q.owner.epoch \in Nat
      /\ s.owner.epoch <= r.owner.epoch /\ r.owner.epoch <= q.owner.epoch
  BY DEF Typed, OwnerRecord, Advances
<1>2. \A e \in Nat : e <= s.owner.epoch /\ Clean(s, e) => Clean(q, e)
  BY <1>1 DEF Advances
<1>3. \A e, id \in Nat : Decided(s, e, id) =>
       /\ Decided(q, e, id)
       /\ LaunchesOf(s, e, id) = {} => LaunchesOf(q, e, id) = {}
       /\ \A exit : Ended(s, e, id, exit) => Ended(q, e, id, exit)
  BY DEF Advances
<1> QED BY <1>1, <1>2, <1>3 DEF Advances

LEMMA FairStays ==
  ASSUME NEW s, NEW r, Typed(s), Typed(r), Advances(r, s), NEW m \in Message, Fair(s, m)
  PROVE  Fair(r, m)
<1>1. m.session \in Nat /\ m.operation \in Nat
  BY DEF Message
<1>2. ASSUME m.kind = "activated"
      PROVE  m.session <= r.owner.epoch /\ Clean(r, m.session)
  <2>1. m.session <= s.owner.epoch /\ Clean(s, m.session)
    BY <1>2 DEF Fair
  <2>2. /\ s.owner.epoch \in Nat /\ r.owner.epoch \in Nat
        /\ s.owner.epoch <= r.owner.epoch
    BY DEF Typed, OwnerRecord, Advances
  <2>3. Clean(r, m.session)
    BY <1>1, <2>1 DEF Advances
  <2> QED BY <1>1, <2>1, <2>2, <2>3
<1>3. ASSUME m.kind = "result"
      PROVE  /\ Decided(r, m.session, m.operation)
             /\ IF m.flags = "not_launched" THEN LaunchesOf(r, m.session, m.operation) = {}
                ELSE \E exit \in ExitStatus :
                       /\ Ended(r, m.session, m.operation, exit)
                       /\ m.flags = "succeeded" => exit = {"completed"}
  BY <1>1, <1>3 DEF Fair, Advances
<1> QED BY <1>2, <1>3 DEF Fair

Step(r, s) == Sound(r) /\ Advances(r, s)

LEMMA StepSelf == ASSUME NEW s, Sound(s) PROVE Step(s, s)
BY AdvancesSelf DEF Step, Sound

LEMMA StepOn ==
  ASSUME NEW s, NEW r, NEW q, Sound(s), Step(r, s), Step(q, r)
  PROVE  Step(q, s)
BY AdvancesOn DEF Step, Sound

\* A step that launches nothing and says nothing that is not so.
LEMMA Moves ==
  ASSUME NEW s, NEW r, Sound(s), Typed(r), Live(r), Quiet(r), Accounts(r),
         r.launched = s.launched, r.owner.epoch = s.owner.epoch,
         s.owner.last_operation <= r.owner.last_operation,
         r.owner.operation_session = s.owner.operation_session,
         Runs(r) => Runs(s),
         r.owner.has_process => s.owner.has_process,
         r.owner.operation \in {0, s.owner.operation},
         \A m \in Message : Says(r, m) => Says(s, m) \/ Fair(s, m)
  PROVE  Step(r, s)
<1>1. Typed(s) /\ Live(s) /\ Quiet(s) /\ Accounts(s) /\ History(s) /\ Honest(s)
  BY DEF Sound
<1>2. /\ s.owner.epoch \in Nat /\ s.owner.last_operation \in Nat
      /\ r.owner.last_operation \in Nat
  BY <1>1 DEF Typed, OwnerRecord
<1>3. \A e, id : LaunchesOf(r, e, id) = LaunchesOf(s, e, id)
  BY DEF LaunchesOf
<1>4. \A e, id \in Nat : Decided(s, e, id) => Decided(r, e, id)
  BY <1>2 DEF Decided
<1>5. Advances(r, s)
  <2>1. \A e, id, exit : Ended(s, e, id, exit) => Ended(r, e, id, exit)
    BY <1>3 DEF Ended
  <2>2. \A e \in Nat : Clean(s, e) => Clean(r, e)
    BY DEF Clean
  <2> QED BY <1>2, <1>3, <1>4, <2>1, <2>2 DEF Advances
<1>6. History(r)
  <2>1. s.launched \in Seq(Launched)
    BY <1>1 DEF Typed
  <2>2. ASSUME NEW k \in 1..Len(s.launched)
        PROVE  s.launched[k].session \in Nat /\ s.launched[k].operation \in Nat
    <3> DEFINE L == s.launched
    <3>1. L \in Seq(Launched) /\ k \in 1..Len(L)
      BY <2>1
    <3> HIDE DEF L
    <3>2. L[k] \in Launched
      BY <3>1
    <3> QED BY <3>2 DEF Launched, L
  <2>3. ASSUME NEW k \in 1..Len(r.launched)
        PROVE  /\ Decided(r, r.launched[k].session, r.launched[k].operation)
               /\ LaunchesOf(r, r.launched[k].session, r.launched[k].operation) = {k}
    <3> DEFINE e == s.launched[k].session
               id == s.launched[k].operation
    <3>1. k \in 1..Len(s.launched)
      OBVIOUS
    <3>2. e \in Nat /\ id \in Nat
      BY <2>2, <3>1
    <3>3. Decided(s, e, id) /\ LaunchesOf(s, e, id) = {k}
      BY <1>1, <3>1 DEF History
    <3>4. Decided(r, e, id) /\ LaunchesOf(r, e, id) = {k}
      BY <1>3, <1>4, <3>2, <3>3
    <3> QED BY <3>4
  <2>4. r.owner.has_process => /\ Len(r.launched) > 0
                               /\ r.launched[Len(r.launched)].exit = {}
    BY <1>1 DEF History
  <2>5. r.owner.operation # 0 =>
           /\ Len(r.launched) > 0
           /\ r.launched[Len(r.launched)].session = r.owner.operation_session
           /\ r.launched[Len(r.launched)].operation = r.owner.operation
    BY <1>1 DEF History
  <2> QED BY <2>3, <2>4, <2>5 DEF History
<1>7. Honest(r)
  BY <1>1, <1>5, FairStays DEF Honest
<1> QED BY <1>5, <1>6, <1>7 DEF Step, Sound

\* A step of the process and its child only.
LEMMA ProcessMoves ==
  ASSUME NEW s, NEW r, Sound(s), Has(r), Beside(r, s), Live(r),
         Runs(r) => Runs(s),
         stop_requested(s.process) => stop_requested(r.process)
  PROVE  Step(r, s)
<1>1. /\ r.owner = s.owner /\ r.up = s.up /\ r.down = s.down
      /\ r.launched = s.launched /\ r.handed = s.handed /\ DOMAIN r = Parts
  BY DEF Sound, Typed, Parts, Beside
<1>2. Typed(r)
  BY <1>1 DEF Sound, Typed, Has
<1>3. Quiet(r) /\ Accounts(r)
  BY <1>1 DEF Sound, Quiet, Accounts
<1>4. \A m \in Message : Says(r, m) => Says(s, m)
  BY <1>1 DEF Says
<1>5. s.owner.last_operation <= r.owner.last_operation
  BY SMTT(30), <1>1 DEF Sound, Typed, OwnerRecord
<1> QED BY <1>1, <1>2, <1>3, <1>4, <1>5, Moves

\* The members of Owner::Impl that the invariant relates to others.
SameBooks(o, p) ==
  /\ o.fd = p.fd /\ o.epoch = p.epoch /\ o.last_operation = p.last_operation
  /\ o.operation = p.operation /\ o.operation_session = p.operation_session
  /\ o.has_process = p.has_process /\ o.result = p.result
  /\ o.launches = p.launches /\ o.discarded_results = p.discarded_results
  /\ o.pending = p.pending

\* A step of the other members only.
LEMMA OwnerMoves ==
  ASSUME NEW s, Sound(s), NEW o \in OwnerRecord, SameBooks(o, s.owner)
  PROVE  Step([s EXCEPT !.owner = o], s)
<1> DEFINE r == [s EXCEPT !.owner = o]
<1>1. /\ r.owner = o /\ r.process = s.process /\ r.child = s.child
      /\ r.up = s.up /\ r.down = s.down
      /\ r.launched = s.launched /\ r.handed = s.handed /\ DOMAIN r = Parts
  BY DEF Sound, Typed, Parts
<1> HIDE DEF r
<1>2. Typed(r)
  BY <1>1 DEF Sound, Typed
<1>3. Live(r) /\ Quiet(r) /\ Accounts(r) /\ (Runs(r) => Runs(s))
  BY <1>1 DEF Sound, Live, Quiet, Accounts, Runs, SameBooks
<1>4. \A m \in Message : Says(r, m) => Says(s, m)
  BY <1>1 DEF Says, SameBooks
<1>5. s.owner.last_operation <= r.owner.last_operation
  <2>1. s.owner.last_operation \in Nat
    BY DEF Sound, Typed, OwnerRecord
  <2> QED BY <1>1, <2>1 DEF SameBooks
<1>6. Step(r, s)
  BY <1>1, <1>2, <1>3, <1>4, <1>5, Moves DEF SameBooks
<1> QED BY <1>6 DEF r

\* A message is due to the client of the session.
LEMMA QueueStep ==
  ASSUME NEW s, Sound(s), NEW m \in Message, Fair(s, m), NEW t \in Nat,
         m.kind = "result" => (is_of_child(m) <=> s.owner.operation # 0)
  PROVE  Step(queue(s, m, t), s)
<1> DEFINE o == [s.owner EXCEPT !.pending = {m}, !.pending_at = t]
           r == queue(s, m, t)
<1>1. s.owner \in OwnerRecord /\ DOMAIN s = Parts
  BY DEF Sound, Typed
<1>2. /\ r.owner = o /\ r.process = s.process /\ r.child = s.child
      /\ r.up = s.up /\ r.down = s.down
      /\ r.launched = s.launched /\ r.handed = s.handed /\ DOMAIN r = Parts
  BY <1>1 DEF queue, Parts
<1>3. /\ o \in OwnerRecord /\ o.pending = {m}
      /\ o.fd = s.owner.fd /\ o.epoch = s.owner.epoch
      /\ o.last_operation = s.owner.last_operation
      /\ o.operation = s.owner.operation /\ o.result = s.owner.result
      /\ o.operation_session = s.owner.operation_session
      /\ o.has_process = s.owner.has_process
      /\ o.launches = s.owner.launches
      /\ o.discarded_results = s.owner.discarded_results
  <2>1. {m} \in Waiting
    BY DEF Waiting
  <2> QED BY <1>1, <2>1 DEF OwnerRecord
<1> HIDE DEF r, o
<1>4. Typed(r)
  BY <1>2, <1>3 DEF Sound, Typed
<1>5. Live(r) /\ Quiet(r) /\ (Runs(r) => Runs(s))
  BY <1>2, <1>3 DEF Sound, Live, Quiet, Runs
<1>6. Accounts(r)
  BY <1>2, <1>3 DEF Sound, Accounts
<1>7. \A x \in Message : Says(r, x) => Says(s, x) \/ Fair(s, x)
  BY <1>2, <1>3 DEF Says
<1>8. s.owner.last_operation <= r.owner.last_operation
  BY <1>1, <1>2, <1>3 DEF OwnerRecord
<1>9. Step(r, s)
  BY <1>2, <1>3, <1>4, <1>5, <1>6, <1>7, <1>8, Moves
<1> QED BY <1>9 DEF r

-----------------------------------------------------------------------------
(* The calls of the owner on the process *)

LEMMA RequestStopStep ==
  ASSUME NEW s, Sound(s), NEW t \in Int, s.owner.has_process
  PROVE  LET r == request_stop(s, t)
         IN  Step(r, s) /\ r.owner = s.owner /\ r.fault = s.fault /\ stop_requested(r.process)
<1> DEFINE r == request_stop(s, t)
<1>1. Has(s) /\ Live(s) /\ DOMAIN s = Parts
  BY DEF Sound, Typed, Has, Parts
<1>2. /\ Has(r) /\ Beside(r, s) /\ SameOwnership(r.process, s.process)
      /\ SameFrames(r, s) /\ stop_requested(r.process)
      /\ r.child.status = s.child.status /\ r.child.exit = s.child.exit
      /\ r.process.channels_closed = s.process.channels_closed
  BY <1>1, RequestStopEffect
<1> HIDE DEF r
<1>3. r.owner = s.owner /\ r.fault = s.fault
  BY <1>1, <1>2 DEF Beside, Parts
<1>4. Live(r) /\ (Runs(r) => Runs(s))
  BY <1>1, <1>2, <1>3 DEF Live, Paced, SameFrames, Runs, SameOwnership
<1>5. Step(r, s)
  BY <1>2, <1>4, ProcessMoves
<1> QED BY <1>2, <1>3, <1>5 DEF r

LEMMA BeginPollStep ==
  ASSUME NEW s, Sound(s), NEW fails \in BOOLEAN, s.owner.has_process
  PROVE  LET r == begin_poll(s, fails)
         IN  Step(r, s) /\ r.owner = s.owner /\ r.fault = s.fault
<1> DEFINE r == drain_events(s, fails)
<1>1. Has(s) /\ Live(s) /\ DOMAIN s = Parts
  BY DEF Sound, Typed, Has, Parts
<1>2. /\ Has(r) /\ Beside(r, s) /\ SameOwnership(r.process, s.process)
      /\ r.process.stop_requested_at = s.process.stop_requested_at
      /\ r.process.channels_closed = s.process.channels_closed
      /\ r.child = [s.child EXCEPT !.pipe = r.child.pipe]
  BY <1>1, DrainEffect
<1> HIDE DEF r
<1>3. r.owner = s.owner /\ r.fault = s.fault
  BY <1>1, <1>2 DEF Beside, Parts
<1>4. /\ r.child.status = s.child.status /\ r.child.exit = s.child.exit
      /\ r.child.at = s.child.at /\ r.child.completed = s.child.completed
      /\ r.child.dropped = s.child.dropped
  BY <1>1, <1>2 DEF Has, ChildRecord
<1>5. Live(r) /\ (Runs(r) => Runs(s)) /\ (stop_requested(s.process) => stop_requested(r.process))
  BY <1>1, <1>2, <1>3, <1>4 DEF Live, Paced, Runs, SameOwnership, stop_requested
<1>6. Step(r, s)
  BY <1>2, <1>5, ProcessMoves
<1>7. begin_poll(s, fails) = r \/ begin_poll(s, fails) = s
  BY DEF begin_poll, r
<1> QED BY <1>3, <1>6, <1>7, StepSelf

LEMMA FinishPollStep ==
  ASSUME NEW s, Sound(s), NEW t \in Int, s.owner.has_process
  PROVE  LET r == finish_poll(s, t, FALSE)
         IN  Step(r, s) /\ r.owner = s.owner /\ r.fault = s.fault
<1> DEFINE r == finish_poll(s, t, FALSE)
<1>1. Has(s) /\ Live(s) /\ DOMAIN s = Parts
  BY DEF Sound, Typed, Has, Parts
<1>2. /\ Has(r) /\ Beside(r, s) /\ SameFrames(r, s) /\ SameStop(r, s) /\ Collected(r, s)
  <2>1. polls(s.process)
    BY <1>1 DEF Live, polls
  <2> QED BY <1>1, <2>1, FinishPollEffect
<1> HIDE DEF r
<1>3. r.owner = s.owner /\ r.fault = s.fault
  BY <1>1, <1>2 DEF Beside, Parts
<1>4. Live(r) /\ (Runs(r) => Runs(s)) /\ (stop_requested(s.process) => stop_requested(r.process))
  BY <1>1, <1>2, <1>3 DEF Live, Paced, SameFrames, Runs, SameStop, Collected, stop_requested
<1>5. Step(r, s)
  BY <1>2, <1>4, ProcessMoves
<1> QED BY <1>3, <1>5 DEF r

-----------------------------------------------------------------------------
(* The end of a session *)

LEMMA ForgottenStep ==
  ASSUME NEW s, Sound(s)
  PROVE  LET r == forgotten(s)
         IN  /\ Step(r, s) /\ r.process = s.process /\ r.child = s.child
             /\ r.owner.has_process = s.owner.has_process
             /\ r.owner.fd = s.owner.fd /\ r.owner.operation = 0 /\ r.fault = s.fault
<1> DEFINE lost == IF s.owner.operation # 0 THEN s.owner.discarded_results + 1
                   ELSE s.owner.discarded_results
           o == [s.owner EXCEPT !.discarded_results = lost, !.operation = 0,
                   !.result = {}, !.active = FALSE, !.clear_token = 0, !.pending = {}]
           r == forgotten(s)
<1>1. s.owner \in OwnerRecord /\ DOMAIN s = Parts
  BY DEF Sound, Typed
<1>2. lost \in Nat
  BY <1>1 DEF OwnerRecord
<1>3. /\ r.owner = o /\ r.process = s.process /\ r.child = s.child
      /\ r.up = s.up /\ r.down = s.down /\ r.fault = s.fault
      /\ r.launched = s.launched /\ r.handed = s.handed /\ DOMAIN r = Parts
  BY <1>1 DEF forgotten, Parts, OwnerRecord
<1>4. lost = IF s.owner.operation # 0 THEN s.owner.discarded_results + 1
             ELSE s.owner.discarded_results
  OBVIOUS
<1> HIDE DEF lost
<1>5. /\ o \in OwnerRecord /\ o.pending = {} /\ o.result = {} /\ o.operation = 0
      /\ o.fd = s.owner.fd /\ o.epoch = s.owner.epoch
      /\ o.last_operation = s.owner.last_operation
      /\ o.operation_session = s.owner.operation_session
      /\ o.has_process = s.owner.has_process
      /\ o.launches = s.owner.launches /\ o.discarded_results = lost
  BY <1>1, <1>2 DEF OwnerRecord, Waiting
<1> HIDE DEF r, o
<1>6. Typed(r)
  BY <1>3, <1>5 DEF Sound, Typed
<1>7. Live(r) /\ Quiet(r) /\ (Runs(r) => Runs(s))
  BY <1>3, <1>5 DEF Sound, Live, Quiet, Runs
<1>8. Accounts(r)
  <2>1. Accounts(s) /\ s.handed \in Nat
    BY DEF Sound, Typed
  <2>2. s.owner.discarded_results \in Nat /\ s.owner.launches \in Nat
    BY <1>1 DEF OwnerRecord
  <2> QED BY <1>3, <1>4, <1>5, <2>1, <2>2 DEF Accounts
<1>9. \A x \in Message : Says(r, x) => Says(s, x)
  BY <1>3, <1>5 DEF Says
<1>10. s.owner.last_operation <= r.owner.last_operation
  BY <1>1, <1>3, <1>5 DEF OwnerRecord
<1>11. Step(r, s)
  BY <1>3, <1>5, <1>6, <1>7, <1>8, <1>9, <1>10, Moves
<1> QED BY <1>3, <1>5, <1>11 DEF r

LEMMA HungUpStep ==
  ASSUME NEW s, Sound(s), Runs(s) => stop_requested(s.process)
  PROVE  LET r == hung_up(s)
         IN  /\ Step(r, s) /\ r.process = s.process /\ r.child = s.child
             /\ r.owner.fd = 0 /\ r.owner.operation = s.owner.operation /\ r.fault = s.fault
             /\ r.owner.has_process = s.owner.has_process
<1>1. s.owner \in OwnerRecord /\ DOMAIN s = Parts
  BY DEF Sound, Typed
<1>2. CASE s.owner.fd = 0
  BY <1>2, StepSelf DEF hung_up
<1>3. CASE s.owner.fd # 0
  <2> DEFINE i == s.owner.fd
             fault == s.owner.fault \/ s.fault = "session"
             o == [s.owner EXCEPT !.fd = 0, !.fault = fault]
             kept == IF s.up[i] = <<>> THEN s.down[i] ELSE <<>>
             r == hung_up(s)
  <2>1. i \in Client
    BY <1>1, <1>3 DEF OwnerRecord, Client
  <2>2. /\ s.up \in [Client -> Seq(Message)] /\ s.down \in [Client -> Seq(Message)]
    BY DEF Sound, Typed
  <2>3. fault \in BOOLEAN
    BY <1>1 DEF OwnerRecord
  <2>4. kept \in Seq(Message) /\ kept \in {s.down[i], <<>>}
    BY <2>1, <2>2
  <2>5. /\ r.owner = o /\ r.process = s.process /\ r.child = s.child
        /\ r.up = [s.up EXCEPT ![i] = <<>>]
        /\ r.down = [s.down EXCEPT ![i] = kept] /\ r.fault = s.fault
        /\ r.launched = s.launched /\ r.handed = s.handed /\ DOMAIN r = Parts
    BY <1>1, <1>3 DEF hung_up, Parts, OwnerRecord
  <2> HIDE DEF fault, kept
  <2>6. /\ o \in OwnerRecord /\ o.fd = 0 /\ o.epoch = s.owner.epoch
        /\ o.last_operation = s.owner.last_operation
        /\ o.operation_session = s.owner.operation_session
        /\ o.operation = s.owner.operation /\ o.pending = s.owner.pending
        /\ o.result = s.owner.result /\ o.has_process = s.owner.has_process
        /\ o.launches = s.owner.launches
        /\ o.discarded_results = s.owner.discarded_results
    <3>1. 0 \in 0..Clients
      BY ClientsNat
    <3>2. o \in OwnerRecord
      BY <1>1, <2>3, <3>1 DEF OwnerRecord
    <3> QED BY <1>1, <3>2 DEF OwnerRecord
  <2> HIDE DEF r, o
  <2>7. Typed(r)
    <3>1. /\ r.up \in [Client -> Seq(Message)] /\ r.down \in [Client -> Seq(Message)]
      BY <2>1, <2>2, <2>4, <2>5
    <3> QED BY <2>5, <2>6, <3>1 DEF Sound, Typed
  <2>8. Live(r) /\ Quiet(r) /\ (Runs(r) => Runs(s))
    BY <2>5, <2>6 DEF Sound, Live, Quiet, Runs
  <2>9. Accounts(r)
    BY <2>5, <2>6 DEF Sound, Accounts
  <2>10. \A x \in Message : Says(r, x) => Says(s, x)
    <3>1. \A j \in Client : r.down[j] = s.down[j] \/ r.down[j] = <<>>
      BY <2>1, <2>2, <2>4, <2>5
    <3>2. \A j \in Client : \A k \in 1..Len(r.down[j]) : r.down[j] = s.down[j]
      BY <3>1
    <3> QED BY <2>5, <2>6, <3>2 DEF Says
  <2>11. s.owner.last_operation <= r.owner.last_operation
    <3>1. s.owner.last_operation \in Nat
      BY <1>1 DEF OwnerRecord
    <3> QED BY <2>5, <2>6, <3>1
  <2>12. Step(r, s)
    BY <2>5, <2>6, <2>7, <2>8, <2>9, <2>10, <2>11, Moves
  <2> QED BY <2>5, <2>6, <2>12 DEF r
<1> QED BY <1>2, <1>3

\* A session that is given up leaves a child that was told to stop.
LEMMA DisconnectStep ==
  ASSUME NEW s, Sound(s), NEW t \in Int
  PROVE  LET r == disconnect(s, t)
         IN  /\ Step(r, s) /\ r.owner.fd = 0 /\ r.owner.operation = 0
             /\ r.owner.has_process = s.owner.has_process /\ r.fault = s.fault
<1> DEFINE owns == /\ s.owner.has_process /\ s.process.launched
                   /\ s.process.exit_status = {}
           x == IF owns THEN request_stop(s, t) ELSE s
           f == forgotten(x)
           r == hung_up(f)
<1>1. /\ Step(x, s) /\ (Runs(x) => stop_requested(x.process))
      /\ x.owner.has_process = s.owner.has_process /\ x.fault = s.fault
  <2>1. CASE owns
    BY <2>1, RequestStopStep
  <2>2. CASE ~owns
    <3>1. ~Runs(s)
      BY <2>2 DEF Sound, Live, Runs, no_child
    <3> QED BY <2>2, <3>1, StepSelf
  <2> QED BY <2>1, <2>2
<1>2. disconnect(s, t) = r
  BY DEF disconnect, then
<1> HIDE DEF x
<1>3. /\ Step(f, x) /\ f.process = x.process /\ f.child = x.child /\ f.owner.operation = 0
      /\ f.owner.has_process = s.owner.has_process /\ f.fault = s.fault
  BY <1>1, ForgottenStep DEF Step
<1> HIDE DEF f
<1>4. /\ Step(r, f) /\ r.owner.fd = 0 /\ r.owner.operation = 0
      /\ r.owner.has_process = s.owner.has_process /\ r.fault = s.fault
  <2>1. Sound(f) /\ (Runs(f) => stop_requested(f.process))
    BY <1>1, <1>3 DEF Step, Runs
  <2> QED BY <1>3, <2>1, HungUpStep
<1> HIDE DEF r
<1>5. Step(f, s)
  BY <1>1, <1>3, StepOn
<1>6. Step(r, s)
  BY <1>4, <1>5, StepOn
<1> QED BY <1>2, <1>4, <1>6

LEMMA FaultedStep ==
  ASSUME NEW s, Sound(s), NEW t \in Int
  PROVE  LET r == faulted(s, t)
         IN  /\ Step(r, s) /\ r.owner.fd = 0 /\ r.owner.operation = 0
             /\ r.owner.has_process = s.owner.has_process /\ r.fault = s.fault
<1> DEFINE o == [s.owner EXCEPT !.fault = TRUE]
           x == [s EXCEPT !.owner = o]
<1>1. s.owner \in OwnerRecord /\ DOMAIN s = Parts
  BY DEF Sound, Typed
<1>2. o \in OwnerRecord /\ SameBooks(o, s.owner)
  BY <1>1 DEF OwnerRecord, SameBooks
<1>3. x.owner.has_process = s.owner.has_process /\ x.fault = s.fault
  BY <1>1, <1>2 DEF SameBooks, Parts
<1>4. faulted(s, t) = disconnect(x, t)
  BY <1>1 DEF faulted, Parts
<1> HIDE DEF o
<1>5. Step(x, s)
  BY <1>2, OwnerMoves
<1> HIDE DEF x
<1> DEFINE r == disconnect(x, t)
<1>6. /\ Step(r, x) /\ r.owner.fd = 0 /\ r.owner.operation = 0
      /\ r.owner.has_process = x.owner.has_process /\ r.fault = x.fault
  BY <1>5, DisconnectStep DEF Step
<1> HIDE DEF r
<1>7. Step(r, s)
  BY <1>5, <1>6, StepOn
<1> QED BY <1>3, <1>4, <1>6, <1>7 DEF r

-----------------------------------------------------------------------------
(* Messages to the client, and the collection of the child *)

LEMMA WaitingIs ==
  ASSUME NEW s, Sound(s), NEW m, m \in s.owner.pending \/ m \in s.owner.result
  PROVE  /\ m \in Message /\ Fair(s, m)
         /\ m \in s.owner.pending => s.owner.pending = {m}
         /\ m \in s.owner.result => /\ s.owner.result = {m}
                                    /\ is_of_child(m) /\ s.owner.operation # 0
         /\ m \in s.owner.pending /\ m.kind = "result" =>
              (is_of_child(m) <=> s.owner.operation # 0)
<1>1. s.owner.pending \in Waiting /\ s.owner.result \in Waiting
  BY DEF Sound, Typed, OwnerRecord
<1>2. m \in Message
  BY <1>1 DEF Waiting
<1>3. m \in s.owner.pending => s.owner.pending = {m}
  BY <1>1 DEF Waiting
<1>4. m \in s.owner.result => s.owner.result = {m}
  BY <1>1 DEF Waiting
<1>5. Fair(s, m)
  BY <1>2 DEF Sound, Honest, Says
<1> QED BY <1>2, <1>3, <1>4, <1>5 DEF Sound, Accounts

LEMMA SentStep ==
  ASSUME NEW s, Sound(s), NEW m \in s.owner.pending, s.owner.fd # 0
  PROVE  Step(sent_message(s, m), s)
<1> DEFINE i == s.owner.fd
           told == IF m.kind = "result" THEN 0 ELSE s.owner.operation
           due == IF m.kind = "result" THEN {} ELSE s.owner.result
           count == IF is_of_child(m) THEN s.handed + 1 ELSE s.handed
           o == [s.owner EXCEPT !.pending = {}, !.operation = told, !.result = due]
           r == sent_message(s, m)
<1>1. s.owner \in OwnerRecord /\ DOMAIN s = Parts /\ s.handed \in Nat
  BY DEF Sound, Typed
<1>2. i \in Client
  BY <1>1 DEF OwnerRecord, Client
<1>3. /\ s.up \in [Client -> Seq(Message)] /\ s.down \in [Client -> Seq(Message)]
  BY DEF Sound, Typed
<1>4. /\ m \in Message /\ Fair(s, m)
      /\ m.kind = "result" => (is_of_child(m) <=> s.owner.operation # 0)
  BY WaitingIs
<1>5. told \in Nat /\ due \in Waiting /\ count \in Nat
  BY <1>1 DEF OwnerRecord, Waiting
<1>6. /\ r.owner = o /\ r.process = s.process /\ r.child = s.child
      /\ r.up = s.up /\ r.down = [s.down EXCEPT ![i] = Append(s.down[i], m)]
      /\ r.launched = s.launched /\ r.handed = count /\ DOMAIN r = Parts
  BY <1>1, <1>2, <1>3 DEF sent_message, Parts, OwnerRecord
<1>7. /\ told = IF m.kind = "result" THEN 0 ELSE s.owner.operation
      /\ due = IF m.kind = "result" THEN {} ELSE s.owner.result
      /\ count = IF is_of_child(m) THEN s.handed + 1 ELSE s.handed
  OBVIOUS
<1> HIDE DEF told, due, count
<1>8. /\ o \in OwnerRecord /\ o.pending = {} /\ o.result = due /\ o.operation = told
      /\ o.fd = s.owner.fd /\ o.epoch = s.owner.epoch
      /\ o.last_operation = s.owner.last_operation
      /\ o.operation_session = s.owner.operation_session
      /\ o.has_process = s.owner.has_process
      /\ o.launches = s.owner.launches
      /\ o.discarded_results = s.owner.discarded_results
  BY <1>1, <1>5 DEF OwnerRecord, Waiting
<1> HIDE DEF r, o
<1>9. Typed(r)
  <2>1. r.down \in [Client -> Seq(Message)]
    BY <1>2, <1>3, <1>4, <1>6
  <2> QED BY <1>3, <1>5, <1>6, <1>8, <2>1 DEF Sound, Typed
<1>10. Live(r) /\ Quiet(r) /\ (Runs(r) => Runs(s))
  BY <1>6, <1>8 DEF Sound, Live, Quiet, Runs
<1>11. Accounts(r)
  <2>1. Accounts(s)
    BY DEF Sound
  <2>2. s.owner.discarded_results \in Nat /\ s.owner.launches \in Nat
    BY <1>1 DEF OwnerRecord
  <2>3. is_of_child(m) => m.kind = "result"
    BY DEF is_of_child
  <2>4. r.owner.launches = r.handed + r.owner.discarded_results
                           + IF r.owner.operation = 0 THEN 0 ELSE 1
    <3>1. CASE m.kind = "result"
      BY <1>1, <1>4, <1>6, <1>7, <1>8, <2>1, <2>2, <3>1 DEF Accounts
    <3>2. CASE m.kind # "result"
      BY <1>1, <1>6, <1>7, <1>8, <2>1, <2>2, <2>3, <3>2 DEF Accounts
    <3> QED BY <3>1, <3>2
  <2> QED BY <1>6, <1>7, <1>8, <2>1, <2>4 DEF Accounts
<1>12. \A x \in Message : Says(r, x) => Says(s, x)
  <2> SUFFICES ASSUME NEW x \in Message, Says(r, x)
               PROVE  Says(s, x)
    OBVIOUS
  <2>1. CASE x \in r.owner.pending \/ x \in r.owner.result
    BY <1>6, <1>7, <1>8, <2>1 DEF Says
  <2>2. ASSUME NEW j \in Client, NEW k \in 1..Len(r.down[j]), r.down[j][k] = x
        PROVE  Says(s, x)
    <3>1. CASE j # i
      BY <1>3, <1>6, <2>2, <3>1 DEF Says
    <3>2. CASE j = i
      <4> DEFINE D == s.down[i]
      <4>1. D \in Seq(Message)
        BY <1>2, <1>3
      <4>2. r.down[j] = Append(D, m)
        BY <1>2, <1>3, <1>6, <3>2
      <4>3. \A n \in 1..Len(D) : D[n] = x => Says(s, x)
        BY <1>2 DEF Says
      <4>4. m = x => Says(s, x)
        BY DEF Says
      <4> HIDE DEF D
      <4>5. (k \in 1..Len(D) /\ D[k] = x) \/ m = x
        BY <1>4, <2>2, <4>1, <4>2
      <4> QED BY <4>3, <4>4, <4>5
    <3> QED BY <3>1, <3>2
  <2> QED BY <2>1, <2>2 DEF Says
<1>13. s.owner.last_operation <= r.owner.last_operation
  <2>1. s.owner.last_operation \in Nat
    BY <1>1 DEF OwnerRecord
  <2> QED BY <1>6, <1>8, <2>1
<1>14. Step(r, s)
  BY <1>6, <1>7, <1>8, <1>9, <1>10, <1>11, <1>12, <1>13, Moves
<1> QED BY <1>14 DEF r

LEMMA FlushStep ==
  ASSUME NEW s, Sound(s), NEW t \in Int, s.owner.fd # 0
  PROVE  Step(flush(s, t), s)
<1> DEFINE m == CHOOSE m \in s.owner.pending : TRUE
<1>1. s.owner.pending # {} => m \in s.owner.pending
  OBVIOUS
<1> HIDE DEF m
<1>2. s.owner.pending # {} => Step(sent_message(s, m), s)
  BY <1>1, SentStep
<1>3. Step(disconnect(s, t), s) /\ Step(s, s)
  BY DisconnectStep, StepSelf
<1>4. \/ flush(s, t) = s
      \/ flush(s, t) = disconnect(s, t)
      \/ s.owner.pending # {} /\ flush(s, t) = sent_message(s, m)
  BY DEF flush, m
<1> QED BY <1>2, <1>3, <1>4

LEMMA QueueResultStep ==
  ASSUME NEW s, Sound(s), NEW t \in Nat
  PROVE  Step(queue_result(s, t), s) /\ queue_result(s, t).owner.fd = s.owner.fd
<1>1. CASE s.owner.pending # {} \/ s.owner.result = {}
  BY <1>1, StepSelf DEF queue_result
<1>2. CASE ~(s.owner.pending # {} \/ s.owner.result = {})
  <2> DEFINE m == CHOOSE m \in s.owner.result : TRUE
  <2>1. m \in s.owner.result
    BY <1>2
  <2>2. queue_result(s, t) = queue(s, m, t)
    BY <1>2 DEF queue_result
  <2> HIDE DEF m
  <2>3. m \in Message /\ Fair(s, m) /\ is_of_child(m) /\ s.owner.operation # 0
    BY <2>1, WaitingIs
  <2>4. Step(queue(s, m, t), s)
    BY <2>3, QueueStep
  <2>5. queue(s, m, t).owner.fd = s.owner.fd
    BY DEF queue, Sound, Typed, Parts, OwnerRecord
  <2> QED BY <2>2, <2>4, <2>5
<1> QED BY <1>1, <1>2

\* Channels that were not closed are there for the next poll.
LEMMA CloseStep ==
  ASSUME NEW s, Sound(s), s.owner.has_process, NEW fails \in BOOLEAN,
         ~close_channels(s, fails).process.channels_closed
  PROVE  Step(close_channels(s, fails), s)
<1> DEFINE r == close_channels(s, fails)
<1>1. Has(s) /\ Live(s) /\ DOMAIN s = Parts
  BY DEF Sound, Typed, Has, Parts
<1>2. /\ Has(r) /\ Beside(r, s) /\ SameOwnership(r.process, s.process)
      /\ r.child = s.child
      /\ r.process.stop_requested_at = s.process.stop_requested_at
  BY <1>1, CloseChannelsEffect
<1>3. ~r.process.channels_closed
  OBVIOUS
<1> HIDE DEF r
<1>4. r.owner = s.owner
  BY <1>1, <1>2 DEF Beside, Parts
<1>5. Live(r) /\ (Runs(r) => Runs(s)) /\ (stop_requested(s.process) => stop_requested(r.process))
  BY <1>1, <1>2, <1>3, <1>4 DEF Live, Runs, SameOwnership, stop_requested
<1>6. Step(r, s)
  BY <1>2, <1>5, ProcessMoves
<1> QED BY <1>6 DEF r

\* A child that is let go of has ended, and the result says how.
LEMMA CollectedStep ==
  ASSUME NEW s, Sound(s), s.owner.has_process, NEW fails \in BOOLEAN,
         close_channels(s, fails).process.channels_closed
  PROVE  Step(collected(close_channels(s, fails)), s)
<1> DEFINE x == close_channels(s, fails)
           p == x.process
           last == Len(s.launched)
           w == s.launched[last]
           ended == [w EXCEPT !.exit = p.exit_status]
           m == [message("result", s.owner.operation_session, s.owner.operation_request)
                   EXCEPT !.operation = s.owner.operation, !.flags = outcome(p)]
           due == IF s.owner.operation = 0 \/ s.owner.fd = 0 THEN s.owner.result ELSE {m}
           o == [s.owner EXCEPT !.has_process = FALSE, !.result = due]
           r == collected(x)
<1>1. Has(s) /\ Live(s) /\ DOMAIN s = Parts /\ s.owner \in OwnerRecord
  BY DEF Sound, Typed, Has, Parts
<1>2. /\ Has(x) /\ Beside(x, s) /\ SameOwnership(p, s.process)
      /\ ~can_close(s.process) => x = s
  BY <1>1, CloseChannelsEffect
<1>3. p.channels_closed
  OBVIOUS
<1> HIDE DEF x
<1>4. p.exit_status \in ExitStatus /\ p.exit_status # {}
  BY <1>1, <1>2, <1>3 DEF Live, can_close, SameOwnership, Has, ProcessRecord
<1>5. /\ x.owner = s.owner /\ x.up = s.up /\ x.down = s.down /\ x.fault = s.fault
      /\ x.launched = s.launched /\ x.handed = s.handed /\ DOMAIN x = Parts
  BY <1>1, <1>2 DEF Beside, Parts
<1>6. History(s) /\ Accounts(s) /\ Honest(s) /\ s.launched \in Seq(Launched)
  BY DEF Sound, Typed
<1>7. last \in 1..Len(s.launched) /\ w.exit = {}
  BY <1>1, <1>6 DEF History
<1>8. w \in Launched
  BY <1>6, <1>7
<1>9. /\ outcome(p) \in {"succeeded", "cancelled", "failed"}
      /\ outcome(p) = "succeeded" => p.exit_status = {"completed"}
  BY DEF outcome
<1>10. r.launched = [s.launched EXCEPT ![last] = ended]
  BY <1>5, <1>7, <1>8, <1>6 DEF collected, Parts, Launched
<1>11. /\ r.owner = o /\ r.process = new_process /\ r.child = no_child
       /\ r.up = s.up /\ r.down = s.down
       /\ r.handed = s.handed /\ DOMAIN r = Parts
  BY <1>5, <1>1 DEF collected, Parts, OwnerRecord
<1>12. /\ m.kind = "result" /\ m.session = s.owner.operation_session
       /\ m.operation = s.owner.operation /\ m.flags = outcome(p) /\ m \in Message
  BY <1>1, <1>9 DEF message, Message, MessageKind, Flags, OwnerRecord
<1>13. /\ ended \in Launched /\ ended.exit = p.exit_status
       /\ ended.session = w.session /\ ended.operation = w.operation
  BY <1>4, <1>8 DEF Launched
<1>14. due = (IF s.owner.operation = 0 \/ s.owner.fd = 0 THEN s.owner.result ELSE {m})
  OBVIOUS
<1>15. due \in Waiting
  BY <1>1, <1>12 DEF Waiting, OwnerRecord
<1> HIDE DEF ended, m, due
<1>16. /\ o \in OwnerRecord /\ o.pending = s.owner.pending /\ o.result = due
       /\ o.operation = s.owner.operation /\ o.fd = s.owner.fd
       /\ o.epoch = s.owner.epoch /\ o.last_operation = s.owner.last_operation
       /\ o.operation_session = s.owner.operation_session
       /\ ~o.has_process
       /\ o.launches = s.owner.launches
       /\ o.discarded_results = s.owner.discarded_results
  BY <1>1, <1>15 DEF OwnerRecord
<1> HIDE DEF r, o
<1>17. /\ r.launched \in Seq(Launched) /\ Len(r.launched) = last
       /\ \A k \in 1..last :
            /\ r.launched[k].session = s.launched[k].session
            /\ r.launched[k].operation = s.launched[k].operation
            /\ r.launched[k].exit = IF k = last THEN p.exit_status ELSE s.launched[k].exit
  <2> DEFINE L == s.launched
             R == r.launched
  <2>1. /\ L \in Seq(Launched) /\ last \in 1..Len(L) /\ w = L[last]
        /\ R = [L EXCEPT ![last] = ended]
    BY <1>6, <1>7, <1>10
  <2>2. last = Len(L)
    OBVIOUS
  <2> HIDE DEF L, R, last, w
  <2>3. /\ R \in Seq(Launched) /\ Len(R) = last
        /\ \A k \in 1..last : R[k] = IF k = last THEN ended ELSE L[k]
    BY <1>13, <2>1, <2>2
  <2>4. \A k \in 1..last :
          /\ R[k].session = L[k].session /\ R[k].operation = L[k].operation
          /\ R[k].exit = IF k = last THEN p.exit_status ELSE L[k].exit
    BY <1>13, <2>1, <2>3
  <2> QED BY <2>3, <2>4 DEF L, R
<1>18. \A e, id : LaunchesOf(r, e, id) = LaunchesOf(s, e, id)
  BY <1>17 DEF LaunchesOf
<1>19. \A e, id : Decided(r, e, id) <=> Decided(s, e, id)
  BY <1>11, <1>16 DEF Decided
<1>20. Advances(r, s)
  <2>1. ~Runs(r)
    BY <1>11 DEF Runs, no_child
  <2>2. \A e, id, exit : Ended(s, e, id, exit) => Ended(r, e, id, exit)
    <3> SUFFICES ASSUME NEW e, NEW id, NEW exit, Ended(s, e, id, exit)
                 PROVE  Ended(r, e, id, exit)
      OBVIOUS
    <3>1. PICK k \in 1..last : /\ LaunchesOf(s, e, id) = {k}
                               /\ s.launched[k].exit = exit /\ exit # {}
      BY DEF Ended
    <3>2. k # last
      BY <1>7, <3>1
    <3>3. LaunchesOf(r, e, id) = {k} /\ r.launched[k].exit = exit
      BY <1>17, <1>18, <3>1, <3>2
    <3> QED BY <1>17, <3>1, <3>3 DEF Ended
  <2>3. s.owner.epoch \in Nat /\ r.owner.epoch = s.owner.epoch
    BY <1>1, <1>11, <1>16 DEF OwnerRecord
  <2> QED BY <1>18, <1>19, <2>1, <2>2, <2>3 DEF Advances, Clean
<1>21. Typed(r)
  BY <1>11, <1>16, <1>17, NewProcessTyped DEF Sound, Typed
<1>22. Live(r) /\ Quiet(r)
  BY <1>11, <1>16, NoChildPaced DEF Live, Quiet, Runs, no_child
<1>23. Accounts(r)
  <2>1. s.owner.operation # 0 /\ s.owner.fd # 0 => is_of_child(m)
    BY <1>9, <1>12 DEF is_of_child
  <2> QED BY ZenonT(60), <1>6, <1>11, <1>14, <1>16, <1>17, <2>1 DEF Accounts
<1>24. History(r)
  <2>1. \A k \in 1..last :
           /\ Decided(r, r.launched[k].session, r.launched[k].operation)
           /\ LaunchesOf(r, r.launched[k].session, r.launched[k].operation) = {k}
    <3> SUFFICES ASSUME NEW k \in 1..last
                 PROVE  /\ Decided(r, r.launched[k].session, r.launched[k].operation)
                        /\ LaunchesOf(r, r.launched[k].session, r.launched[k].operation) = {k}
      OBVIOUS
    <3> DEFINE e == s.launched[k].session
               id == s.launched[k].operation
    <3>1. Decided(s, e, id) /\ LaunchesOf(s, e, id) = {k}
      BY <1>6 DEF History
    <3>2. r.launched[k].session = e /\ r.launched[k].operation = id
      BY <1>17
    <3> HIDE DEF e, id
    <3> QED BY <1>18, <1>19, <3>1, <3>2
  <2>2. r.owner.operation # 0 =>
           /\ last > 0
           /\ r.launched[last].session = r.owner.operation_session
           /\ r.launched[last].operation = r.owner.operation
    BY <1>6, <1>7, <1>11, <1>16, <1>17 DEF History
  <2> QED BY <1>11, <1>16, <1>17, <2>1, <2>2 DEF History
<1>25. Honest(r)
  <2> SUFFICES ASSUME NEW y \in Message, Says(r, y)
               PROVE  Fair(r, y)
    BY DEF Honest
  <2>1. CASE Says(s, y)
    BY <1>6, <1>20, <1>21, <2>1, FairStays DEF Honest, Sound
  <2>2. CASE ~Says(s, y)
    <3>1. y = m /\ s.owner.operation # 0
      BY <1>11, <1>14, <1>16, <2>2 DEF Says
    <3>2. w.session = m.session /\ w.operation = m.operation
      BY <1>6, <1>12, <3>1 DEF History
    <3>3. Decided(r, m.session, m.operation) /\ LaunchesOf(r, m.session, m.operation) = {last}
      <4> DEFINE e == w.session
                 id == w.operation
      <4>1. Decided(s, e, id) /\ LaunchesOf(s, e, id) = {last}
        BY <1>6, <1>7 DEF History
      <4> HIDE DEF e, id
      <4>2. Decided(r, e, id) /\ LaunchesOf(r, e, id) = {last}
        BY <1>18, <1>19, <4>1
      <4> QED BY <3>2, <4>2 DEF e, id
    <3>4. Ended(r, m.session, m.operation, p.exit_status)
      BY <1>4, <1>7, <1>17, <3>3 DEF Ended
    <3>5. m.flags # "not_launched" /\ (m.flags = "succeeded" => p.exit_status = {"completed"})
      BY <1>9, <1>12
    <3> QED BY <1>4, <1>12, <3>1, <3>3, <3>4, <3>5 DEF Fair
  <2> QED BY <2>1, <2>2
<1>26. Step(r, s)
  BY <1>20, <1>21, <1>22, <1>23, <1>24, <1>25 DEF Step, Sound
<1> QED BY <1>26 DEF r, x

LEMMA ObserveStep ==
  ASSUME NEW s, Sound(s), NEW t \in Int
  PROVE  Step(observe_process(s, t), s)
<1>1. CASE ~s.owner.has_process
  BY <1>1, StepSelf DEF observe_process
<1>2. CASE s.owner.has_process
  <2> DEFINE fails == s.fault = "close"
             x == finish_poll(s, t, FALSE)
             broken == \/ x.process.ownership_lost \/ x.process.malformed
                       \/ x.process.io_error
             y == IF broken THEN faulted(x, t) ELSE x
             ended == y.process.exit_status # {} /\ y.process.event_eof
             c == close_channels(y, fails)
             z == IF c.process.channels_closed THEN collected(c) ELSE faulted(c, t)
             r == IF ended THEN z ELSE y
  <2>1. Step(x, s) /\ x.owner = s.owner
    BY <1>2, FinishPollStep
  <2>2. observe_process(s, t) = r
    <3> HIDE DEF x, y, z, c
    <3>1. then(x, LAMBDA v : IF \/ v.process.ownership_lost \/ v.process.malformed
                                \/ v.process.io_error
                               THEN faulted(v, t) ELSE v) = y
      BY DEF then, y
    <3>2. then(c, LAMBDA v : IF v.process.channels_closed THEN collected(v)
                             ELSE faulted(v, t)) = z
      BY DEF then, z
    <3>3. then(y, LAMBDA v :
            IF v.process.exit_status # {} /\ v.process.event_eof
              THEN then(close_channels(v, s.fault = "close"),
                        LAMBDA u : IF u.process.channels_closed THEN collected(u)
                                   ELSE faulted(u, t))
              ELSE v) = r
      BY <3>2 DEF then, c
    <3> QED BY <1>2, <3>1, <3>3 DEF observe_process, x
  <2>3. fails \in BOOLEAN
    OBVIOUS
  <2> HIDE DEF x, fails
  <2>4. Step(y, x) /\ y.owner.has_process
    BY <1>2, <2>1, FaultedStep, StepSelf DEF Step
  <2> HIDE DEF y
  <2>5. Step(z, y)
    <3>1. CASE c.process.channels_closed
      BY <2>3, <2>4, <3>1, CollectedStep DEF Step
    <3>2. CASE ~c.process.channels_closed
      <4>1. Step(c, y)
        BY <2>3, <2>4, <3>2, CloseStep DEF Step
      <4>2. Step(faulted(c, t), c)
        BY <4>1, FaultedStep DEF Step
      <4>3. Step(faulted(c, t), y)
        BY <2>4, <4>1, <4>2, StepOn DEF Step
      <4> QED BY <3>2, <4>3
    <3> QED BY <3>1, <3>2
  <2> HIDE DEF z
  <2>6. Step(y, s)
    BY <2>1, <2>4, StepOn
  <2>7. Step(z, s)
    BY <2>5, <2>6, StepOn
  <2> QED BY <2>2, <2>6, <2>7
<1> QED BY <1>1, <1>2

-----------------------------------------------------------------------------
(* Messages from the client *)

\* Work that is clear is over, and its process was let go of.
LEMMA ClearIdle ==
  ASSUME NEW s, Sound(s), clear(s)
  PROVE  /\ ~s.owner.has_process /\ s.process = new_process /\ s.child = no_child
         /\ ~Runs(s)
<1>1. ~s.owner.has_process
  BY DEF clear, Sound, Live
<1> QED BY <1>1 DEF Sound, Live, Runs, no_child

LEMMA SameStep ==
  ASSUME NEW s, NEW r, Sound(s), DOMAIN r = Parts, r.owner = s.owner,
         r.process = s.process, r.child = s.child, r.up = s.up,
         r.down = s.down, r.launched = s.launched, r.handed = s.handed
  PROVE  Step(r, s)
<1>1. Typed(r)
  BY DEF Sound, Typed
<1>2. Live(r) /\ Quiet(r) /\ Accounts(r) /\ (Runs(r) => Runs(s))
  BY DEF Sound, Live, Quiet, Accounts, Runs
<1>3. \A m \in Message : Says(r, m) => Says(s, m)
  BY DEF Says
<1>4. s.owner.last_operation <= r.owner.last_operation
  BY SMTT(30) DEF Sound, Typed, OwnerRecord
<1> QED BY <1>1, <1>2, <1>3, <1>4, Moves

LEMMA SnapshotStep ==
  ASSUME NEW s, Sound(s), NEW m \in Message, NEW t \in Nat
  PROVE  Step(snapshot(s, m, t), s)
<1> DEFINE sent_frame == [answer(s, "snapshot", m) EXCEPT
                            !.flags = IF clear(s) THEN "clear" ELSE "none"]
           token == IF clear(s) THEN m.request ELSE 0
           at == IF clear(s) THEN t ELSE s.owner.clear_token_at
           o == [s.owner EXCEPT !.last_request = m.request, !.clear_token = token,
                                !.clear_token_at = at]
           x == [s EXCEPT !.owner = o]
<1>1. s.owner \in OwnerRecord /\ DOMAIN s = Parts
  BY DEF Sound, Typed
<1>2. sent_frame \in Message /\ sent_frame.kind = "snapshot"
  BY <1>1 DEF answer, message, Message, MessageKind, Flags, OwnerRecord
<1>3. token \in Nat /\ at \in Nat
  BY <1>1 DEF Message, OwnerRecord
<1>4. snapshot(s, m, t) = queue(x, sent_frame, t)
  BY <1>1 DEF snapshot, Parts, OwnerRecord
<1> HIDE DEF token, at, sent_frame
<1>5. o \in OwnerRecord /\ SameBooks(o, s.owner)
  BY <1>1, <1>3 DEF Message, OwnerRecord, SameBooks
<1> HIDE DEF o
<1>6. Step(x, s)
  BY <1>5, OwnerMoves
<1> HIDE DEF x
<1>7. Fair(x, sent_frame)
  BY <1>2 DEF Fair
<1>8. Step(queue(x, sent_frame, t), x)
  BY <1>2, <1>6, <1>7, QueueStep DEF Step
<1> QED BY <1>4, <1>6, <1>8, StepOn

LEMMA ActivationStep ==
  ASSUME NEW s, Sound(s), NEW m \in Message, NEW t \in Nat, clear(s)
  PROVE  Step(activation(s, m, t), s)
<1> DEFINE sent_frame == [answer(s, "activated", m) EXCEPT !.value = m.value]
           o == [s.owner EXCEPT !.last_request = m.request, !.active = TRUE,
                                !.clear_token = 0]
           x == [s EXCEPT !.owner = o]
<1>1. s.owner \in OwnerRecord /\ DOMAIN s = Parts
  BY DEF Sound, Typed
<1>2. /\ sent_frame \in Message /\ sent_frame.kind = "activated"
      /\ sent_frame.session = s.owner.epoch
  BY <1>1 DEF answer, message, Message, MessageKind, Flags, OwnerRecord
<1>3. activation(s, m, t) = queue(x, sent_frame, t)
  BY <1>1 DEF activation, Parts, OwnerRecord
<1>4. o \in OwnerRecord /\ SameBooks(o, s.owner)
  BY <1>1 DEF Message, OwnerRecord, SameBooks
<1>5. x.owner = o /\ x.child = s.child
  BY <1>1 DEF Parts
<1> HIDE DEF o, sent_frame
<1>6. Step(x, s)
  BY <1>4, OwnerMoves
<1>7. x.owner.epoch = s.owner.epoch /\ s.owner.epoch \in Nat
  BY <1>1, <1>4, <1>5 DEF SameBooks, OwnerRecord
<1>8. ~Runs(x)
  BY <1>5, ClearIdle DEF Runs
<1> HIDE DEF x
<1>9. Fair(x, sent_frame)
  BY <1>2, <1>7, <1>8 DEF Fair, Clean
<1>10. Step(queue(x, sent_frame, t), x)
  BY <1>2, <1>6, <1>9, QueueStep DEF Step
<1> QED BY <1>3, <1>6, <1>10, StepOn

\* The destructor kills the child and waits for it.
LEMMA GoneStep ==
  ASSUME NEW s, Sound(s), NEW t \in Int
  PROVE  Step(gone(s, t), s)
<1> DEFINE d == disconnect(s, t)
           o == [d.owner EXCEPT !.has_process = FALSE, !.is_gone = TRUE]
           r == gone(s, t)
<1>1. Step(d, s) /\ d.owner.operation = 0 /\ d.owner.fd = 0
  BY DisconnectStep
<1>2. r = [d EXCEPT !.owner.has_process = FALSE, !.owner.is_gone = TRUE,
                    !.process = new_process, !.child = no_child]
  BY DEF gone
<1> HIDE DEF d
<1>3. Sound(d) /\ d.owner \in OwnerRecord /\ DOMAIN d = Parts
  BY <1>1 DEF Step, Sound, Typed
<1>4. /\ r.owner = o /\ r.process = new_process /\ r.child = no_child
      /\ r.up = d.up /\ r.down = d.down /\ r.launched = d.launched
      /\ r.handed = d.handed /\ DOMAIN r = Parts
  BY <1>2, <1>3 DEF Parts, OwnerRecord
<1>5. /\ o \in OwnerRecord /\ ~o.has_process /\ o.fd = d.owner.fd
      /\ o.epoch = d.owner.epoch
      /\ o.last_operation = d.owner.last_operation
      /\ o.operation_session = d.owner.operation_session
      /\ o.operation = d.owner.operation /\ o.pending = d.owner.pending
      /\ o.result = d.owner.result
      /\ o.launches = d.owner.launches
      /\ o.discarded_results = d.owner.discarded_results
  BY <1>3 DEF OwnerRecord
<1> HIDE DEF r, o
<1>6. Typed(r)
  BY <1>3, <1>4, <1>5, NewProcessTyped DEF Sound, Typed
<1>7. Live(r) /\ Quiet(r) /\ ~Runs(r)
  BY <1>4, <1>5, NoChildPaced DEF Live, Quiet, Runs, no_child
<1>8. Accounts(r)
  BY <1>3, <1>4, <1>5 DEF Sound, Accounts
<1>9. \A x \in Message : Says(r, x) => Says(d, x)
  BY <1>4, <1>5 DEF Says
<1>10. d.owner.last_operation <= r.owner.last_operation
  <2>1. d.owner.last_operation \in Nat
    BY <1>3 DEF OwnerRecord
  <2> QED BY <1>4, <1>5, <2>1
<1>11. Step(r, d)
  BY <1>3, <1>4, <1>5, <1>6, <1>7, <1>8, <1>9, <1>10, Moves
<1>12. Step(r, s)
  BY <1>1, <1>11, StepOn
<1> QED BY <1>12 DEF r

\* What the process is makes no difference to an owner that does not have it.
LEMMA GoneSame ==
  ASSUME NEW s, NEW r, DOMAIN s = Parts, DOMAIN r = Parts, r.owner = s.owner,
         r.up = s.up, r.down = s.down, r.launched = s.launched,
         r.handed = s.handed, r.fault = s.fault, ~s.owner.has_process,
         s.owner \in OwnerRecord, NEW t
  PROVE  gone(r, t) = gone(s, t)
<1> DEFINE f == forgotten(s)
           g == forgotten(r)
           h == hung_up(f)
           k == hung_up(g)
<1>1. disconnect(s, t) = h /\ disconnect(r, t) = k
  BY DEF disconnect, then
<1>2. /\ DOMAIN f = Parts /\ DOMAIN g = Parts /\ f.owner = g.owner
      /\ f.up = g.up /\ f.down = g.down /\ f.launched = g.launched
      /\ f.handed = g.handed /\ f.fault = g.fault
  BY DEF forgotten, Parts
<1> HIDE DEF f, g
<1>3. /\ DOMAIN h = Parts /\ DOMAIN k = Parts /\ h.owner = k.owner
      /\ h.up = k.up /\ h.down = k.down /\ h.launched = k.launched
      /\ h.handed = k.handed /\ h.fault = k.fault
  BY <1>2 DEF hung_up, Parts
<1> HIDE DEF h, k
<1>4. [h EXCEPT !.owner.has_process = FALSE, !.owner.is_gone = TRUE,
                !.process = new_process, !.child = no_child]
      = [k EXCEPT !.owner.has_process = FALSE, !.owner.is_gone = TRUE,
                  !.process = new_process, !.child = no_child]
  BY <1>3 DEF Parts
<1> QED BY <1>1, <1>4 DEF gone

\* What is submitted was not launched before in the session.
LEMMA NotLaunched ==
  ASSUME NEW s, Sound(s), NEW m \in Message, submits(s, m)
  PROVE  LaunchesOf(s, s.owner.epoch, m.operation) = {}
<1> DEFINE last == Len(s.launched)
<1>1. s.owner \in OwnerRecord /\ s.launched \in Seq(Launched) /\ History(s)
  BY DEF Sound, Typed
<1>2. m.operation \in Nat /\ s.owner.epoch \in Nat /\ s.owner.last_operation \in Nat
  BY <1>1 DEF Message, OwnerRecord
<1>3. m.operation > s.owner.last_operation
  BY DEF submits
<1>4. ~Decided(s, s.owner.epoch, m.operation)
  BY <1>2, <1>3 DEF Decided
<1>5. ASSUME NEW k \in 1..last
      PROVE  ~(/\ s.launched[k].session = s.owner.epoch
               /\ s.launched[k].operation = m.operation)
  <2> DEFINE e == s.launched[k].session
             id == s.launched[k].operation
  <2>1. Decided(s, e, id)
    BY <1>1 DEF History
  <2> HIDE DEF e, id
  <2>2. ~(e = s.owner.epoch /\ id = m.operation)
    BY <1>4, <2>1
  <2> QED BY <2>2 DEF e, id
<1> QED BY <1>5 DEF LaunchesOf

\* A child that is started is one the session and the operation had not.
LEMMA StartedStep ==
  ASSUME NEW s, Sound(s), NEW m \in Message, submits(s, m), s.owner.fd # 0,
         s.owner.pending = {}, NEW r, DOMAIN r = Parts, NEW o \in OwnerRecord,
         r.owner = o, r.process = [new_process EXCEPT !.launched = TRUE,
                                     !.is_owned = TRUE, !.is_open = TRUE],
         r.child = [no_child EXCEPT !.status = "alive"],
         r.up = s.up, r.down = s.down, r.handed = s.handed,
         r.launched = Append(s.launched, [session |-> s.owner.epoch,
                               operation |-> m.operation, exit |-> {}]),
         o.fd = s.owner.fd, o.epoch = s.owner.epoch,
         o.last_operation = m.operation, o.operation = m.operation,
         o.operation_session = s.owner.epoch, o.has_process,
         o.launches = s.owner.launches + 1, o.pending = {},
         o.result = s.owner.result,
         o.discarded_results = s.owner.discarded_results
  PROVE  Step(r, s)
<1> DEFINE w == [session |-> s.owner.epoch, operation |-> m.operation, exit |-> {}]
           last == Len(s.launched)
<1>1. /\ s.owner \in OwnerRecord /\ s.launched \in Seq(Launched) /\ s.handed \in Nat
      /\ s.up \in [Client -> Seq(Message)] /\ s.down \in [Client -> Seq(Message)]
  BY DEF Sound, Typed
<1>2. m.operation \in Nat /\ s.owner.epoch \in Nat
  BY <1>1 DEF Message, OwnerRecord
<1>3. /\ s.owner.operation = 0 /\ m.operation > s.owner.last_operation
      /\ s.owner.last_operation \in Nat /\ m.operation # 0
  <2>1. s.owner.last_operation \in Nat
    BY <1>1 DEF OwnerRecord
  <2>2. s.owner.operation = 0 /\ m.operation > s.owner.last_operation
    BY DEF submits
  <2> QED BY <1>2, <2>1, <2>2
<1>4. ~s.owner.has_process /\ ~Runs(s)
  BY ClearIdle DEF submits
<1>5. History(s) /\ Accounts(s) /\ Honest(s)
  BY DEF Sound
<1>6. w \in Launched /\ w.session = s.owner.epoch /\ w.operation = m.operation /\ w.exit = {}
  BY <1>2 DEF Launched, ExitStatus
<1>7. r.launched = Append(s.launched, w)
  OBVIOUS
<1> HIDE DEF w
<1>8. /\ last \in Nat /\ Len(r.launched) = last + 1 /\ r.launched \in Seq(Launched)
      /\ r.launched[last + 1] = w
      /\ \A k \in 1..last : r.launched[k] = s.launched[k]
  BY <1>1, <1>6, <1>7
<1> HIDE DEF last
<1>9. last = Len(s.launched)
  BY DEF last
<1>10. Typed(r)
  <2>1. r.process \in ProcessRecord /\ r.child \in ChildRecord
    <3>1. ASSUME NEW q \in ProcessRecord
          PROVE  [q EXCEPT !.launched = TRUE, !.is_owned = TRUE, !.is_open = TRUE]
                   \in ProcessRecord
      BY DEF ProcessRecord
    <3>2. ASSUME NEW c \in ChildRecord
          PROVE  [c EXCEPT !.status = "alive"] \in ChildRecord
      BY DEF ChildRecord
    <3> QED BY <3>1, <3>2, NewProcessTyped
  <2> QED BY <1>1, <1>8, <2>1 DEF Typed
<1>11. Live(r)
  BY NoChildPaced DEF Live, Paced, new_process, no_child
<1>12. Quiet(r)
  BY DEF Quiet
<1>13. Accounts(r)
  <2>1. s.owner.discarded_results \in Nat /\ s.owner.launches \in Nat
    BY <1>1 DEF OwnerRecord
  <2>2. s.owner.result = {}
    <3>1. \A x \in s.owner.result : FALSE
      BY <1>3, <1>5 DEF Accounts
    <3> QED BY <3>1
  <2>3. /\ s.owner.launches = last
        /\ s.owner.launches = s.handed + s.owner.discarded_results
    <3>1. s.owner.launches = s.handed + s.owner.discarded_results
                             + IF s.owner.operation = 0 THEN 0 ELSE 1
      BY <1>5 DEF Accounts
    <3>2. s.owner.launches = last
      BY <1>5, <1>9 DEF Accounts
    <3> QED BY <1>1, <1>3, <2>1, <3>1, <3>2
  <2>4. /\ r.owner.launches = Len(r.launched)
        /\ r.owner.launches = r.handed + r.owner.discarded_results
                              + IF r.owner.operation = 0 THEN 0 ELSE 1
    BY <1>1, <1>3, <1>8, <2>1, <2>3
  <2> QED BY <2>2, <2>4 DEF Accounts
<1>14. ~Decided(s, s.owner.epoch, m.operation)
  BY <1>2, <1>3 DEF Decided
<1>15. ASSUME NEW k \in 1..last
       PROVE  /\ s.launched[k].session \in Nat /\ s.launched[k].operation \in Nat
              /\ Decided(s, s.launched[k].session, s.launched[k].operation)
              /\ ~(/\ s.launched[k].session = s.owner.epoch
                   /\ s.launched[k].operation = m.operation)
  <2> DEFINE L == s.launched
  <2>1. L \in Seq(Launched) /\ k \in 1..Len(L)
    BY <1>1, <1>9
  <2>2. Decided(s, s.launched[k].session, s.launched[k].operation)
    BY <1>5, <1>9 DEF History
  <2> HIDE DEF L
  <2>3. L[k] \in Launched
    BY <2>1
  <2>4. s.launched[k].session \in Nat /\ s.launched[k].operation \in Nat
    BY <2>3 DEF L, Launched
  <2> DEFINE e == s.launched[k].session
             id == s.launched[k].operation
  <2>5. Decided(s, e, id)
    BY <2>2
  <2> HIDE DEF e, id
  <2>6. ~(e = s.owner.epoch /\ id = m.operation)
    BY <1>14, <2>5
  <2> QED BY <2>2, <2>4, <2>6 DEF e, id
<1>16. LaunchesOf(s, s.owner.epoch, m.operation) = {}
  BY <1>9, <1>15 DEF LaunchesOf
<1>17. LaunchesOf(r, s.owner.epoch, m.operation) = {last + 1}
  BY <1>6, <1>8, <1>15 DEF LaunchesOf
<1>18. ASSUME NEW e, NEW id, ~(e = s.owner.epoch /\ id = m.operation)
       PROVE  LaunchesOf(r, e, id) = LaunchesOf(s, e, id)
  <2>1. \A k \in 1..(last + 1) :
          (r.launched[k].session = e /\ r.launched[k].operation = id)
          <=> /\ k \in 1..last
              /\ s.launched[k].session = e /\ s.launched[k].operation = id
    BY <1>6, <1>8, <1>18
  <2> QED BY <1>8, <1>9, <2>1 DEF LaunchesOf
<1>19. ASSUME NEW e \in Nat, NEW id \in Nat, Decided(s, e, id)
       PROVE  ~(e = s.owner.epoch /\ id = m.operation) /\ Decided(r, e, id)
  BY <1>1, <1>2, <1>3, <1>19 DEF Decided
<1>20. Advances(r, s)
  <2>1. \A e \in Nat : e <= s.owner.epoch => Clean(r, e)
    BY DEF Clean
  <2>2. ASSUME NEW e \in Nat, NEW id \in Nat, Decided(s, e, id)
        PROVE  /\ Decided(r, e, id)
               /\ LaunchesOf(s, e, id) = {} => LaunchesOf(r, e, id) = {}
               /\ \A exit : Ended(s, e, id, exit) => Ended(r, e, id, exit)
    <3>1. LaunchesOf(r, e, id) = LaunchesOf(s, e, id) /\ Decided(r, e, id)
      BY <1>18, <1>19, <2>2
    <3>2. \A exit : Ended(s, e, id, exit) => Ended(r, e, id, exit)
      BY <1>8, <1>9, <3>1 DEF Ended
    <3> QED BY <3>1, <3>2
  <2> QED BY <1>2, <2>1, <2>2 DEF Advances
<1>21. History(r)
  <2>1. ASSUME NEW k \in 1..(last + 1)
        PROVE  /\ Decided(r, r.launched[k].session, r.launched[k].operation)
               /\ LaunchesOf(r, r.launched[k].session, r.launched[k].operation) = {k}
    <3>1. CASE k = last + 1
      <4>1. Decided(r, s.owner.epoch, m.operation)
        BY <1>2 DEF Decided
      <4> QED BY <1>6, <1>8, <1>17, <3>1, <4>1
    <3>2. CASE k # last + 1
      <4> DEFINE e == s.launched[k].session
                 id == s.launched[k].operation
      <4>1. k \in 1..last
        BY <1>8, <3>2
      <4>2. /\ e \in Nat /\ id \in Nat /\ Decided(s, e, id)
            /\ LaunchesOf(s, e, id) = {k}
        BY <1>5, <1>9, <1>15, <4>1 DEF History
      <4>3. r.launched[k].session = e /\ r.launched[k].operation = id
        BY <1>8, <4>1
      <4> HIDE DEF e, id
      <4>4. LaunchesOf(r, e, id) = {k} /\ Decided(r, e, id)
        BY <1>18, <1>19, <4>2
      <4> QED BY <4>3, <4>4
    <3> QED BY <3>1, <3>2
  <2>2. /\ Len(r.launched) = last + 1 /\ last + 1 > 0
        /\ r.launched[Len(r.launched)].exit = {}
        /\ r.launched[Len(r.launched)].session = r.owner.operation_session
        /\ r.launched[Len(r.launched)].operation = r.owner.operation
    BY <1>6, <1>8
  <2> QED BY <2>1, <2>2 DEF History
<1>22. Honest(r)
  <2>1. \A x \in Message : Says(r, x) => Says(s, x)
    BY DEF Says
  <2> QED BY <1>5, <1>10, <1>20, <2>1, FairStays DEF Honest, Sound
<1> QED BY <1>10, <1>11, <1>12, <1>13, <1>20, <1>21, <1>22 DEF Step, Sound

LEMMA NoError ==
  ASSUME NEW p \in ProcessRecord, ~p.io_error, ~p.channel_cleanup_unknown
  PROVE  /\ [p EXCEPT !.io_error = FALSE, !.channel_cleanup_unknown = FALSE] = p
         /\ [p EXCEPT !.launched = TRUE, !.is_owned = TRUE, !.is_open = TRUE,
                      !.io_error = FALSE, !.channel_cleanup_unknown = FALSE]
            = [p EXCEPT !.launched = TRUE, !.is_owned = TRUE, !.is_open = TRUE]
BY DEF ProcessRecord

LEMMA SubmissionStep ==
  ASSUME NEW s, Sound(s), NEW m \in Message, NEW t \in Nat, submits(s, m),
         s.owner.fd # 0, s.owner.pending = {}
  PROVE  Step(submission(s, m, t), s)
<1> DEFINE o == [s.owner EXCEPT !.last_request = m.request, !.last_operation = m.operation]
           spawned == s.fault # "spawn"
           unclean == s.fault = "close"
           b == [s EXCEPT !.owner = o, !.child = no_child]
           x == launch(b, spawned, unclean)
           running == [o EXCEPT !.operation = m.operation,
                                !.operation_session = s.owner.epoch,
                                !.operation_request = m.request,
                                !.has_process = TRUE, !.launches = s.owner.launches + 1]
           y == [x EXCEPT !.owner = running,
                          !.launched = Append(x.launched, [session |-> s.owner.epoch,
                                         operation |-> m.operation, exit |-> {}])]
           rejected == [answer(s, "result", m) EXCEPT
                          !.operation = m.operation, !.flags = "not_launched"]
           accepted == [answer(s, "accepted", m) EXCEPT !.operation = m.operation]
           refused == [x EXCEPT !.owner.fault = TRUE]
<1>1. s.owner \in OwnerRecord /\ DOMAIN s = Parts
  BY DEF Sound, Typed
<1>2. /\ ~s.owner.has_process /\ s.process = new_process /\ s.child = no_child
      /\ s.owner.operation = 0 /\ m.operation > s.owner.last_operation
  BY ClearIdle DEF submits
<1>3. m.operation \in Nat /\ m.request \in Nat /\ s.owner.epoch \in Nat
      /\ s.owner.last_operation \in Nat /\ s.owner.launches + 1 \in Nat
  BY <1>1 DEF Message, OwnerRecord
<1>4. /\ rejected \in Message /\ rejected.kind = "result"
      /\ rejected.flags = "not_launched" /\ rejected.session = s.owner.epoch
      /\ rejected.operation = m.operation
      /\ accepted \in Message /\ accepted.kind = "accepted"
  BY <1>3 DEF answer, message, Message, MessageKind, Flags
<1>5. /\ o \in OwnerRecord /\ o.last_operation = m.operation
      /\ o.fd = s.owner.fd /\ o.epoch = s.owner.epoch
      /\ o.operation = s.owner.operation /\ o.operation_session = s.owner.operation_session
      /\ o.has_process = s.owner.has_process /\ o.result = s.owner.result
      /\ o.launches = s.owner.launches
      /\ o.discarded_results = s.owner.discarded_results
      /\ o.pending = s.owner.pending
  BY <1>1, <1>3 DEF OwnerRecord
<1>6. submission(s, m, t) =
        IF x.process.io_error THEN gone(refused, t)
        ELSE IF x.process.launched THEN queue(y, accepted, t)
        ELSE queue(x, rejected, t)
  <2> DEFINE more == s.owner.launches + 1
  <2>1. o.launches + 1 = more
    BY <1>5
  <2> HIDE DEF o, x, accepted, rejected, more
  <2> DEFINE Next1(v) == IF v.process.io_error THEN gone([v EXCEPT !.owner.fault = TRUE], t)
               ELSE IF v.process.launched
                 THEN queue([v EXCEPT !.owner = running,
                          !.launched = Append(v.launched, [session |-> s.owner.epoch,
                                         operation |-> m.operation, exit |-> {}])], accepted, t)
               ELSE queue(v, rejected, t)
  <2>2. then(x, Next1) = Next1(x)
    BY DEF then
  <2> QED BY <2>1, <2>2 DEF submission, then, x, o, accepted, rejected, more
<1>7. /\ DOMAIN x = Parts /\ x.owner = o /\ x.up = s.up /\ x.down = s.down
      /\ x.launched = s.launched /\ x.handed = s.handed /\ x.fault = s.fault
      /\ spawned => /\ x.process = [new_process EXCEPT
                                     !.launched = TRUE, !.is_owned = TRUE,
                                     !.is_open = TRUE, !.io_error = unclean,
                                     !.channel_cleanup_unknown = unclean]
                    /\ x.child = [no_child EXCEPT !.status = "alive"]
      /\ ~spawned => /\ x.process = [new_process EXCEPT !.io_error = unclean,
                                       !.channel_cleanup_unknown = unclean]
                     /\ x.child = no_child
  <2>1. /\ DOMAIN b = Parts /\ b.owner = o /\ b.up = s.up /\ b.down = s.down
        /\ b.launched = s.launched /\ b.handed = s.handed /\ b.fault = s.fault
        /\ b.process = new_process /\ b.child = no_child
    BY <1>1, <1>2 DEF Parts
  <2>2. ~b.process.launched /\ ~stop_requested(b.process)
    BY <2>1 DEF new_process, stop_requested
  <2>3. spawned \in BOOLEAN /\ unclean \in BOOLEAN
    OBVIOUS
  <2> HIDE DEF b, o, spawned, unclean
  <2>4. CASE spawned
    BY <2>1, <2>2, <2>4 DEF launch, Parts
  <2>5. CASE ~spawned
    BY <2>1, <2>2, <2>5 DEF launch, Parts
  <2> QED BY <2>3, <2>4, <2>5
<1>8. spawned \in BOOLEAN /\ unclean \in BOOLEAN
  OBVIOUS
<1> HIDE DEF x, spawned, unclean, accepted, rejected
<1>9. CASE unclean
  <2> DEFINE u == [o EXCEPT !.fault = TRUE]
             v == [s EXCEPT !.owner = u]
  <2>1. x.process.io_error
    BY <1>7, <1>8, <1>9 DEF new_process
  <2>2. u \in OwnerRecord /\ u.last_operation = m.operation /\ SameBooks(u, o)
    BY <1>5 DEF OwnerRecord, SameBooks
  <2>3. /\ refused.owner = u /\ v.owner = u /\ DOMAIN refused = Parts
        /\ DOMAIN v = Parts /\ refused.up = v.up /\ refused.down = v.down
        /\ refused.launched = v.launched /\ refused.handed = v.handed
        /\ refused.fault = v.fault
        /\ v.process = s.process /\ v.child = s.child /\ v.up = s.up
        /\ v.down = s.down /\ v.launched = s.launched /\ v.handed = s.handed
    BY <1>1, <1>7 DEF Parts
  <2> HIDE DEF u, v, o, refused
  <2>4. Step(v, s)
    <3>1. Typed(v)
      BY <2>2, <2>3 DEF Sound, Typed
    <3>2. Live(v) /\ Quiet(v) /\ Accounts(v) /\ (Runs(v) => Runs(s))
      BY ZenonT(60), <1>5, <2>2, <2>3 DEF Sound, Live, Quiet, Accounts, Runs, SameBooks
    <3>3. \A z \in Message : Says(v, z) => Says(s, z)
      BY <1>5, <2>2, <2>3 DEF Says, SameBooks
    <3>4. s.owner.last_operation <= v.owner.last_operation
      BY <1>2, <1>3, <2>2, <2>3
    <3> QED BY <1>5, <2>2, <2>3, <3>1, <3>2, <3>3, <3>4, Moves DEF SameBooks
  <2>5. gone(refused, t) = gone(v, t)
    <3>1. ~v.owner.has_process
      BY <1>2, <1>5, <2>2, <2>3 DEF SameBooks
    <3> QED BY <2>2, <2>3, <3>1, GoneSame
  <2>6. Step(gone(v, t), v)
    BY <2>4, GoneStep DEF Step
  <2>7. submission(s, m, t) = gone(v, t)
    BY <1>6, <2>1, <2>5
  <2> QED BY <2>4, <2>6, <2>7, StepOn
<1>10. CASE ~unclean /\ spawned
  <2>1. /\ x.process = [new_process EXCEPT !.launched = TRUE, !.is_owned = TRUE,
                                           !.is_open = TRUE]
        /\ ~x.process.io_error /\ x.process.launched
    <3>1. [new_process EXCEPT !.launched = TRUE, !.is_owned = TRUE, !.is_open = TRUE,
                              !.io_error = FALSE, !.channel_cleanup_unknown = FALSE]
          = [new_process EXCEPT !.launched = TRUE, !.is_owned = TRUE, !.is_open = TRUE]
      BY NoError, NewProcessTyped DEF new_process
    <3>2. unclean = FALSE
      BY <1>8, <1>10
    <3>3. x.process = [new_process EXCEPT !.launched = TRUE, !.is_owned = TRUE,
                                          !.is_open = TRUE]
      BY <1>7, <1>10, <3>1, <3>2
    <3> QED BY <3>3 DEF new_process
  <2>2. submission(s, m, t) = queue(y, accepted, t)
    BY <1>6, <2>1
  <2>3. /\ y.owner = running /\ y.process = x.process /\ y.child = x.child
        /\ y.up = s.up /\ y.down = s.down /\ y.handed = s.handed
        /\ y.launched = Append(s.launched, [session |-> s.owner.epoch,
                                           operation |-> m.operation, exit |-> {}])
        /\ DOMAIN y = Parts
    BY <1>7 DEF Parts
  <2> DEFINE more == s.owner.launches + 1
  <2>4. more \in Nat
    BY <1>3
  <2> HIDE DEF o, y, more
  <2>5. /\ running \in OwnerRecord
        /\ running.fd = s.owner.fd /\ running.epoch = s.owner.epoch
        /\ running.last_operation = m.operation /\ running.operation = m.operation
        /\ running.operation_session = s.owner.epoch /\ running.has_process
        /\ running.launches = more /\ running.pending = {}
        /\ running.result = s.owner.result
        /\ running.discarded_results = s.owner.discarded_results
    BY <1>3, <1>5, <2>4 DEF OwnerRecord, more
  <2> HIDE DEF running
  <2>6. Step(y, s)
    <3>1. /\ DOMAIN y = Parts /\ y.owner = running
          /\ y.process = [new_process EXCEPT !.launched = TRUE,
                            !.is_owned = TRUE, !.is_open = TRUE]
          /\ y.child = [no_child EXCEPT !.status = "alive"]
      BY <1>7, <1>10, <2>1, <2>3
    <3>2. running.launches = s.owner.launches + 1
      BY <2>5 DEF more
    <3> HIDE DEF more
    <3> QED BY <2>3, <2>5, <3>1, <3>2, StartedStep
  <2>7. Fair(y, accepted)
    BY <1>4 DEF Fair
  <2>8. Step(queue(y, accepted, t), y)
    BY <1>4, <2>6, <2>7, QueueStep DEF Step
  <2> QED BY <2>2, <2>6, <2>8, StepOn
<1>11. CASE ~unclean /\ ~spawned
  <2>1. x.process = new_process /\ x.child = no_child
    <3>1. [new_process EXCEPT !.io_error = FALSE, !.channel_cleanup_unknown = FALSE]
          = new_process
      BY NoError, NewProcessTyped DEF new_process
    <3>2. unclean = FALSE
      BY <1>8, <1>11
    <3> QED BY <1>7, <1>11, <3>1, <3>2
  <2>2. submission(s, m, t) = queue(x, rejected, t)
    BY <1>6, <2>1 DEF new_process
  <2> HIDE DEF o
  <2>3. Step(x, s)
    <3>1. Typed(x)
      BY <1>2, <1>5, <1>7, <2>1 DEF Sound, Typed
    <3>2. Live(x) /\ Quiet(x) /\ Accounts(x) /\ (Runs(x) => Runs(s))
      BY <1>2, <1>5, <1>7, <2>1 DEF Sound, Live, Quiet, Accounts, Runs
    <3>3. \A z \in Message : Says(x, z) => Says(s, z)
      BY <1>5, <1>7 DEF Says
    <3>4. s.owner.last_operation <= x.owner.last_operation
      BY <1>2, <1>3, <1>5, <1>7
    <3> QED BY <1>5, <1>7, <3>1, <3>2, <3>3, <3>4, Moves
  <2>4. Fair(x, rejected)
    <3>1. Decided(x, s.owner.epoch, m.operation)
      BY <1>3, <1>5, <1>7 DEF Decided
    <3>2. LaunchesOf(x, s.owner.epoch, m.operation) = {}
      BY <1>7, NotLaunched DEF LaunchesOf
    <3> QED BY <1>4, <3>1, <3>2 DEF Fair
  <2>5. ~is_of_child(rejected) /\ x.owner.operation = 0
    BY <1>2, <1>4, <1>5, <1>7 DEF is_of_child
  <2>6. Step(queue(x, rejected, t), x)
    BY <1>4, <2>3, <2>4, <2>5, QueueStep DEF Step
  <2> QED BY <2>2, <2>3, <2>6, StepOn
<1> QED BY <1>8, <1>9, <1>10, <1>11

LEMMA ReceivedStep ==
  ASSUME NEW s, Sound(s), NEW m \in Message, NEW t \in Nat, s.owner.fd # 0,
         s.owner.pending = {}
  PROVE  Step(received(s, m, t), s)
<1>1. Step(disconnect(s, t), s) /\ Step(snapshot(s, m, t), s)
  BY DisconnectStep, SnapshotStep
<1>2. activates(s, m, t) => Step(activation(s, m, t), s)
  BY ActivationStep DEF activates
<1>3. submits(s, m) => Step(submission(s, m, t), s)
  BY SubmissionStep
<1>4. \/ received(s, m, t) = disconnect(s, t)
      \/ received(s, m, t) = snapshot(s, m, t)
      \/ activates(s, m, t) /\ received(s, m, t) = activation(s, m, t)
      \/ submits(s, m) /\ received(s, m, t) = submission(s, m, t)
  BY DEF received
<1> QED BY <1>1, <1>2, <1>3, <1>4

LEMMA ReceiveStep ==
  ASSUME NEW s, Sound(s), NEW t \in Nat, s.owner.fd # 0, s.owner.pending = {}
  PROVE  Step(receive(s, t), s)
<1> DEFINE i == s.owner.fd
           rest == [s EXCEPT !.up[i] = Tail(s.up[i])]
           m == Head(s.up[i])
<1>1. s.owner \in OwnerRecord /\ DOMAIN s = Parts
  BY DEF Sound, Typed
<1>2. i \in Client
  BY <1>1 DEF OwnerRecord, Client
<1>3. s.up \in [Client -> Seq(Message)] /\ s.up[i] \in Seq(Message)
  BY <1>2 DEF Sound, Typed
<1>4. CASE s.up[i] = <<>>
  <2>1. receive(s, t) = s \/ receive(s, t) = disconnect(s, t)
    BY <1>4 DEF receive
  <2> QED BY <2>1, StepSelf, DisconnectStep
<1>5. CASE s.up[i] # <<>>
  <2>1. m \in Message /\ Tail(s.up[i]) \in Seq(Message)
    <3> DEFINE U == s.up[i]
    <3>1. U \in Seq(Message) /\ U # <<>>
      BY <1>3, <1>5
    <3> HIDE DEF U
    <3>2. Head(U) \in Message /\ Tail(U) \in Seq(Message)
      BY <3>1
    <3> QED BY <3>2 DEF U
  <2>2. /\ rest.owner = s.owner /\ rest.process = s.process /\ rest.child = s.child
        /\ rest.up = [s.up EXCEPT ![i] = Tail(s.up[i])] /\ rest.down = s.down
        /\ rest.launched = s.launched /\ rest.handed = s.handed /\ DOMAIN rest = Parts
    BY <1>1 DEF Parts
  <2>3. receive(s, t) = received(rest, m, t)
    BY <1>5 DEF receive
  <2> HIDE DEF rest, m
  <2>4. Typed(rest)
    <3>1. rest.up \in [Client -> Seq(Message)]
      BY <1>2, <1>3, <2>1, <2>2
    <3> QED BY <2>2, <3>1 DEF Sound, Typed
  <2>5. Live(rest) /\ Quiet(rest) /\ Accounts(rest) /\ (Runs(rest) => Runs(s))
    <3>1. Live(s) /\ Quiet(s) /\ Accounts(s)
      BY DEF Sound
    <3>2. Live(rest)
      BY <2>2, <3>1 DEF Live
    <3>3. Quiet(rest) /\ (Runs(rest) => Runs(s))
      BY <2>2, <3>1 DEF Quiet, Runs
    <3>4. Accounts(rest)
      BY <2>2, <3>1 DEF Accounts
    <3> QED BY <3>2, <3>3, <3>4
  <2>6. \A z \in Message : Says(rest, z) => Says(s, z)
    BY <2>2 DEF Says
  <2>7. s.owner.last_operation <= rest.owner.last_operation
    BY <1>1, <2>2 DEF OwnerRecord
  <2>8. Step(rest, s)
    BY <2>2, <2>4, <2>5, <2>6, <2>7, Moves
  <2>9. Step(received(rest, m, t), rest)
    BY <2>1, <2>2, <2>8, ReceivedStep DEF Step
  <2> QED BY <2>3, <2>8, <2>9, StepOn
<1> QED BY <1>4, <1>5

LEMMA ExchangeStep ==
  ASSUME NEW s, Sound(s), NEW t \in Nat
  PROVE  Step(exchange_frames(s, t), s)
<1>1. CASE s.owner.fd = 0
  BY <1>1, StepSelf DEF exchange_frames
<1>2. CASE s.owner.fd # 0
  <2> DEFINE q == queue_result(s, t)
             x == flush(q, t)
             y == queue_result(x, t)
             z == receive(y, t)
             last == IF y.owner.pending # {} THEN y ELSE z
             r == IF x.owner.fd = 0 THEN x ELSE last
  <2>1. Step(q, s) /\ q.owner.fd # 0
    BY <1>2, QueueResultStep
  <2>2. exchange_frames(s, t) = r
    <3> HIDE DEF x, y, z
    <3>1. then(y, LAMBDA v : IF v.owner.pending # {} THEN v ELSE receive(v, t)) = last
      BY DEF then, z
    <3>2. then(x, LAMBDA u : IF u.owner.fd = 0 THEN u
             ELSE then(queue_result(u, t), LAMBDA v :
                    IF v.owner.pending # {} THEN v ELSE receive(v, t))) = r
      BY <3>1 DEF then, y
    <3> QED BY <1>2, <3>2 DEF exchange_frames, x
  <2> HIDE DEF q
  <2>3. Step(x, q)
    BY <2>1, FlushStep DEF Step
  <2>4. Step(x, s)
    BY <2>1, <2>3, StepOn
  <2> HIDE DEF x
  <2>5. CASE x.owner.fd = 0
    BY <2>2, <2>4, <2>5
  <2>6. CASE x.owner.fd # 0
    <3>1. Step(y, x) /\ y.owner.fd # 0
      BY <2>4, <2>6, QueueResultStep DEF Step
    <3>2. Step(y, s)
      BY <2>4, <3>1, StepOn
    <3> HIDE DEF y
    <3>3. y.owner.pending = {} => Step(z, y)
      BY <3>1, ReceiveStep DEF Step
    <3> HIDE DEF z
    <3>4. y.owner.pending = {} => Step(z, s)
      BY <3>2, <3>3, StepOn
    <3> QED BY <2>2, <2>6, <3>2, <3>4
  <2> QED BY <2>5, <2>6
<1> QED BY <1>1, <1>2

\* A session begins where no other one is.
LEMMA AttachStep ==
  ASSUME NEW s, Sound(s), NEW i \in 0..Clients, NEW t \in Nat
  PROVE  Step(attach(s, i, t), s)
<1>1. s.owner \in OwnerRecord /\ DOMAIN s = Parts /\ s.owner.last_now \in Nat
  BY DEF Sound, Typed, OwnerRecord
<1> DEFINE refused == \/ s.owner.fd # 0 \/ s.owner.fault
                      \/ s.owner.epoch = LastGeneration
                      \/ t < s.owner.last_now \/ i = 0 \/ ~can_launch(s)
           next == s.owner.epoch + 1
           o == [s.owner EXCEPT !.fd = i, !.epoch = next,
                         !.last_now = t, !.active = FALSE,
                         !.last_request = 0, !.last_operation = 0,
                         !.clear_token = 0, !.clear_token_at = 0]
           x == [s EXCEPT !.owner = o]
           hello == message("hello", next, 0)
<1>2. CASE refused
  <2>1. attach(s, i, t) = s \/ attach(s, i, t) = faulted(s, s.owner.last_now)
    BY <1>2 DEF attach
  <2>2. Step(faulted(s, s.owner.last_now), s)
    BY <1>1, FaultedStep
  <2> QED BY <2>1, <2>2, StepSelf
<1>3. CASE ~refused
  <2>1. attach(s, i, t) = queue(x, hello, t)
    BY <1>1, <1>3 DEF attach, Parts, OwnerRecord
  <2>2. s.owner.fd = 0 /\ s.owner.epoch \in Nat /\ next \in Nat
    BY <1>1, <1>3 DEF OwnerRecord
  <2>3. next = s.owner.epoch + 1
    OBVIOUS
  <2>4. hello \in Message /\ hello.kind = "hello"
    BY <2>2 DEF message, Message, MessageKind, Flags
  <2> HIDE DEF hello, next
  <2>5. /\ o \in OwnerRecord /\ o.fd = i /\ o.epoch = next /\ o.last_operation = 0
        /\ o.operation = s.owner.operation /\ o.result = s.owner.result
        /\ o.operation_session = s.owner.operation_session
        /\ o.has_process = s.owner.has_process
        /\ o.launches = s.owner.launches /\ o.pending = s.owner.pending
        /\ o.discarded_results = s.owner.discarded_results
    <3> DEFINE a == [s.owner EXCEPT !.fd = i, !.epoch = next, !.last_now = t,
                                    !.active = FALSE]
               b == [a EXCEPT !.last_request = 0, !.last_operation = 0,
                              !.clear_token = 0, !.clear_token_at = 0]
    <3>1. a \in OwnerRecord
      BY <1>1, <2>2, ClientsNat DEF OwnerRecord
    <3>2. o = b
      BY <1>1 DEF OwnerRecord
    <3> HIDE DEF a
    <3>3. b \in OwnerRecord
      BY <3>1 DEF OwnerRecord
    <3> QED BY <1>1, <3>2, <3>3 DEF OwnerRecord
  <2>6. /\ x.owner = o /\ x.process = s.process /\ x.child = s.child
        /\ x.up = s.up /\ x.down = s.down
        /\ x.launched = s.launched /\ x.handed = s.handed /\ DOMAIN x = Parts
    BY <1>1 DEF Parts
  <2> HIDE DEF o, x
  <2>7. Typed(x)
    BY <2>5, <2>6 DEF Sound, Typed
  <2>8. Live(x) /\ Quiet(x) /\ Accounts(x)
    BY <2>2, <2>5, <2>6 DEF Sound, Live, Quiet, Accounts, Runs
  <2>9. \A e, id \in Nat : Decided(s, e, id) => Decided(x, e, id)
    BY <2>2, <2>3, <2>5, <2>6 DEF Decided
  <2>10. \A e, id : LaunchesOf(x, e, id) = LaunchesOf(s, e, id)
    BY <2>6 DEF LaunchesOf
  <2>11. Advances(x, s)
    <3>1. \A e, id, exit : Ended(s, e, id, exit) => Ended(x, e, id, exit)
      BY <2>6, <2>10 DEF Ended
    <3>2. \A e \in Nat : Clean(s, e) => Clean(x, e)
      BY <2>5, <2>6 DEF Clean, Runs
    <3>3. s.owner.epoch <= x.owner.epoch
      BY <2>2, <2>3, <2>5, <2>6
    <3> QED BY <2>9, <2>10, <3>1, <3>2, <3>3 DEF Advances
  <2>12. History(x)
    <3>1. s.launched \in Seq(Launched) /\ History(s)
      BY DEF Sound, Typed
    <3>2. ASSUME NEW k \in 1..Len(x.launched)
          PROVE  /\ Decided(x, x.launched[k].session, x.launched[k].operation)
                 /\ LaunchesOf(x, x.launched[k].session, x.launched[k].operation) = {k}
      <4> DEFINE L == s.launched
                 e == s.launched[k].session
                 id == s.launched[k].operation
      <4>1. L \in Seq(Launched) /\ k \in 1..Len(L) /\ x.launched = L
        BY <2>6, <3>1
      <4>2. Decided(s, e, id) /\ LaunchesOf(s, e, id) = {k}
        BY <3>1, <4>1 DEF History
      <4> HIDE DEF L
      <4>3. L[k] \in Launched
        BY <4>1
      <4>4. e \in Nat /\ id \in Nat
        BY <4>3 DEF L, Launched
      <4>5. x.launched[k].session = e /\ x.launched[k].operation = id
        BY <4>1 DEF L
      <4> HIDE DEF e, id
      <4> QED BY <2>9, <2>10, <4>2, <4>4, <4>5
    <3> QED BY <2>5, <2>6, <3>1, <3>2 DEF History
  <2>13. Honest(x)
    <3>1. \A z \in Message : Says(x, z) => Says(s, z)
      BY <2>5, <2>6 DEF Says
    <3> QED BY <2>7, <2>11, <3>1, FairStays DEF Honest, Sound
  <2>14. Step(x, s)
    BY <2>7, <2>8, <2>11, <2>12, <2>13 DEF Step, Sound
  <2>15. Fair(x, hello)
    BY <2>4 DEF Fair
  <2>16. Step(queue(x, hello, t), x)
    BY <2>4, <2>14, <2>15, QueueStep DEF Step
  <2> QED BY <2>1, <2>14, <2>16, StepOn
<1> QED BY <1>2, <1>3

-----------------------------------------------------------------------------
(* The steps of the owner, its child and the clock *)

State == Owner("none")

LEMMA AnyFault ==
  ASSUME Sound(State), NEW f
  PROVE  Step(Owner(f), State)
<1>1. /\ DOMAIN Owner(f) = Parts /\ Owner(f).owner = State.owner
      /\ Owner(f).process = State.process /\ Owner(f).child = State.child
      /\ Owner(f).up = State.up /\ Owner(f).down = State.down
      /\ Owner(f).launched = State.launched /\ Owner(f).handed = State.handed
  BY DEF Owner, State, Parts
<1> HIDE DEF State
<1> QED BY <1>1, SameStep

LEMMA Happens ==
  ASSUME Sound(State), NEW r, Step(r, State), Becomes(r)
  PROVE  Step(State', State)
<1>1. /\ owner' = r.owner /\ process' = r.process /\ child' = r.child
      /\ up' = r.up /\ down' = r.down /\ launched' = r.launched /\ handed' = r.handed
  BY DEF Becomes
<1>2. /\ DOMAIN State' = Parts /\ State'.owner = r.owner
      /\ State'.process = r.process /\ State'.child = r.child
      /\ State'.up = r.up /\ State'.down = r.down
      /\ State'.launched = r.launched /\ State'.handed = r.handed
  BY <1>1 DEF State, Owner, Parts
<1>3. Step(State', r)
  BY <1>2, SameStep DEF Step
<1> QED BY <1>3, StepOn

LEMMA ReadingType == ASSUME now \in Nat, NEW t \in Reading PROVE t \in Nat
BY DEF Reading

LEMMA AttachHappens == ASSUME Sound(State), now \in Nat, Attach PROVE Step(State', State)
<1>1. PICK t \in Reading, fault \in Fault \cap {"none", "executable", "session"},
           i \in {0} \cup {j \in Client \ attached : 1..j - 1 \subseteq attached} :
        Becomes(attach(Owner(fault), i, t))
  BY DEF Attach
<1>2. t \in Nat /\ i \in 0..Clients
  BY ReadingType, ClientsNat DEF Client
<1>3. Step(Owner(fault), State)
  BY AnyFault
<1>4. Step(attach(Owner(fault), i, t), Owner(fault))
  BY <1>2, <1>3, AttachStep DEF Step
<1>5. Step(attach(Owner(fault), i, t), State)
  BY <1>3, <1>4, StepOn
<1> QED BY <1>1, <1>5, Happens

LEMMA PollHappens == ASSUME Sound(State), now \in Nat, Poll PROVE Step(State', State)
<1>1. PICK t \in Reading, fault \in Fault \cap {"none", "read", "session"} :
        LET s == Owner(fault)
            timed == IF t < owner.last_now THEN faulted(s, owner.last_now)
                     ELSE [s EXCEPT !.owner.last_now = t]
        IN  Becomes(then(timed, LAMBDA x :
             [(IF x.owner.has_process THEN begin_poll(x, fault = "read") ELSE x)
                EXCEPT !.owner.is_polling = TRUE]))
  BY DEF Poll
<1> DEFINE s == Owner(fault)
           fails == fault = "read"
           o == [s.owner EXCEPT !.last_now = t]
           x == IF t < owner.last_now THEN faulted(s, owner.last_now)
                ELSE [s EXCEPT !.owner = o]
           y == IF x.owner.has_process THEN begin_poll(x, fails) ELSE x
           p == [y.owner EXCEPT !.is_polling = TRUE]
           z == [y EXCEPT !.owner = p]
<1>2. t \in Nat /\ Step(s, State) /\ fails \in BOOLEAN
  BY ReadingType, AnyFault
<1>3. /\ Sound(s) /\ s.owner \in OwnerRecord /\ DOMAIN s = Parts /\ s.owner = owner
      /\ owner.last_now \in Nat
  <2>1. Sound(s) /\ s.owner \in OwnerRecord /\ DOMAIN s = Parts
    BY <1>2 DEF Step, Sound, Typed
  <2>2. s.owner = owner
    BY DEF Owner
  <2> QED BY <2>1, <2>2 DEF OwnerRecord
<1>4. Becomes(z)
  <2>1. x = IF t < owner.last_now THEN faulted(s, owner.last_now)
            ELSE [s EXCEPT !.owner.last_now = t]
    BY <1>3 DEF Parts
  <2> HIDE DEF x, s
  <2>2. then(x, LAMBDA v :
             [(IF v.owner.has_process THEN begin_poll(v, fault = "read") ELSE v)
                EXCEPT !.owner.is_polling = TRUE])
        = [y EXCEPT !.owner.is_polling = TRUE]
    BY DEF then
  <2>3. [y EXCEPT !.owner.is_polling = TRUE] = z
    OBVIOUS
  <2> QED BY <1>1, <2>1, <2>2, <2>3 DEF s
<1> HIDE DEF s, fails
<1>5. Step(x, s)
  <2>1. o \in OwnerRecord /\ SameBooks(o, s.owner)
    BY <1>2, <1>3 DEF OwnerRecord, SameBooks
  <2> HIDE DEF o
  <2>2. Step([s EXCEPT !.owner = o], s)
    BY <1>3, <2>1, OwnerMoves
  <2>3. Step(faulted(s, owner.last_now), s)
    BY <1>3, FaultedStep
  <2> QED BY <2>2, <2>3
<1> HIDE DEF x
<1>6. Step(y, x)
  BY <1>2, <1>5, BeginPollStep, StepSelf DEF Step
<1> HIDE DEF y
<1>7. Step(z, y)
  <2>1. Sound(y) /\ y.owner \in OwnerRecord
    BY <1>6 DEF Step, Sound, Typed
  <2>2. p \in OwnerRecord /\ SameBooks(p, y.owner)
    BY <2>1 DEF OwnerRecord, SameBooks
  <2> HIDE DEF p
  <2> QED BY <2>1, <2>2, OwnerMoves
<1> HIDE DEF z
<1>8. Step(x, State)
  BY <1>2, <1>5, StepOn
<1>9. Step(y, State)
  BY <1>6, <1>8, StepOn
<1>10. Step(z, State)
  BY <1>7, <1>9, StepOn
<1> QED BY <1>4, <1>10, Happens

LEMMA FinishPollHappens == ASSUME Sound(State), FinishPoll PROVE Step(State', State)
<1> DEFINE t == owner.last_now
<1>1. PICK fault \in Fault \cap {"none", "executable", "spawn", "close", "session"} :
        Becomes(then(observe_process(Owner(fault), t), LAMBDA x :
             [exchange_frames(x, t) EXCEPT !.owner.is_polling = FALSE]))
  BY DEF FinishPoll
<1> DEFINE s == Owner(fault)
           x == observe_process(s, t)
           y == exchange_frames(x, t)
           p == [y.owner EXCEPT !.is_polling = FALSE]
           z == [y EXCEPT !.owner = p]
<1>2. Step(s, State)
  BY AnyFault
<1>3. t \in Nat
  <2>1. s.owner \in OwnerRecord
    BY <1>2 DEF Step, Sound, Typed
  <2>2. s.owner = owner
    BY DEF Owner
  <2> QED BY <2>1, <2>2 DEF OwnerRecord
<1>4. Becomes(z)
  <2> HIDE DEF x, t
  <2>1. then(x, LAMBDA v : [exchange_frames(v, t) EXCEPT !.owner.is_polling = FALSE])
        = [y EXCEPT !.owner.is_polling = FALSE]
    BY DEF then
  <2>2. [y EXCEPT !.owner.is_polling = FALSE] = z
    OBVIOUS
  <2> QED BY <1>1, <2>1, <2>2 DEF x
<1> HIDE DEF s, t
<1>5. Step(x, s)
  BY <1>2, <1>3, ObserveStep DEF Step
<1> HIDE DEF x
<1>6. Step(y, x)
  BY <1>3, <1>5, ExchangeStep DEF Step
<1> HIDE DEF y
<1>7. Step(z, y)
  <2>1. Sound(y) /\ y.owner \in OwnerRecord
    BY <1>6 DEF Step, Sound, Typed
  <2>2. p \in OwnerRecord /\ SameBooks(p, y.owner)
    BY <2>1 DEF OwnerRecord, SameBooks
  <2> HIDE DEF p
  <2> QED BY <2>1, <2>2, OwnerMoves
<1> HIDE DEF z
<1>8. Step(x, State)
  BY <1>2, <1>5, StepOn
<1>9. Step(y, State)
  BY <1>6, <1>8, StepOn
<1>10. Step(z, State)
  BY <1>7, <1>9, StepOn
<1> QED BY <1>4, <1>10, Happens

LEMMA DestroyHappens == ASSUME Sound(State), Destroy PROVE Step(State', State)
<1>1. Becomes(gone(State, owner.last_now))
  BY DEF Destroy, State
<1>2. owner.last_now \in Nat
  <2>1. State.owner \in OwnerRecord /\ State.owner = owner
    BY DEF State, Owner, Sound, Typed
  <2> QED BY <2>1 DEF OwnerRecord
<1>3. Step(gone(State, owner.last_now), State)
  BY <1>2, GoneStep
<1> QED BY <1>1, <1>3, Happens

\* A child that is alive is one that the owner has.
LEMMA ChildMoves ==
  ASSUME Sound(State), child.status = "alive", Rest,
         child' \in ChildRecord, Paced(child'), child'.status \in {"alive", "exited"},
         child'.exit = {} <=> child'.status = "alive"
  PROVE  Step(State', State)
<1>1. /\ State.child = child /\ State.process = process /\ State'.child = child'
      /\ State'.process = State.process /\ State'.owner = State.owner
      /\ DOMAIN State = Parts /\ DOMAIN State' = Parts
  BY DEF State, Owner, Parts, Rest
<1>2. Beside(State', State)
  BY DEF State, Owner, Rest, Beside
<1>3. Has(State')
  BY <1>1 DEF Has, Sound, Typed, Parts
<1>4. Live(State') /\ Runs(State)
  BY <1>1 DEF Sound, Live, Runs, no_child
<1> HIDE DEF State
<1>5. stop_requested(State.process) => stop_requested(State'.process)
  BY <1>1
<1> QED BY <1>2, <1>3, <1>4, <1>5, ProcessMoves

LEMMA AliveChild ==
  ASSUME Sound(State), child.status = "alive"
  PROVE  child \in ChildRecord /\ Paced(child) /\ child.exit = {}
<1>1. State.child = child
  BY DEF State, Owner
<1> HIDE DEF State
<1> QED BY <1>1 DEF Sound, Typed, Live, no_child

LEMMA WorkHappens == ASSUME Sound(State), Work PROVE Step(State', State)
BY AliveChild, WorkerKeepsPace, ChildMoves DEF Work

LEMMA DieHappens == ASSUME Sound(State), Die PROVE Step(State', State)
<1>1. child.status = "alive" /\ child' = exited(child, "killed") /\ Rest
  BY DEF Die
<1>2. child \in ChildRecord /\ Paced(child)
  BY <1>1, AliveChild
<1>3. /\ child' \in ChildRecord /\ Paced(child') /\ child'.status = "exited"
      /\ child'.exit = {"killed"}
  BY <1>1, <1>2 DEF exited, ChildRecord, ExitStatus, Exit, Paced
<1> QED BY <1>1, <1>3, ChildMoves

LEMMA StateStays ==
  ASSUME Sound(State), UNCHANGED <<owner, process, child, up, down, launched, handed>>
  PROVE  Step(State', State)
<1>1. State' = State
  BY DEF State, Owner
<1> QED BY <1>1, StepSelf

-----------------------------------------------------------------------------
(* What the gate of a client keeps, whatever the evidence it is given *)

GateParts ==
  {"init", "facts", "phase", "binding", "generation_high_water",
   "last_binding_control_at", "withdrawn_at", "last_old_scope_record",
   "candidate", "next_operation_id", "receipt", "last_native", "capabilities"}
ReceiptParts ==
  {"authority", "dispatch", "acceptance", "outcome", "output", "reason",
   "settlement", "disposition", "deadline", "dispatched_at", "cancelled_at",
   "expired_at", "withdrawn_at", "stop_requested_at", "stop_acknowledgement",
   "native_identity", "requirements", "evidence"}

GateLike(g) ==
  /\ DOMAIN g = GateParts /\ DOMAIN g.receipt = ReceiptParts
  /\ DOMAIN g.receipt.evidence = EvidenceKind
  /\ g.next_operation_id \in Nat /\ g.receipt.authority.operation_id \in Nat

\* Nothing is known of how the operation ended.
Pending(g) ==
  /\ g.receipt.outcome = "pending"
  /\ \A k \in Terminal : g.receipt.evidence[k] = {}

KeepsReceipt(h, g) == GateLike(h) /\ h.receipt = g.receipt

SameOutcome(h, g) ==
  /\ GateLike(h) /\ h.receipt.outcome = g.receipt.outcome
  /\ h.receipt.authority = g.receipt.authority
  /\ \A k \in Terminal : h.receipt.evidence[k] = g.receipt.evidence[k]

LEMMA InitialGateLike == GateLike(initial_gate) /\ Pending(initial_gate) /\ ~has_receipt(initial_gate)
BY DEF GateLike, GateParts, ReceiptParts, Pending, initial_gate, NoReceipt, new_receipt,
       NoAuthority, Terminal, EvidenceKind, NativeKind, has_receipt

LEMMA GreetedGate ==
  ASSUME NEW b, NEW n, NEW t, NEW e
  PROVE  LET g == [initial_gate EXCEPT !.binding = b, !.generation_high_water = n,
                     !.last_binding_control_at = t]
             h == withdraw_binding(g, e, t)
         IN  GateLike(h) /\ Pending(h)
<1> DEFINE g == [initial_gate EXCEPT !.binding = b, !.generation_high_water = n,
                   !.last_binding_control_at = t]
           h == withdraw_binding(g, e, t)
<1>1. GateLike(g) /\ Pending(g) /\ ~has_receipt(g)
  BY InitialGateLike DEF GateLike, GateParts, Pending, has_receipt
<1> HIDE DEF g
<1>2. ~withdraws_current(g)
  BY <1>1 DEF withdraws_current, current_authority_matches
<1>3. DOMAIN h = GateParts /\ h.receipt = g.receipt /\ h.next_operation_id = g.next_operation_id
  BY <1>1, <1>2 DEF withdraw_binding, GateLike, GateParts
<1> QED BY <1>1, <1>3 DEF GateLike, Pending, g

LEMMA BeginKeeps ==
  ASSUME NEW g, GateLike(g), NEW b, NEW p, NEW e, NEW t
  PROVE  KeepsReceipt(begin_rebind(g, b, p, e, t), g)
BY DEF begin_rebind, KeepsReceipt, GateLike, GateParts

LEMMA ReadinessKeeps ==
  ASSUME NEW g, GateLike(g), NEW e
  PROVE  KeepsReceipt(observe_rebind_readiness(g, e), g)
BY DEF observe_rebind_readiness, KeepsReceipt, GateLike, GateParts

LEMMA CommitKeeps ==
  ASSUME NEW g, GateLike(g), NEW b, NEW t
  PROVE  KeepsReceipt(commit_rebind(g, b, t), g)
BY DEF commit_rebind, KeepsReceipt, GateLike, GateParts

LEMMA CloseKeeps ==
  ASSUME NEW g, GateLike(g)
  PROVE  KeepsReceipt(close_admission(g), g)
BY DEF close_admission, KeepsReceipt, GateLike, GateParts

LEMMA AdmitStarts ==
  ASSUME NEW g, GateLike(g), NEW q, admits(g, q)
  PROVE  GateLike(admit(g, q)) /\ Pending(admit(g, q))
<1> DEFINE a == [operation_id |-> g.next_operation_id, binding |-> g.binding,
                 admitted_at |-> q.requested_at]
           r == new_receipt(a, q.deadline, q.requirements)
           n == following_operation_id(g.next_operation_id)
           h == [g EXCEPT !.next_operation_id = n, !.receipt = r, !.last_native = {}]
<1>1. n \in Nat /\ a.operation_id \in Nat
  BY NumberAssumption DEF following_operation_id, GateLike
<1>2. admit(g, q) = h
  BY DEF admit, GateLike, GateParts
<1> HIDE DEF n, a
<1>3. /\ DOMAIN r = ReceiptParts /\ r.authority = a /\ r.outcome = "pending"
      /\ r.evidence = [k \in EvidenceKind |-> {}]
  BY DEF new_receipt, ReceiptParts
<1> HIDE DEF r
<1>4. DOMAIN h = GateParts /\ h.receipt = r /\ h.next_operation_id = n
  BY DEF GateLike, GateParts
<1> HIDE DEF h
<1>5. \A k \in Terminal : r.evidence[k] = {}
  BY <1>3 DEF Terminal, EvidenceKind, NativeKind
<1>6. GateLike(h) /\ Pending(h)
  BY <1>1, <1>3, <1>4, <1>5 DEF GateLike, Pending
<1> QED BY <1>2, <1>6

LEMMA RefreshKeeps ==
  ASSUME NEW r, DOMAIN r = ReceiptParts
  PROVE  LET q == refresh_authority_disposition(r)
         IN  /\ DOMAIN q = ReceiptParts /\ q.outcome = r.outcome
             /\ q.authority = r.authority /\ q.evidence = r.evidence
BY DEF refresh_authority_disposition, ReceiptParts

LEMMA ClaimKeeps ==
  ASSUME NEW g, GateLike(g), NEW a, NEW t
  PROVE  SameOutcome(claim_dispatch(g, a, t), g)
BY DEF claim_dispatch, SameOutcome, GateLike, GateParts, ReceiptParts

LEMMA OutputKeeps ==
  ASSUME NEW g, GateLike(g), NEW e
  PROVE  SameOutcome(observe_output_accepted(g, e), g)
<1> DEFINE u == [g.receipt EXCEPT !.output = "accepted", !.evidence["output"] = {e.record}]
           r == refresh_authority_disposition(u)
           h == [g EXCEPT !.receipt = r]
<1>1. /\ DOMAIN u = ReceiptParts /\ u.outcome = g.receipt.outcome
      /\ u.authority = g.receipt.authority /\ DOMAIN u.evidence = EvidenceKind
      /\ \A k \in Terminal : u.evidence[k] = g.receipt.evidence[k]
  BY DEF GateLike, ReceiptParts, Terminal, EvidenceKind, NativeKind
<1>2. observe_output_accepted(g, e) \in {g, h}
  BY DEF observe_output_accepted, GateLike, GateParts
<1> HIDE DEF u
<1>3. /\ DOMAIN r = ReceiptParts /\ r.outcome = u.outcome
      /\ r.authority = u.authority /\ r.evidence = u.evidence
  BY <1>1, RefreshKeeps
<1> HIDE DEF r
<1>4. h.receipt = r /\ DOMAIN h = GateParts /\ h.next_operation_id = g.next_operation_id
  BY DEF GateLike, GateParts
<1> QED BY <1>1, <1>2, <1>3, <1>4 DEF SameOutcome, GateLike

LEMMA NonDeliveryKeeps ==
  ASSUME NEW g, GateLike(g), NEW e
  PROVE  SameOutcome(observe_output_not_delivered(g, e), g)
<1> DEFINE u == [g.receipt EXCEPT !.output = "not_delivered", !.reason = {e.reason},
                                  !.evidence["non_delivery"] = {e.record}]
           r == refresh_authority_disposition(u)
           h == [g EXCEPT !.receipt = r]
<1>1. /\ DOMAIN u = ReceiptParts /\ u.outcome = g.receipt.outcome
      /\ u.authority = g.receipt.authority /\ DOMAIN u.evidence = EvidenceKind
      /\ \A k \in Terminal : u.evidence[k] = g.receipt.evidence[k]
  BY DEF GateLike, ReceiptParts, Terminal, EvidenceKind, NativeKind
<1>2. observe_output_not_delivered(g, e) \in {g, h}
  BY DEF observe_output_not_delivered, GateLike, GateParts
<1> HIDE DEF u
<1>3. /\ DOMAIN r = ReceiptParts /\ r.outcome = u.outcome
      /\ r.authority = u.authority /\ r.evidence = u.evidence
  BY <1>1, RefreshKeeps
<1> HIDE DEF r
<1>4. h.receipt = r /\ DOMAIN h = GateParts /\ h.next_operation_id = g.next_operation_id
  BY DEF GateLike, GateParts
<1> QED BY <1>1, <1>2, <1>3, <1>4 DEF SameOutcome, GateLike

LEMMA SettlementKeeps ==
  ASSUME NEW g, GateLike(g), NEW e
  PROVE  SameOutcome(observe_settlement(g, e), g)
<1> DEFINE u == [g.receipt EXCEPT !.settlement = "settled",
                                  !.evidence["settlement"] = {e.record}]
           r == refresh_authority_disposition(u)
           h == [g EXCEPT !.receipt = r]
<1>1. /\ DOMAIN u = ReceiptParts /\ u.outcome = g.receipt.outcome
      /\ u.authority = g.receipt.authority /\ DOMAIN u.evidence = EvidenceKind
      /\ \A k \in Terminal : u.evidence[k] = g.receipt.evidence[k]
  BY DEF GateLike, ReceiptParts, Terminal, EvidenceKind, NativeKind
<1>2. observe_settlement(g, e) \in {g, h}
  BY DEF observe_settlement, GateLike, GateParts
<1> HIDE DEF u
<1>3. /\ DOMAIN r = ReceiptParts /\ r.outcome = u.outcome
      /\ r.authority = u.authority /\ r.evidence = u.evidence
  BY <1>1, RefreshKeeps
<1> HIDE DEF r
<1>4. h.receipt = r /\ DOMAIN h = GateParts /\ h.next_operation_id = g.next_operation_id
  BY DEF GateLike, GateParts
<1> QED BY <1>1, <1>2, <1>3, <1>4 DEF SameOutcome, GateLike

\* The first native report of an end is what the gate says of it.
LEMMA NativeTells ==
  ASSUME NEW g, GateLike(g), Pending(g), NEW e, e.kind \in NativeKind,
         observe_native(g, e) # g
  PROVE  LET h == observe_native(g, e)
         IN  /\ GateLike(h) /\ h.receipt.authority = g.receipt.authority
             /\ e.kind \in Terminal => h.receipt.outcome = e.kind
             /\ e.kind = "rejected" => h.receipt.outcome = "not_executed"
             /\ e.kind = "accepted" => Pending(h)
<1> DEFINE r == g.receipt
           evidence_after == IF r.evidence[e.kind] = {}
                               THEN [r.evidence EXCEPT ![e.kind] = {e.record}]
                               ELSE r.evidence
           acceptance == IF e.kind \in {"accepted", "rejected"} THEN e.kind ELSE r.acceptance
           told == native_outcome(r, e.kind, evidence_after)
           u == [r EXCEPT !.evidence = evidence_after,
                          !.native_identity = {e.native_identity},
                          !.acceptance = acceptance, !.outcome = told]
           q == refresh_authority_disposition(u)
           h == observe_native(g, e)
<1>1. DOMAIN r = ReceiptParts /\ DOMAIN r.evidence = EvidenceKind /\ DOMAIN g = GateParts
  BY DEF GateLike
<1>2. h = [g EXCEPT !.receipt = q,
                    !.last_native = {[kind |-> e.kind, record |-> e.record]}]
  BY <1>1 DEF observe_native, apply_native, GateParts, ReceiptParts
<1>3. /\ e.kind \in EvidenceKind /\ DOMAIN evidence_after = EvidenceKind
      /\ evidence_after[e.kind] # {}
      /\ \A k \in EvidenceKind \ {e.kind} : evidence_after[k] = r.evidence[k]
  BY <1>1 DEF EvidenceKind
<1> HIDE DEF evidence_after
<1>4. Terminal \subseteq EvidenceKind
  BY DEF Terminal, EvidenceKind, NativeKind
<1>5. \A k \in Terminal : evidence_after[k] # {} <=> k = e.kind
  BY <1>3, <1>4 DEF Pending
<1>6. CASE e.kind \in Terminal
  <2>1. seen_terminals(evidence_after) = {e.kind}
    BY <1>5, <1>6 DEF seen_terminals
  <2>2. (CHOOSE k \in Terminal : evidence_after[k] # {}) = e.kind
    BY <1>5, <1>6
  <2>3. told = e.kind
    BY <2>1, <2>2 DEF native_outcome
  <2> HIDE DEF told
  <2>4. DOMAIN u = ReceiptParts /\ u.outcome = e.kind /\ u.authority = r.authority
        /\ u.evidence = evidence_after
    BY <1>1, <2>3 DEF ReceiptParts
  <2> HIDE DEF u
  <2>5. DOMAIN q = ReceiptParts /\ q.outcome = e.kind /\ q.authority = r.authority
        /\ q.evidence = evidence_after
    BY <2>4, RefreshKeeps
  <2> HIDE DEF q
  <2>6. DOMAIN h = GateParts /\ h.receipt = q /\ h.next_operation_id = g.next_operation_id
    BY <1>1, <1>2 DEF GateParts
  <2> HIDE DEF h
  <2>7. GateLike(h)
    BY <1>3, <2>5, <2>6 DEF GateLike
  <2> QED BY <1>6, <2>5, <2>6, <2>7 DEF h, Terminal
<1>7. CASE e.kind \notin Terminal
  <2>1. seen_terminals(evidence_after) = {}
    BY <1>5, <1>7 DEF seen_terminals
  <2>2. told = IF e.kind = "rejected" THEN "not_executed" ELSE r.outcome
    BY <2>1 DEF native_outcome
  <2> HIDE DEF told
  <2>4. DOMAIN u = ReceiptParts /\ u.outcome = told /\ u.authority = r.authority
        /\ u.evidence = evidence_after
    BY <1>1 DEF ReceiptParts
  <2> HIDE DEF u
  <2>5. DOMAIN q = ReceiptParts /\ q.outcome = told /\ q.authority = r.authority
        /\ q.evidence = evidence_after
    BY <2>4, RefreshKeeps
  <2> HIDE DEF q
  <2>6. DOMAIN h = GateParts /\ h.receipt = q /\ h.next_operation_id = g.next_operation_id
    BY <1>1, <1>2 DEF GateParts
  <2> HIDE DEF h
  <2>7. GateLike(h)
    BY <1>3, <2>5, <2>6 DEF GateLike
  <2>8. e.kind = "accepted" => Pending(h)
    BY <1>5, <1>7, <2>2, <2>5, <2>6 DEF Pending
  <2> QED BY <1>7, <2>2, <2>5, <2>6, <2>7, <2>8 DEF h
<1> QED BY <1>6, <1>7

-----------------------------------------------------------------------------
(* The inductive invariant of a client c, next to a state s of the owner *)

ClientParts ==
  {"state", "exchange", "last_time", "issued_at", "queued_at", "query_at", "epoch",
   "nonce", "sequence", "token", "gate", "pending", "has_value"}

ClientLike(c) ==
  /\ DOMAIN c = ClientParts /\ GateLike(c.gate)
  /\ c.epoch \in Nat /\ c.nonce \in Nat /\ c.pending \in Waiting
  /\ c.state = "closed" => c.exchange = "hello"

\* ResultIsTrue of receipt r of session e, with what makes it last.
Told(s, e, r) ==
  LET id == r.authority.operation_id
  IN  /\ r.outcome = "succeeded" => Ended(s, e, id, {"completed"})
      /\ r.outcome \in {"failed", "cancelled"} =>
           \E exit \in ExitStatus : Ended(s, e, id, exit)
      /\ r.outcome = "not_executed" => LaunchesOf(s, e, id) = {}
      /\ r.outcome \in Terminal \cup {"not_executed"} => Decided(s, e, id)

\* SessionsDoNotOverlap, with what makes it last.
Alone(s, e) == e <= s.owner.epoch /\ Clean(s, e)

Known(s, c) ==
  /\ ClientLike(c)
  /\ c.state = "ready" => Alone(s, c.epoch)
  /\ Told(s, c.epoch, c.gate.receipt)

Awaits(c) == c.exchange \in {"acceptance", "result"}

Host(s, c) == Known(s, c) /\ (Awaits(c) => Pending(c.gate))

LEMMA PendingTold ==
  ASSUME NEW s, NEW e, NEW g, Pending(g)
  PROVE  Told(s, e, g.receipt)
BY DEF Told, Pending, Terminal

LEMMA HostStays ==
  ASSUME NEW s, NEW r, Typed(s), Typed(r), Advances(r, s), NEW c, Host(s, c)
  PROVE  Host(r, c)
<1> DEFINE e == c.epoch
           q == c.gate.receipt
           id == q.authority.operation_id
<1>1. e \in Nat /\ id \in Nat
  BY DEF Host, Known, ClientLike, GateLike
<1>3. Told(s, e, q)
  BY DEF Host, Known
<1> HIDE DEF e, id
<1>2. Alone(s, e) => Alone(r, e)
  <2>1. s.owner.epoch \in Nat /\ r.owner.epoch \in Nat /\ s.owner.epoch <= r.owner.epoch
    BY DEF Typed, OwnerRecord, Advances
  <2>2. e <= s.owner.epoch /\ Clean(s, e) => Clean(r, e)
    BY <1>1 DEF Advances
  <2> QED BY <1>1, <2>1, <2>2 DEF Alone
<1>4. Decided(s, e, id) =>
       /\ Decided(r, e, id)
       /\ LaunchesOf(s, e, id) = {} => LaunchesOf(r, e, id) = {}
       /\ \A exit : Ended(s, e, id, exit) => Ended(r, e, id, exit)
  BY <1>1 DEF Advances
<1>5. Told(r, e, q)
  <2> HIDE DEF q
  <2> QED BY <1>3, <1>4 DEF Told, Terminal, id
<1> QED BY <1>2, <1>5 DEF Host, Known, e

LEMMA SameReceiptOutcome ==
  ASSUME NEW h, NEW g, KeepsReceipt(h, g)
  PROVE  SameOutcome(h, g)
BY DEF KeepsReceipt, SameOutcome

\* A call that changes nothing the gate says of the operation.
LEMMA KnownBy ==
  ASSUME NEW s, NEW c, Known(s, c), NEW r, DOMAIN r = ClientParts,
         r.epoch = c.epoch, r.nonce \in Nat, r.pending \in Waiting,
         SameOutcome(r.gate, c.gate),
         r.state = "ready" => c.state = "ready",
         r.state = "closed" => r.exchange = "hello"
  PROVE  /\ Known(s, r)
         /\ (Pending(c.gate) \/ ~Awaits(r)) => Host(s, r)
         /\ (Host(s, c) /\ r.exchange = c.exchange) => Host(s, r)
<1>1. ClientLike(r)
  BY DEF ClientLike, Known, SameOutcome
<1>2. Told(s, r.epoch, r.gate.receipt)
  BY DEF Known, Told, SameOutcome
<1>3. Known(s, r)
  BY <1>1, <1>2 DEF Known
<1>4. Pending(c.gate) => Pending(r.gate)
  BY DEF Pending, SameOutcome
<1> QED BY <1>3, <1>4 DEF Host, Awaits

LEMMA SameGate == ASSUME NEW g, GateLike(g) PROVE SameOutcome(g, g)
BY DEF SameOutcome

LEMMA ClosedHost ==
  ASSUME NEW s, NEW c, Known(s, c)
  PROVE  Host(s, closed(c)) /\ closed(c).epoch = c.epoch /\ closed(c).state = "closed"
<1> DEFINE r == closed(c)
           g == IF c.epoch = 0 THEN initial_gate ELSE close_admission(c.gate)
<1>1. /\ DOMAIN r = ClientParts /\ r.epoch = c.epoch /\ r.state = "closed"
      /\ r.exchange = "hello" /\ r.pending = {} /\ r.nonce = 0 /\ r.gate = g
  BY DEF closed, new_client, ClientParts
<1> HIDE DEF r
<1>2. r.pending \in Waiting
  BY <1>1 DEF Waiting
<1>3. GateLike(g) /\ Told(s, c.epoch, g.receipt)
  <2>1. GateLike(initial_gate) /\ Told(s, c.epoch, initial_gate.receipt)
    BY InitialGateLike, PendingTold
  <2>2. KeepsReceipt(close_admission(c.gate), c.gate)
    BY CloseKeeps DEF Known, ClientLike
  <2>3. Told(s, c.epoch, close_admission(c.gate).receipt)
    BY <2>2 DEF KeepsReceipt, Known
  <2> QED BY <2>1, <2>2, <2>3 DEF KeepsReceipt
<1> HIDE DEF g
<1>4. Host(s, r)
  BY <1>1, <1>2, <1>3 DEF Host, Known, ClientLike, Awaits
<1> QED BY <1>1, <1>4 DEF r

LEMMA TimeHost ==
  ASSUME NEW s, NEW c, Host(s, c), NEW t
  PROVE  Host(s, time(c, t)) /\ time(c, t).pending \in Waiting
<1> DEFINE r == [c EXCEPT !.last_time = t]
<1>1. /\ DOMAIN r = ClientParts /\ r.epoch = c.epoch /\ r.nonce = c.nonce
      /\ r.pending = c.pending /\ r.gate = c.gate /\ r.state = c.state
      /\ r.exchange = c.exchange
  BY DEF Host, Known, ClientLike, ClientParts
<1> HIDE DEF r
<1>2. Host(s, r)
  BY <1>1 DEF Host, Known, ClientLike, Awaits
<1>3. Host(s, closed(c))
  BY ClosedHost DEF Host
<1>4. time(c, t) \in {r, closed(c)}
  BY DEF time, r
<1>5. Host(s, time(c, t))
  BY <1>2, <1>3, <1>4
<1> QED BY <1>5 DEF Host, Known, ClientLike

LEMMA QueuedHost ==
  ASSUME NEW s, NEW c, Known(s, c), NEW m \in Message, NEW t
  PROVE  LET r == queued(c, m, t)
         IN  /\ Known(s, r) /\ r.epoch = c.epoch
             /\ Host(s, c) => Host(s, r)
             /\ r.state # "closed" => r.gate = c.gate
<1> DEFINE x == [m EXCEPT !.session = c.epoch, !.request = c.nonce + 1]
           n == c.nonce + 1
           r == [c EXCEPT !.nonce = n, !.queued_at = t, !.issued_at = t,
                          !.pending = {x}]
<1>1. DOMAIN c = ClientParts /\ GateLike(c.gate) /\ c.nonce \in Nat /\ c.epoch \in Nat
  BY DEF Known, ClientLike
<1>2. x \in Message /\ n \in Nat
  <2>1. n \in Nat /\ x = [m EXCEPT !.session = c.epoch, !.request = n]
    BY <1>1
  <2> HIDE DEF n, x
  <2> QED BY <1>1, <2>1 DEF Message
<1>3. queued(c, m, t) \in {r, closed(c)}
  BY <1>1 DEF queued, ClientParts
<1> HIDE DEF x, n
<1>4. /\ DOMAIN r = ClientParts /\ r.epoch = c.epoch /\ r.nonce \in Nat
      /\ r.pending = {x} /\ r.gate = c.gate /\ r.state = c.state
      /\ r.exchange = c.exchange
  BY <1>1, <1>2 DEF ClientParts
<1> HIDE DEF r
<1>5. r.pending \in Waiting
  BY <1>2, <1>4 DEF Waiting
<1>6. SameOutcome(r.gate, c.gate) /\ (r.state = "closed" => r.exchange = "hello")
  BY <1>1, <1>4, SameGate DEF Known, ClientLike
<1>7. Known(s, r) /\ (Host(s, c) => Host(s, r))
  BY <1>4, <1>5, <1>6, KnownBy
<1>8. Known(s, closed(c)) /\ Host(s, closed(c)) /\ closed(c).epoch = c.epoch
      /\ closed(c).state = "closed"
  BY ClosedHost DEF Host
<1> QED BY <1>3, <1>4, <1>7, <1>8

\* A report that says nothing of how the operation ended.
LEMMA EvidenceHost ==
  ASSUME NEW s, NEW c, Known(s, c), NEW g, SameOutcome(g, c.gate)
  PROVE  LET r == evidence(c, g)
         IN  /\ Known(s, r) /\ r.epoch = c.epoch
             /\ Host(s, c) => Host(s, r)
<1> DEFINE r == [c EXCEPT !.gate = g, !.sequence = @ + 1]
<1>1. DOMAIN c = ClientParts
  BY DEF Known, ClientLike
<1>2. evidence(c, g) \in {r, closed(c)}
  BY DEF evidence
<1>3. /\ DOMAIN r = ClientParts /\ r.epoch = c.epoch /\ r.nonce = c.nonce
      /\ r.pending = c.pending /\ r.gate = g /\ r.state = c.state
      /\ r.exchange = c.exchange
  BY <1>1 DEF ClientParts
<1> HIDE DEF r
<1>4. /\ r.nonce \in Nat /\ r.pending \in Waiting
      /\ r.state = "closed" => r.exchange = "hello"
  BY <1>3 DEF Known, ClientLike
<1>5. Known(s, r) /\ (Host(s, c) => Host(s, r))
  BY <1>3, <1>4, KnownBy
<1>6. Known(s, closed(c)) /\ Host(s, closed(c)) /\ closed(c).epoch = c.epoch
  BY ClosedHost DEF Host
<1> QED BY <1>2, <1>3, <1>5, <1>6

-----------------------------------------------------------------------------
(* What a client makes of the messages of the owner *)

LEMMA GreetedHost ==
  ASSUME NEW s, NEW c, Host(s, c), NEW m \in Message, NEW t
  PROVE  Host(s, greeted(c, m, t))
<1> DEFINE binding == [InitialBinding EXCEPT !.generation = m.session - 1]
           n == binding.generation
           gate == [initial_gate EXCEPT !.binding = binding,
                      !.generation_high_water = n,
                      !.last_binding_control_at = t]
           g == withdraw_binding(gate, binding, t)
           r == [c EXCEPT !.epoch = m.session, !.state = "blocked", !.exchange = "idle",
                          !.gate = g]
<1>1. greeted(c, m, t) \in {r, closed(c)}
  BY DEF greeted
<1>2. GateLike(g) /\ Pending(g)
  BY GreetedGate
<1> HIDE DEF g
<1>3. /\ DOMAIN r = ClientParts /\ r.epoch = m.session /\ r.nonce = c.nonce
      /\ r.pending = c.pending /\ r.gate = g /\ r.state = "blocked"
      /\ r.exchange = "idle"
  BY DEF Host, Known, ClientLike, ClientParts
<1> HIDE DEF r
<1>4. ClientLike(r) /\ Told(s, r.epoch, g.receipt)
  BY <1>2, <1>3, PendingTold DEF Host, Known, ClientLike, Message
<1>5. Host(s, r)
  BY <1>2, <1>3, <1>4 DEF Host, Known
<1> QED BY <1>1, <1>5, ClosedHost DEF Host

\* The members of a client that the invariant does not relate, and the exchange.
SameClient(r, c) ==
  /\ DOMAIN r = ClientParts /\ r.epoch = c.epoch /\ r.nonce = c.nonce
  /\ r.pending = c.pending /\ r.gate = c.gate

LEMMA ExchangeSet ==
  ASSUME NEW s, NEW c, Known(s, c), NEW r, SameClient(r, c),
         r.state # "closed", r.state = "ready" => c.state = "ready",
         Awaits(r) => Pending(c.gate)
  PROVE  Host(s, r)
BY DEF Host, Known, ClientLike, SameClient

LEMMA PreparedHost ==
  ASSUME NEW s, NEW c, Host(s, c), ~Awaits(c), NEW m \in Message, NEW t
  PROVE  Host(s, prepared(c, m, t))
<1> DEFINE old == [binding |-> c.gate.binding, record |-> record(c, BindingObserver, t),
                   valid_until |-> c.query_at + Lifetime]
           begun == begin_rebind(c.gate, c.gate.binding, BindingObserver, old, t)
           activate == [message("activate", 0, 0) EXCEPT !.value = m.request]
           b == [c EXCEPT !.state = "blocked", !.exchange = "idle"]
           x == [c EXCEPT !.gate = begun, !.sequence = @ + 1, !.token = m.request]
           y == queued(x, activate, t)
           z == IF y.state = "closed" THEN y ELSE [y EXCEPT !.exchange = "activation"]
<1>1. prepared(c, m, t) \in {closed(c), b, z}
  <2>1. also(y, LAMBDA v : [v EXCEPT !.exchange = "activation"]) = z
    <3> HIDE DEF y
    <3> QED BY DEF also, then
  <2> HIDE DEF y, z
  <2> QED BY <2>1 DEF prepared, y
<1>2. Known(s, c)
  BY DEF Host
<1>3. Host(s, closed(c))
  BY <1>2, ClosedHost
<1>4. Host(s, b)
  <2>1. SameClient(b, c) /\ b.state = "blocked" /\ b.exchange = "idle"
    BY <1>2 DEF SameClient, Known, ClientLike, ClientParts
  <2> HIDE DEF b
  <2> QED BY <1>2, <2>1, ExchangeSet DEF Awaits
<1>5. SameOutcome(begun, c.gate)
  <2> HIDE DEF old
  <2> QED BY <1>2, BeginKeeps, SameReceiptOutcome DEF Known, ClientLike
<1> HIDE DEF begun, b
<1>6. Known(s, x)
  <2>1. /\ DOMAIN x = ClientParts /\ x.epoch = c.epoch /\ x.nonce = c.nonce
        /\ x.pending = c.pending /\ x.gate = begun /\ x.state = c.state
        /\ x.exchange = c.exchange
    BY <1>2 DEF Known, ClientLike, ClientParts
  <2> HIDE DEF x
  <2>2. /\ x.nonce \in Nat /\ x.pending \in Waiting
        /\ x.state = "closed" => x.exchange = "hello"
    BY <1>2, <2>1 DEF Known, ClientLike
  <2> QED BY <1>2, <1>5, <2>1, <2>2, KnownBy
<1> HIDE DEF x
<1>7. activate \in Message
  BY DEF message, Message, MessageKind, Flags
<1> HIDE DEF activate
<1>8. Known(s, y)
  BY <1>6, <1>7, QueuedHost
<1> HIDE DEF y
<1>9. Host(s, z)
  <2> DEFINE w == [y EXCEPT !.exchange = "activation"]
  <2>1. SameClient(w, y) /\ w.state = y.state /\ w.exchange = "activation"
    BY <1>8 DEF SameClient, Known, ClientLike, ClientParts
  <2> HIDE DEF w
  <2>2. y.state # "closed" => Host(s, w)
    BY <1>8, <2>1, ExchangeSet DEF Awaits
  <2>3. y.state = "closed" => Host(s, y)
    BY <1>8 DEF Host, Known, ClientLike, Awaits
  <2>4. z = IF y.state = "closed" THEN y ELSE w
    BY DEF w
  <2> QED BY <2>2, <2>3, <2>4
<1> QED BY <1>1, <1>3, <1>4, <1>9

\* Readiness is evidence of the session that the owner activated.
LEMMA CommittedHost ==
  ASSUME NEW s, NEW c, Host(s, c), ~Awaits(c), NEW m \in Message, Fair(s, m),
         m.session = c.epoch, NEW t
  PROVE  Host(s, committed(c, m, t))
<1> DEFINE seen(v, concern) == observe_rebind_readiness(v.gate,
             [concern |-> concern, binding |-> v.gate.candidate.binding, value |-> TRUE,
              record |-> record(v, observer_of(concern), t),
              valid_until |-> v.query_at + Lifetime])
           observed(v, concern) == evidence(v, seen(v, concern))
           commit(v) == IF commits_rebind(v.gate, v.gate.candidate.binding, t)
                          THEN [v EXCEPT !.state = "ready", !.exchange = "idle",
                                 !.gate = commit_rebind(@, @.candidate.binding, t)]
                          ELSE closed(v)
           x == observed(c, "idle")
           y == IF x.state = "closed" THEN x ELSE observed(x, "worker")
           z == IF y.state = "closed" THEN y ELSE observed(y, "sink")
           r == IF z.state = "closed" THEN z ELSE commit(z)
<1>1. \A v, concern : Known(s, v) =>
        Known(s, observed(v, concern)) /\ observed(v, concern).epoch = v.epoch
  <2> SUFFICES ASSUME NEW v, NEW concern, Known(s, v)
               PROVE  Known(s, observed(v, concern)) /\ observed(v, concern).epoch = v.epoch
    OBVIOUS
  <2>1. SameOutcome(seen(v, concern), v.gate)
    BY ReadinessKeeps, SameReceiptOutcome DEF Known, ClientLike
  <2> HIDE DEF seen
  <2> QED BY <2>1, EvidenceHost
<1>2. \/ committed(c, m, t) = closed(c)
      \/ m.kind = "activated" /\ committed(c, m, t) = r
  <2>1. also(also(also(x, LAMBDA v : observed(v, "worker")),
                  LAMBDA v : observed(v, "sink")), commit) = r
    <3> HIDE DEF x, observed, commit
    <3>1. also(x, LAMBDA v : observed(v, "worker")) = y
      BY DEF also, then
    <3> HIDE DEF y
    <3>2. also(y, LAMBDA v : observed(v, "sink")) = z
      BY DEF also, then
    <3> HIDE DEF z
    <3>3. also(z, commit) = r
      BY DEF also, then
    <3> HIDE DEF r
    <3> QED BY <3>1, <3>2, <3>3
  <2> HIDE DEF r
  <2> QED BY <2>1 DEF committed, x, observed, seen, commit
<1> HIDE DEF observed
<1>3. Known(s, c)
  BY DEF Host
<1>4. Known(s, x) /\ x.epoch = c.epoch
  BY <1>1, <1>3
<1> HIDE DEF x
<1>5. Known(s, y) /\ y.epoch = c.epoch
  BY <1>1, <1>4
<1> HIDE DEF y
<1>6. Known(s, z) /\ z.epoch = c.epoch
  BY <1>1, <1>5
<1> HIDE DEF z
<1>7. ASSUME m.kind = "activated" PROVE Host(s, r)
  <2> DEFINE g == commit_rebind(z.gate, z.gate.candidate.binding, t)
             w == [z EXCEPT !.state = "ready", !.exchange = "idle", !.gate = g]
  <2>1. Alone(s, c.epoch)
    BY <1>7 DEF Fair, Alone
  <2>2. SameOutcome(g, z.gate) /\ DOMAIN z = ClientParts
    BY <1>6, CommitKeeps, SameReceiptOutcome DEF Known, ClientLike
  <2>3. commit(z) \in {w, closed(z)}
    <3>1. w = [z EXCEPT !.state = "ready", !.exchange = "idle",
                                 !.gate = commit_rebind(@, @.candidate.binding, t)]
      BY <2>2 DEF ClientParts
    <3> HIDE DEF w
    <3> QED BY <3>1
  <2> HIDE DEF g, commit
  <2>4. /\ DOMAIN w = ClientParts /\ w.epoch = c.epoch /\ w.nonce = z.nonce
        /\ w.pending = z.pending /\ w.gate = g /\ w.state = "ready" /\ w.exchange = "idle"
    BY <1>6, <2>2 DEF ClientParts
  <2> HIDE DEF w
  <2>5. ClientLike(w) /\ Told(s, c.epoch, g.receipt)
    BY <1>6, <2>2, <2>4 DEF Known, ClientLike, SameOutcome, Told
  <2>6. Host(s, w)
    BY <2>1, <2>4, <2>5 DEF Host, Known, Awaits
  <2>7. Host(s, closed(z))
    BY <1>6, ClosedHost
  <2>8. z.state = "closed" => Host(s, z)
    BY <1>6 DEF Host, Known, ClientLike, Awaits
  <2> QED BY <2>3, <2>6, <2>7, <2>8
<1> QED BY <1>2, <1>3, <1>7, ClosedHost

\* A native report is taken once, and the gate then says what it said.
LEMMA NativeHost ==
  ASSUME NEW s, NEW c, Known(s, c), Pending(c.gate), NEW t,
         NEW kind \in NativeKind \ {"started"},
         Told(s, c.epoch, [authority |-> authority(c),
                           outcome |-> IF kind = "rejected" THEN "not_executed" ELSE kind])
  PROVE  LET r == native(c, kind, t)
         IN  /\ Known(s, r) /\ r.epoch = c.epoch
             /\ kind = "accepted" =>
                  Host(s, r) /\ (r.state # "closed" => Pending(r.gate))
<1> DEFINE e == [authority |-> authority(c), native_identity |-> authority(c).operation_id,
                 kind |-> kind, record |-> record(c, NativeSource, t)]
           g == observe_native(c.gate, e)
           r == [c EXCEPT !.gate = g, !.sequence = @ + 1]
<1>1. GateLike(c.gate) /\ DOMAIN c = ClientParts
  BY DEF Known, ClientLike
<1>2. native(c, kind, t) = IF g = c.gate THEN closed(c) ELSE r
  BY DEF native, evidence
<1>3. e.kind = kind
  OBVIOUS
<1> HIDE DEF e
<1>4. g # c.gate =>
        /\ GateLike(g) /\ g.receipt.authority = authority(c)
        /\ kind \in Terminal => g.receipt.outcome = kind
        /\ kind = "rejected" => g.receipt.outcome = "not_executed"
        /\ kind = "accepted" => Pending(g)
  BY <1>1, <1>3, NativeTells DEF authority
<1> HIDE DEF g
<1>5. /\ DOMAIN r = ClientParts /\ r.epoch = c.epoch /\ r.nonce = c.nonce
      /\ r.pending = c.pending /\ r.gate = g /\ r.state = c.state
      /\ r.exchange = c.exchange
  BY <1>1 DEF ClientParts
<1> HIDE DEF r
<1>6. ASSUME g # c.gate
      PROVE  Known(s, r) /\ (kind = "accepted" => Host(s, r) /\ Pending(r.gate))
  <2>1. ClientLike(r)
    BY <1>4, <1>5, <1>6 DEF Known, ClientLike
  <2>2. kind = "accepted" \/ kind = "rejected" \/ kind \in Terminal
    BY DEF NativeKind, Terminal
  <2>3. Told(s, c.epoch, g.receipt)
    <3>1. CASE kind = "accepted"
      BY <1>4, <1>6, <3>1, PendingTold
    <3>2. CASE kind # "accepted"
      <4> DEFINE q == [authority |-> authority(c),
                       outcome |-> IF kind = "rejected" THEN "not_executed" ELSE kind]
      <4>1. g.receipt.authority = q.authority /\ g.receipt.outcome = q.outcome
        BY <1>4, <1>6, <2>2, <3>2 DEF Terminal
      <4>2. Told(s, c.epoch, q)
        OBVIOUS
      <4> HIDE DEF q
      <4> QED BY <4>1, <4>2 DEF Told
    <3> QED BY <3>1, <3>2
  <2> QED BY <1>4, <1>5, <1>6, <2>1, <2>3 DEF Known, Host
<1>7. /\ Known(s, closed(c)) /\ Host(s, closed(c)) /\ closed(c).epoch = c.epoch
      /\ closed(c).state = "closed"
  BY ClosedHost DEF Host
<1> QED BY <1>2, <1>5, <1>6, <1>7

\* A result that is Fair, for the operation of the client.
LEMMA ResultTold ==
  ASSUME NEW s, NEW c, NEW m \in Message, Fair(s, m), m.kind = "result",
         m.session = c.epoch, m.operation = authority(c).operation_id,
         NEW kind, kind = event_of(m.flags)
  PROVE  /\ kind \in NativeKind \ {"started"}
         /\ Told(s, c.epoch, [authority |-> authority(c),
              outcome |-> IF kind = "rejected" THEN "not_executed" ELSE kind])
<1> DEFINE q == [authority |-> authority(c),
                 outcome |-> IF kind = "rejected" THEN "not_executed" ELSE kind]
           id == m.operation
<1>1. /\ Decided(s, c.epoch, id)
      /\ IF m.flags = "not_launched" THEN LaunchesOf(s, c.epoch, id) = {}
         ELSE \E exit \in ExitStatus :
                /\ Ended(s, c.epoch, id, exit)
                /\ m.flags = "succeeded" => exit = {"completed"}
  BY DEF Fair
<1>2. /\ kind \in {"succeeded", "cancelled", "rejected", "failed"}
      /\ kind = "succeeded" <=> m.flags = "succeeded"
      /\ kind = "rejected" <=> m.flags = "not_launched"
  BY DEF event_of, Message, Flags
<1>3. /\ q.authority.operation_id = id
      /\ q.outcome = IF kind = "rejected" THEN "not_executed" ELSE kind
  OBVIOUS
<1> HIDE DEF q, id
<1>4. Told(s, c.epoch, q)
  BY <1>1, <1>2, <1>3 DEF Told
<1> QED BY <1>2, <1>4 DEF q, NativeKind

LEMMA ResolvedHost ==
  ASSUME NEW s, NEW c, Host(s, c), Awaits(c), NEW m \in Message, Fair(s, m),
         m.kind = "result", m.session = c.epoch,
         m.operation = authority(c).operation_id, NEW t
  PROVE  Host(s, resolved(c, m, t))
<1> DEFINE kind == event_of(m.flags)
           succeeded == m.flags = "succeeded"
           delivered(v) == IF ~succeeded THEN no_output(v, t)
                           ELSE IF can_deliver_result(v.gate, authority(v)) THEN output(v, t)
                           ELSE closed(v)
           w == native(c, kind, t)
           x == IF w.state = "closed" THEN w ELSE delivered(w)
           y == IF x.state = "closed" THEN x ELSE settle(x, t)
           z == [y EXCEPT !.has_value = succeeded, !.exchange = "idle"]
           r == IF y.state = "closed" THEN y ELSE z
<1>1. resolved(c, m, t) = r
  <2>1. also(also(also(w, delivered), LAMBDA v : settle(v, t)),
             LAMBDA v : [v EXCEPT !.has_value = succeeded, !.exchange = "idle"]) = r
    <3> HIDE DEF w, delivered, succeeded
    <3>1. also(w, delivered) = x
      BY DEF also, then
    <3> HIDE DEF x
    <3>2. also(x, LAMBDA v : settle(v, t)) = y
      BY DEF also, then
    <3> HIDE DEF y
    <3>3. also(y, LAMBDA v : [v EXCEPT !.has_value = succeeded, !.exchange = "idle"]) = r
      BY DEF also, then
    <3> HIDE DEF r
    <3> QED BY <3>1, <3>2, <3>3
  <2> HIDE DEF r
  <2> QED BY <2>1 DEF resolved, w, kind, delivered, succeeded
<1> HIDE DEF kind
<1>2. Known(s, c) /\ Pending(c.gate)
  BY DEF Host
<1>3. Known(s, w)
  <2>1. /\ kind \in NativeKind \ {"started"}
        /\ Told(s, c.epoch, [authority |-> authority(c),
              outcome |-> IF kind = "rejected" THEN "not_executed" ELSE kind])
    BY ResultTold DEF kind
  <2> QED BY <1>2, <2>1, NativeHost
<1> HIDE DEF w, succeeded
<1>4. Known(s, x)
  <2>1. GateLike(w.gate)
    BY <1>3 DEF Known, ClientLike
  <2>2. Known(s, no_output(w, t))
    BY <1>3, <2>1, NonDeliveryKeeps, EvidenceHost DEF no_output
  <2>3. Known(s, output(w, t))
    BY <1>3, <2>1, OutputKeeps, EvidenceHost DEF output
  <2>4. Known(s, closed(w))
    BY <1>3, ClosedHost DEF Host
  <2> QED BY <1>3, <2>2, <2>3, <2>4
<1> HIDE DEF x
<1>5. Known(s, y)
  <2>1. GateLike(x.gate)
    BY <1>4 DEF Known, ClientLike
  <2>2. Known(s, settle(x, t))
    BY <1>4, <2>1, SettlementKeeps, EvidenceHost DEF settle
  <2> QED BY <1>4, <2>2
<1> HIDE DEF y
<1>6. y.state # "closed" => Host(s, z)
  <2>1. SameClient(z, y) /\ z.state = y.state /\ z.exchange = "idle"
    BY <1>5 DEF SameClient, Known, ClientLike, ClientParts
  <2> HIDE DEF z
  <2> QED BY <1>5, <2>1, ExchangeSet DEF Awaits
<1>7. y.state = "closed" => Host(s, y)
  BY <1>5 DEF Host, Known, ClientLike, Awaits
<1> QED BY <1>1, <1>6, <1>7

LEMMA HandleHost ==
  ASSUME NEW s, NEW c, Host(s, c), NEW m \in Message, Fair(s, m), NEW t
  PROVE  Host(s, handle(c, m, t))
<1> DEFINE w == native(c, "accepted", t)
           z == [w EXCEPT !.exchange = "result"]
           r == IF w.state = "closed" THEN w ELSE z
<1>1. also(w, LAMBDA v : [v EXCEPT !.exchange = "result"]) = r
  <2> HIDE DEF w
  <2> QED BY DEF also, then
<1> HIDE DEF w, r
<1>2. \/ handle(c, m, t) = closed(c)
      \/ handle(c, m, t) = greeted(c, m, t)
      \/ /\ m.session = c.epoch /\ c.exchange = "snapshot"
         /\ handle(c, m, t) = prepared(c, m, t)
      \/ /\ m.session = c.epoch /\ c.exchange = "activation"
         /\ handle(c, m, t) = committed(c, m, t)
      \/ c.exchange = "acceptance" /\ handle(c, m, t) = r
      \/ /\ m.session = c.epoch /\ m.operation = authority(c).operation_id
         /\ is_result(c, m) /\ handle(c, m, t) = resolved(c, m, t)
  BY <1>1 DEF handle, w
<1>3. Known(s, c)
  BY DEF Host
<1>4. Host(s, closed(c)) /\ Host(s, greeted(c, m, t))
  BY <1>3, ClosedHost, GreetedHost
<1>5. c.exchange = "snapshot" => Host(s, prepared(c, m, t))
  BY PreparedHost DEF Awaits
<1>6. c.exchange = "activation" /\ m.session = c.epoch => Host(s, committed(c, m, t))
  BY CommittedHost DEF Awaits
<1>7. is_result(c, m) /\ m.session = c.epoch /\ m.operation = authority(c).operation_id
        => Host(s, resolved(c, m, t))
  <2>1. is_result(c, m) => m.kind = "result" /\ Awaits(c)
    BY DEF is_result, Awaits
  <2> QED BY <2>1, ResolvedHost
<1>8. ASSUME c.exchange = "acceptance" PROVE Host(s, r)
  <2>1. Pending(c.gate)
    BY <1>8 DEF Host, Awaits
  <2>2. Told(s, c.epoch, [authority |-> authority(c),
              outcome |-> IF "accepted" = "rejected" THEN "not_executed" ELSE "accepted"])
    BY DEF Told, Terminal
  <2>3. Host(s, w) /\ (w.state # "closed" => Pending(w.gate))
    <3>1. "accepted" \in NativeKind \ {"started"}
      BY DEF NativeKind
    <3> QED BY <1>3, <2>1, <2>2, <3>1, NativeHost DEF w
  <2>4. SameClient(z, w) /\ z.state = w.state
    BY <2>3 DEF SameClient, Host, Known, ClientLike, ClientParts
  <2> HIDE DEF z
  <2>5. w.state # "closed" => Host(s, z)
    BY <2>3, <2>4, ExchangeSet DEF Host
  <2> QED BY <2>3, <2>5 DEF r
<1> QED BY <1>2, <1>4, <1>5, <1>6, <1>7, <1>8

LEMMA NewClientHost ==
  ASSUME NEW s, NEW state \in {"absent", "connecting"}, NEW t
  PROVE  Host(s, new_client(state, t))
<1> DEFINE c == new_client(state, t)
<1>1. /\ DOMAIN c = ClientParts /\ c.state = state /\ c.exchange = "hello"
      /\ c.epoch = 0 /\ c.nonce = 0 /\ c.gate = initial_gate /\ c.pending = {}
  BY DEF new_client, ClientParts
<1> HIDE DEF c
<1>2. ClientLike(c)
  BY <1>1, InitialGateLike DEF ClientLike, Waiting
<1>3. Told(s, c.epoch, c.gate.receipt)
  BY <1>1, InitialGateLike, PendingTold
<1>4. Host(s, c)
  BY <1>1, <1>2, <1>3 DEF Host, Known, Awaits
<1> QED BY <1>4 DEF c

\* The calls of Recover and of Submit on a client c.
recovered(c, t) ==
  also(c, LAMBDA x : also(queued(x, message("query", 0, 0), t),
                LAMBDA y : [y EXCEPT !.query_at = t, !.exchange = "snapshot",
                                     !.state = "recovering"]))

asked(c, q, t) ==
  also(c, LAMBDA x :
             IF ~admits(x.gate, q) THEN x
             ELSE then([x EXCEPT !.gate = admit(@, q), !.has_value = FALSE],
                       LAMBDA y : submitted(y, t)))

LEMMA RecoverHost ==
  ASSUME NEW s, NEW c, Host(s, c), NEW t
  PROVE  Host(s, recovered(c, t))
<1> DEFINE m == message("query", 0, 0)
           y == queued(c, m, t)
           z == [y EXCEPT !.query_at = t, !.exchange = "snapshot", !.state = "recovering"]
           r == IF y.state = "closed" THEN y ELSE z
           q == IF c.state = "closed" THEN c ELSE r
<1>1. also(y, LAMBDA v : [v EXCEPT !.query_at = t, !.exchange = "snapshot",
                                     !.state = "recovering"]) = r
  <2> HIDE DEF y
  <2> QED BY DEF also, then
<1>2. also(c, LAMBDA x : also(queued(x, message("query", 0, 0), t),
                LAMBDA v : [v EXCEPT !.query_at = t, !.exchange = "snapshot",
                                     !.state = "recovering"])) = q
  <2> HIDE DEF r
  <2>1. also(c, LAMBDA x : also(queued(x, message("query", 0, 0), t),
                LAMBDA v : [v EXCEPT !.query_at = t, !.exchange = "snapshot",
                                     !.state = "recovering"]))
        = IF c.state = "closed" THEN c
          ELSE also(queued(c, message("query", 0, 0), t),
                LAMBDA v : [v EXCEPT !.query_at = t, !.exchange = "snapshot",
                                     !.state = "recovering"])
    BY DEF also, then
  <2> QED BY <1>1, <2>1
<1>3. m \in Message
  BY DEF message, Message, MessageKind, Flags
<1> HIDE DEF m
<1>4. Host(s, y)
  BY <1>3, QueuedHost DEF Host
<1> HIDE DEF y
<1>5. Host(s, z)
  <2>1. SameClient(z, y) /\ z.state = "recovering" /\ z.exchange = "snapshot"
    BY <1>4 DEF SameClient, Host, Known, ClientLike, ClientParts
  <2> HIDE DEF z
  <2> QED BY <1>4, <2>1, ExchangeSet DEF Host, Awaits
<1> HIDE DEF z
<1>6. Host(s, q)
  BY <1>4, <1>5
<1> QED BY <1>2, <1>6 DEF recovered

LEMMA SubmittedHost ==
  ASSUME NEW s, NEW c, Host(s, c), Pending(c.gate), NEW t
  PROVE  Host(s, submitted(c, t))
<1> DEFINE claimed == claim_dispatch(c.gate, authority(c), t)
           m == [message("submit", 0, 0) EXCEPT !.operation = authority(c).operation_id]
           x == [c EXCEPT !.gate = claimed]
           y == queued(x, m, t)
           z == [y EXCEPT !.exchange = "acceptance"]
           r == IF y.state = "closed" THEN y ELSE z
<1>1. submitted(c, t) \in {closed(c), r}
  <2>1. also(y, LAMBDA v : [v EXCEPT !.exchange = "acceptance"]) = r
    <3> HIDE DEF y
    <3> QED BY DEF also, then
  <2> HIDE DEF r
  <2> QED BY <2>1 DEF submitted
<1>2. DOMAIN c = ClientParts /\ GateLike(c.gate) /\ c.nonce \in Nat
      /\ c.pending \in Waiting /\ (c.state = "closed" => c.exchange = "hello")
  BY DEF Host, Known, ClientLike
<1>3. SameOutcome(claimed, c.gate)
  BY <1>2, ClaimKeeps
<1>4. m \in Message
  <2>1. authority(c).operation_id \in Nat
    BY <1>2 DEF authority, GateLike
  <2> QED BY <2>1 DEF message, Message, MessageKind, Flags
<1> HIDE DEF claimed, m
<1>5. /\ DOMAIN x = ClientParts /\ x.epoch = c.epoch /\ x.nonce = c.nonce
      /\ x.pending = c.pending /\ x.gate = claimed /\ x.state = c.state
      /\ x.exchange = c.exchange
  BY <1>2 DEF ClientParts
<1> HIDE DEF x
<1>6. Known(s, x) /\ Host(s, x) /\ Pending(x.gate)
  BY <1>2, <1>3, <1>5, KnownBy DEF Host, Pending, SameOutcome
<1>7. Host(s, y) /\ (y.state # "closed" => y.gate = x.gate)
  BY <1>4, <1>6, QueuedHost
<1> HIDE DEF y
<1>8. y.state # "closed" => Host(s, z)
  <2>1. SameClient(z, y) /\ z.state = y.state
    BY <1>7 DEF SameClient, Host, Known, ClientLike, ClientParts
  <2> HIDE DEF z
  <2> QED BY <1>6, <1>7, <2>1, ExchangeSet DEF Host
<1> HIDE DEF z
<1>9. Host(s, r) /\ Host(s, closed(c))
  BY <1>7, <1>8, ClosedHost DEF Host
<1> QED BY <1>1, <1>9

LEMMA SubmitHost ==
  ASSUME NEW s, NEW c, Host(s, c), NEW q, NEW t
  PROVE  Host(s, asked(c, q, t))
<1> DEFINE g == admit(c.gate, q)
           x == [c EXCEPT !.gate = g, !.has_value = FALSE]
           y == submitted(x, t)
<1>1. DOMAIN c = ClientParts /\ GateLike(c.gate) /\ c.nonce \in Nat /\ c.epoch \in Nat
      /\ c.pending \in Waiting /\ (c.state = "closed" => c.exchange = "hello")
  BY DEF Host, Known, ClientLike
<1>2. also(c, LAMBDA v :
             IF ~admits(v.gate, q) THEN v
             ELSE then([v EXCEPT !.gate = admit(@, q), !.has_value = FALSE],
                       LAMBDA w : submitted(w, t)))
      = IF c.state = "closed" \/ ~admits(c.gate, q) THEN c ELSE y
  <2>1. x = [c EXCEPT !.gate = admit(@, q), !.has_value = FALSE]
    BY <1>1 DEF ClientParts
  <2> HIDE DEF x
  <2>2. then(x, LAMBDA w : submitted(w, t)) = y
    BY DEF then
  <2> HIDE DEF y
  <2>3. also(c, LAMBDA v :
             IF ~admits(v.gate, q) THEN v
             ELSE then([v EXCEPT !.gate = admit(@, q), !.has_value = FALSE],
                       LAMBDA w : submitted(w, t)))
        = IF c.state = "closed" THEN c
          ELSE IF ~admits(c.gate, q) THEN c
          ELSE then([c EXCEPT !.gate = admit(@, q), !.has_value = FALSE],
                    LAMBDA w : submitted(w, t))
    BY DEF also, then
  <2> QED BY <2>1, <2>2, <2>3
<1>3. ASSUME admits(c.gate, q) PROVE Host(s, y)
  <2>1. GateLike(g) /\ Pending(g)
    BY <1>1, <1>3, AdmitStarts
  <2> HIDE DEF g
  <2>2. /\ DOMAIN x = ClientParts /\ x.epoch = c.epoch /\ x.nonce = c.nonce
        /\ x.pending = c.pending /\ x.gate = g /\ x.state = c.state
        /\ x.exchange = c.exchange
    BY <1>1 DEF ClientParts
  <2> HIDE DEF x
  <2>3. ClientLike(x) /\ Told(s, x.epoch, x.gate.receipt)
    BY <1>1, <2>1, <2>2, PendingTold DEF ClientLike
  <2>4. Host(s, x)
    BY <2>1, <2>2, <2>3 DEF Host, Known
  <2> QED BY <2>1, <2>2, <2>4, SubmittedHost
<1> HIDE DEF y
<1> QED BY <1>2, <1>3 DEF asked

-----------------------------------------------------------------------------
(* The steps of the clients *)

LEMMA SentFrames == ASSUME NEW S \in Waiting PROVE SetToSeq(S) \in Seq(Message)
<1>1. ASSUME NEW n \in Nat, n = Cardinality(S), NEW f \in [1..n -> S], IsInjective(f),
             S \subseteq Message
      PROVE  SetToSeq(S) \in Seq(Message)
  <2>1. SetToSeq(S) \in [1..n -> S]
    BY <1>1 DEF SetToSeq
  <2>2. SetToSeq(S) \in [1..n -> Message]
    BY <1>1, <2>1
  <2> HIDE DEF Message
  <2> QED BY <2>2
<1>2. CASE S = {}
  <2> DEFINE f == [k \in 1..0 |-> k]
  <2>1. Cardinality(S) = 0
    BY <1>2, FS_EmptySet
  <2>2. f \in [1..0 -> S] /\ IsInjective(f)
    BY DEF IsInjective
  <2> HIDE DEF f
  <2> DEFINE n == Cardinality(S)
  <2>3. S \subseteq Message /\ n \in Nat /\ f \in [1..n -> S]
    BY <1>2, <2>1, <2>2
  <2> HIDE DEF n
  <2>4. n = Cardinality(S)
    BY DEF n
  <2> QED BY <1>1, <2>2, <2>3, <2>4
<1>3. ASSUME NEW m \in Message, S = {m}
      PROVE  SetToSeq(S) \in Seq(Message)
  <2> DEFINE f == [k \in 1..1 |-> m]
  <2>1. Cardinality(S) = 1
    BY <1>3, FS_Singleton
  <2>2. f \in [1..1 -> S] /\ IsInjective(f)
    BY <1>3 DEF IsInjective
  <2> HIDE DEF f
  <2> QED BY <1>1, <1>3, <2>1, <2>2
<1> QED BY <1>2, <1>3 DEF Waiting

LEMMA HearsStep ==
  ASSUME Sound(State), NEW i \in Client, NEW c, NEW out \in Seq(Message),
         NEW n \in {0, 1}, n <= Len(down[i]), Hears(i, c, out, n)
  PROVE  Step(State', State) /\ clients' = [clients EXCEPT ![i] = c] /\ now' = now
<1> DEFINE D == down[i]
           U == up[i]
           hangs == c.state = "closed"
           left == Len(D) > n
           u == IF hangs /\ left THEN <<>> ELSE U \o out
           d == IF hangs THEN <<>> ELSE SubSeq(D, n + 1, Len(D))
<1>1. /\ clients' = [clients EXCEPT ![i] = c]
      /\ up' = [up EXCEPT ![i] = u] /\ down' = [down EXCEPT ![i] = d]
      /\ owner' = owner /\ process' = process /\ child' = child
      /\ now' = now /\ launched' = launched /\ handed' = handed
  <2>1. up' = [up EXCEPT ![i] = IF hangs /\ left THEN <<>> ELSE @ \o out]
        /\ down' = [down EXCEPT ![i] = IF hangs THEN <<>> ELSE SubSeq(@, n + 1, Len(@))]
    BY DEF Hears
  <2>2. up \in [Client -> Seq(Message)] /\ down \in [Client -> Seq(Message)]
    BY DEF State, Owner, Sound, Typed
  <2>3. up' = [up EXCEPT ![i] = u] /\ down' = [down EXCEPT ![i] = d]
    BY <2>1, <2>2
  <2> QED BY <2>3 DEF Hears
<1> DEFINE s == State
           r == State'
<1>2. /\ DOMAIN s = Parts /\ s.owner = owner /\ s.process = process /\ s.child = child
      /\ s.up = up /\ s.down = down /\ s.launched = launched /\ s.handed = handed
  BY DEF State, Owner, Parts
<1>3. /\ DOMAIN r = Parts /\ r.owner = s.owner /\ r.process = s.process
      /\ r.child = s.child /\ r.launched = s.launched /\ r.handed = s.handed
      /\ r.up = up' /\ r.down = down'
  BY <1>1 DEF State, Owner, Parts
<1> HIDE DEF State
<1>4. up \in [Client -> Seq(Message)] /\ down \in [Client -> Seq(Message)]
  BY <1>2 DEF Sound, Typed
<1>5. D \in Seq(Message) /\ U \in Seq(Message)
  BY <1>4
<1> HIDE DEF D, U, hangs
<1>6. u \in Seq(Message) /\ d \in Seq(Message)
  <2> HIDE DEF Message
  <2>1. U \o out \in Seq(Message) /\ <<>> \in Seq(Message)
    BY <1>5
  <2>2. SubSeq(D, n + 1, Len(D)) \in Seq(Message)
    BY <1>5
  <2> QED BY <2>1, <2>2
<1>7. \A k \in 1..Len(d) : \E l \in 1..Len(D) : D[l] = d[k]
  <2> HIDE DEF Message
  <2> SUFFICES ASSUME NEW k \in 1..Len(d)
               PROVE  \E l \in 1..Len(D) : D[l] = d[k]
    OBVIOUS
  <2>1. ~hangs
    BY <1>5
  <2>2. d = SubSeq(D, n + 1, Len(D))
    BY <2>1
  <2>3. k + n \in 1..Len(D) /\ D[k + n] = d[k]
    BY <1>5, <2>2
  <2> QED BY <2>3
<1> HIDE DEF u, d
<1>8. Typed(r)
  <2>1. r.up \in [Client -> Seq(Message)] /\ r.down \in [Client -> Seq(Message)]
    BY <1>1, <1>3, <1>4, <1>6
  <2> QED BY <1>3, <2>1 DEF Sound, Typed
<1>9. Live(r) /\ Quiet(r) /\ Accounts(r) /\ (Runs(r) => Runs(s))
  BY <1>3 DEF Sound, Live, Quiet, Accounts, Runs
<1>10. \A x \in Message : Says(r, x) => Says(s, x)
  <2>1. ASSUME NEW x \in Message, NEW j \in Client, NEW k \in 1..Len(r.down[j]),
               r.down[j][k] = x
        PROVE  Says(s, x)
    <3>1. CASE j # i
      BY ZenonT(60), <1>1, <1>2, <1>3, <1>4, <2>1, <3>1 DEF Says
    <3>2. CASE j = i
      <4>1. r.down[j] = d
        BY <1>1, <1>3, <1>4, <3>2
      <4>2. PICK l \in 1..Len(D) : D[l] = x
        BY <1>7, <2>1, <4>1
      <4> QED BY <1>2, <4>2 DEF Says, D
    <3> QED BY <3>1, <3>2
  <2> QED BY <1>3, <2>1 DEF Says
<1>11. s.owner.last_operation <= r.owner.last_operation
  BY SMTT(30), <1>3 DEF Sound, Typed, OwnerRecord
<1>12. Step(r, s)
  BY <1>3, <1>8, <1>9, <1>10, <1>11, Moves
<1> QED BY <1>1, <1>12

IInv ==
  /\ Sound(State) /\ now \in Nat /\ DOMAIN clients = Client
  /\ \A i \in Client : Host(State, clients[i])

\* A step of the owner or of its surroundings: what is so for the clients stays so.
LEMMA OthersStep ==
  ASSUME IInv, Step(State', State), now' \in Nat, clients' = clients
  PROVE  IInv'
<1>1. /\ Sound(State) /\ Sound(State') /\ Advances(State', State)
      /\ Typed(State) /\ Typed(State') /\ \A i \in Client : Host(State, clients[i])
  BY DEF IInv, Step, Sound
<1> HIDE DEF State
<1>2. \A i \in Client : Host(State', clients[i])
  BY <1>1, HostStays
<1> QED BY <1>1, <1>2 DEF IInv

LEMMA ClientStep ==
  ASSUME IInv, NEW i \in Client, NEW c, Host(State, c), NEW out \in Seq(Message),
         NEW n \in {0, 1}, n <= Len(down[i]), Hears(i, c, out, n)
  PROVE  IInv'
<1>1. /\ Sound(State) /\ now \in Nat /\ DOMAIN clients = Client
      /\ \A j \in Client : Host(State, clients[j])
  BY DEF IInv
<1>2. Step(State', State) /\ clients' = [clients EXCEPT ![i] = c] /\ now' = now
  BY <1>1, HearsStep
<1>3. /\ Sound(State') /\ Advances(State', State) /\ Typed(State) /\ Typed(State')
  BY <1>1, <1>2 DEF Step, Sound
<1> HIDE DEF State
<1>4. \A j \in Client : Host(State, clients'[j])
  BY <1>1, <1>2
<1>5. \A j \in Client : Host(State', clients'[j])
  BY <1>3, <1>4, HostStays
<1>6. DOMAIN clients' = Client
  BY <1>1, <1>2
<1> QED BY <1>1, <1>2, <1>3, <1>5, <1>6 DEF IInv

LEMMA QuietOut ==
  ASSUME IInv, NEW i \in Client
  PROVE  /\ <<>> \in Seq(Message) /\ down[i] \in Seq(Message) /\ 0 <= Len(down[i])
         /\ down[i] # <<>> =>
              1 <= Len(down[i]) /\ Head(down[i]) \in Message /\ Fair(State, Head(down[i]))
<1>1. State.down = down /\ Sound(State)
  BY DEF State, Owner, IInv
<1> HIDE DEF State
<1>2. down \in [Client -> Seq(Message)] /\ Honest(State)
  BY <1>1 DEF Sound, Typed
<1> DEFINE D == down[i]
<1>3. D \in Seq(Message)
  BY <1>2
<1>4. <<>> \in Seq(Message) /\ 0 <= Len(D)
  BY <1>3
<1>5. ASSUME D # <<>>
      PROVE  1 <= Len(D) /\ Head(D) \in Message /\ Fair(State, Head(D))
  <2> HIDE DEF D, Message
  <2>1. 1 \in 1..Len(D) /\ Head(D) = D[1] /\ D[1] \in Message
    BY <1>3, <1>5
  <2>2. Says(State, D[1])
    BY <1>1, <2>1 DEF Says, D
  <2> QED BY <1>2, <2>1, <2>2 DEF Honest
<1> QED BY <1>3, <1>4, <1>5

LEMMA ConnectKeeps == ASSUME IInv, Connect PROVE IInv'
<1>1. PICK i \in Client, t \in Reading :
        /\ clients' = [clients EXCEPT ![i] = new_client("connecting", t)]
        /\ UNCHANGED <<owner, process, child, up, down, attached, now, launched, handed>>
  BY DEF Connect
<1> DEFINE c == new_client("connecting", t)
<1>2. Host(State, c)
  BY NewClientHost
<1> HIDE DEF c
<1>3. /\ Sound(State) /\ now \in Nat /\ DOMAIN clients = Client
      /\ \A j \in Client : Host(State, clients[j])
  BY DEF IInv
<1>4. State' = State
  BY <1>1 DEF State, Owner
<1> HIDE DEF State
<1>5. \A j \in Client : Host(State, clients'[j])
  BY <1>1, <1>2, <1>3 DEF c
<1> QED BY <1>1, <1>3, <1>4, <1>5 DEF IInv

LEMMA ClientPollKeeps == ASSUME IInv, ClientPoll PROVE IInv'
<1>1. PICK i \in Client, t \in Reading :
        LET c == time(clients[i], t)
            m == SetToSeq(c.pending)
            waits == c.exchange \notin {"idle", "result"}
            unsent == /\ c.pending # {}
                      /\ ~is_fresh(c.queued_at, t) \/ ~is_peer_open(i)
            late == waits /\ ~is_fresh(c.issued_at, t)
        IN  IF c.state = "closed" THEN Hears(i, c, <<>>, 0)
            ELSE IF unsent THEN Hears(i, closed(c), <<>>, 0)
            ELSE IF late THEN Hears(i, closed(c), m, 0)
            ELSE IF down[i] # <<>>
              THEN Hears(i, handle([c EXCEPT !.pending = {}], Head(down[i]), t), m, 1)
            ELSE Hears(i, IF is_peer_open(i) THEN [c EXCEPT !.pending = {}] ELSE closed(c), m, 0)
  BY DEF ClientPoll
<1> DEFINE c == time(clients[i], t)
           m == SetToSeq(c.pending)
           b == [c EXCEPT !.pending = {}]
           a == handle(b, Head(down[i]), t)
<1>2. \/ Hears(i, c, <<>>, 0)
      \/ Hears(i, closed(c), <<>>, 0)
      \/ Hears(i, closed(c), m, 0)
      \/ down[i] # <<>> /\ Hears(i, a, m, 1)
      \/ Hears(i, b, m, 0)
  <2> HIDE DEF c, m, b, a
  <2>1. b = [c EXCEPT !.pending = {}] /\ a = handle(b, Head(down[i]), t)
    BY DEF b, a
  <2>2. c = time(clients[i], t) /\ m = SetToSeq(c.pending)
    BY DEF c, m
  <2> QED BY <1>1, <2>1, <2>2
<1>3. Host(State, clients[i])
  BY DEF IInv
<1> HIDE DEF State
<1>4. Host(State, c) /\ c.pending \in Waiting
  BY <1>3, TimeHost
<1> HIDE DEF c
<1>5. m \in Seq(Message)
  BY <1>4, SentFrames
<1> HIDE DEF m
<1>6. Host(State, b)
  <2>1. /\ DOMAIN b = ClientParts /\ b.epoch = c.epoch /\ b.nonce = c.nonce
        /\ b.pending = {} /\ b.gate = c.gate /\ b.state = c.state
        /\ b.exchange = c.exchange
    BY <1>4 DEF Host, Known, ClientLike, ClientParts
  <2> HIDE DEF b
  <2> QED BY <1>4, <2>1 DEF Host, Known, ClientLike, Awaits, Waiting
<1> HIDE DEF b
<1>7. down[i] # <<>> => Host(State, a) /\ 1 <= Len(down[i])
  BY <1>6, QuietOut, HandleHost
<1> HIDE DEF a
<1>8. Host(State, closed(c))
  BY <1>4, ClosedHost DEF Host
<1>9. <<>> \in Seq(Message) /\ 0 <= Len(down[i])
  BY QuietOut
<1>10. CASE Hears(i, c, <<>>, 0)
  BY <1>4, <1>9, <1>10, ClientStep
<1>11. CASE Hears(i, closed(c), <<>>, 0)
  BY <1>8, <1>9, <1>11, ClientStep
<1>12. CASE Hears(i, closed(c), m, 0)
  BY <1>5, <1>8, <1>9, <1>12, ClientStep
<1>13. CASE down[i] # <<>> /\ Hears(i, a, m, 1)
  BY <1>5, <1>7, <1>13, ClientStep
<1>14. CASE Hears(i, b, m, 0)
  BY <1>5, <1>6, <1>9, <1>14, ClientStep
<1> QED BY <1>2, <1>10, <1>11, <1>12, <1>13, <1>14

LEMMA RecoverKeeps == ASSUME IInv, Recover PROVE IInv'
<1>1. PICK i \in Client, t \in Reading :
        Hears(i, also(time(clients[i], t), LAMBDA x : also(queued(x, message("query", 0, 0), t),
                LAMBDA y : [y EXCEPT !.query_at = t, !.exchange = "snapshot",
                                     !.state = "recovering"])), <<>>, 0)
  BY DEF Recover
<1> DEFINE c == time(clients[i], t)
           r == recovered(c, t)
<1>2. Host(State, clients[i])
  BY DEF IInv
<1> HIDE DEF State
<1>3. Host(State, c)
  BY <1>2, TimeHost
<1>4. Hears(i, r, <<>>, 0)
  BY <1>1 DEF recovered
<1> HIDE DEF c
<1>5. Host(State, r)
  BY <1>3, RecoverHost
<1> HIDE DEF r
<1>6. <<>> \in Seq(Message) /\ 0 <= Len(down[i])
  BY QuietOut
<1> QED BY <1>4, <1>5, <1>6, ClientStep

LEMMA SubmitKeeps == ASSUME IInv, Submit PROVE IInv'
<1>1. PICK i \in Client, t \in Reading :
        LET q == [requested_at |-> t, deadline |-> {}, requirements |-> {}]
        IN  Hears(i, also(time(clients[i], t), LAMBDA x :
             IF ~admits(x.gate, q) THEN x
             ELSE then([x EXCEPT !.gate = admit(@, q), !.has_value = FALSE],
                       LAMBDA y : submitted(y, t))), <<>>, 0)
  BY DEF Submit
<1> DEFINE q == [requested_at |-> t, deadline |-> {}, requirements |-> {}]
           c == time(clients[i], t)
           r == asked(c, q, t)
<1>2. Host(State, clients[i])
  BY DEF IInv
<1> HIDE DEF State
<1>3. Host(State, c)
  BY <1>2, TimeHost
<1>4. Hears(i, r, <<>>, 0)
  BY <1>1 DEF asked
<1> HIDE DEF c, q
<1>5. Host(State, r)
  BY <1>3, SubmitHost
<1> HIDE DEF r
<1>6. <<>> \in Seq(Message) /\ 0 <= Len(down[i])
  BY QuietOut
<1> QED BY <1>4, <1>5, <1>6, ClientStep

LEMMA LeaveKeeps == ASSUME IInv, Leave PROVE IInv'
<1>1. PICK i \in Client : Hears(i, closed(clients[i]), <<>>, 0)
  BY DEF Leave
<1>2. Host(State, clients[i])
  BY DEF IInv
<1> HIDE DEF State
<1>3. Host(State, closed(clients[i]))
  BY <1>2, ClosedHost DEF Host
<1>4. <<>> \in Seq(Message) /\ 0 <= Len(down[i])
  BY QuietOut
<1> QED BY <1>1, <1>3, <1>4, ClientStep

-----------------------------------------------------------------------------
(* The specification *)

LEMMA InitSound == Init => IInv
<1> SUFFICES ASSUME Init PROVE IInv
  OBVIOUS
<1> DEFINE s == State
<1>1. /\ DOMAIN s = Parts /\ s.owner = new_owner /\ s.process = new_process
      /\ s.child = no_child /\ s.up = [i \in Client |-> <<>>]
      /\ s.down = [i \in Client |-> <<>>] /\ s.launched = <<>> /\ s.handed = 0
  BY DEF State, Owner, Parts, Init
<1> HIDE DEF State
<1>2. new_owner \in OwnerRecord
  <2>1. 0 \in 0..Clients
    BY ClientsNat
  <2>2. {} \in Waiting
    BY DEF Waiting
  <2> QED BY <2>1, <2>2 DEF new_owner, OwnerRecord
<1>3. Typed(s)
  <2>1. \A T : <<>> \in Seq(T)
    OBVIOUS
  <2>2. [i \in Client |-> <<>>] \in [Client -> Seq(Message)]
    BY <2>1
  <2>3. s.launched \in Seq(Launched)
    BY <1>1, <2>1
  <2> QED BY <1>1, <1>2, <2>2, <2>3, NewProcessTyped DEF Typed
<1>4. Live(s)
  BY <1>1, NoChildPaced DEF Live, new_owner
<1>5. Quiet(s)
  BY <1>1 DEF Quiet, Runs, no_child
<1>6. Len(s.launched) = 0
  BY <1>1
<1>7. Accounts(s) /\ History(s)
  BY <1>1, <1>6 DEF Accounts, History, new_owner
<1>8. Honest(s)
  <2>1. \A m : ~Says(s, m)
    BY <1>1 DEF Says, new_owner
  <2> QED BY <2>1 DEF Honest
<1>9. Sound(s)
  BY <1>3, <1>4, <1>5, <1>7, <1>8 DEF Sound
<1>10. /\ now \in Nat /\ clients = [i \in Client |-> new_client("absent", 0)]
  BY DEF Init
<1>11. \A i \in Client : Host(s, clients[i])
  <2>1. Host(s, new_client("absent", 0))
    BY NewClientHost
  <2> QED BY <1>10, <2>1
<1> QED BY <1>9, <1>10, <1>11 DEF IInv

LEMMA NextKeeps == IInv /\ [Next]_vars => IInv'
<1> SUFFICES ASSUME IInv, [Next]_vars PROVE IInv'
  OBVIOUS
<1>1. Sound(State) /\ now \in Nat
  BY DEF IInv
<1>2. ASSUME Step(State', State), now' = now, clients' = clients PROVE IInv'
  BY <1>1, <1>2, OthersStep
<1>3. CASE Attach
  BY <1>1, <1>2, <1>3, AttachHappens DEF Attach
<1>4. CASE Poll
  BY <1>1, <1>2, <1>4, PollHappens DEF Poll
<1>5. CASE FinishPoll
  BY <1>1, <1>2, <1>5, FinishPollHappens DEF FinishPoll
<1>6. CASE Destroy
  BY <1>1, <1>2, <1>6, DestroyHappens DEF Destroy
<1>7. CASE Work
  BY <1>1, <1>2, <1>7, WorkHappens DEF Work, Rest
<1>8. CASE Die
  BY <1>1, <1>2, <1>8, DieHappens DEF Die, Rest
<1>9. CASE Tick
  <2>1. Step(State', State) /\ now' = now + 1 /\ clients' = clients
    BY <1>1, <1>9, StateStays DEF Tick, Rest
  <2> QED BY <1>1, <2>1, OthersStep
<1>10. CASE UNCHANGED vars
  BY <1>1, <1>2, <1>10, StateStays DEF vars
<1> QED BY <1>3, <1>4, <1>5, <1>6, <1>7, <1>8, <1>9, <1>10,
           ConnectKeeps, ClientPollKeeps, RecoverKeeps, SubmitKeeps, LeaveKeeps DEF Next

LEMMA Inductive == Spec => []IInv
BY InitSound, NextKeeps, PTL DEF Spec

\* Whatever was lost, restarted or late, and however many hosts came and went:
\* a client that is ready has no child of an earlier session beside it
\* (Owner::Impl::clear, which the activation asks again).
THEOREM SessionsNeverOverlap == Spec => []SessionsDoNotOverlap
<1>1. IInv => SessionsDoNotOverlap
  <2> SUFFICES ASSUME IInv, NEW i \in Client, clients[i].state = "ready",
                      child.status \in {"alive", "exited"}
               PROVE  owner.operation_session >= clients[i].epoch
    BY DEF SessionsDoNotOverlap
  <2>1. Clean(State, clients[i].epoch)
    BY DEF IInv, Host, Known, Alone
  <2> QED BY <2>1 DEF Clean, Runs, State, Owner
<1> QED BY <1>1, Inductive, PTL

\* A session that ended, by either side, at any step of a poll, left a child that
\* was told to stop (Owner::Impl::disconnect).
THEOREM OrphanIsAlwaysStopped == Spec => []OrphanIsStopped
<1>1. IInv => OrphanIsStopped
  <2>1. IInv => Quiet(State)
    BY DEF IInv, Sound
  <2> QED BY <2>1 DEF Quiet, Runs, OrphanIsStopped, State, Owner
<1> QED BY <1>1, Inductive, PTL

\* The counters of the owner agree with what it launched and sent: no result is
\* sent twice, lost without being counted, or made up.
THEOREM EveryResultIsAlwaysAccounted == Spec => []EveryResultIsAccounted
<1>1. IInv => EveryResultIsAccounted
  <2>1. IInv => Accounts(State)
    BY DEF IInv, Sound
  <2> QED BY <2>1 DEF Accounts, EveryResultIsAccounted, State, Owner
<1> QED BY <1>1, Inductive, PTL

\* The gate of a client tells the truth about the one child of its operation:
\* a result of another session or operation is never taken for it.
THEOREM ResultIsAlwaysTrue == Spec => []ResultIsTrue
<1>1. IInv => ResultIsTrue
  <2> SUFFICES ASSUME IInv, NEW i \in Client
               PROVE  LET r == clients[i].gate.receipt
                          own == {launched[k] : k \in {k \in 1..Len(launched) :
                                   /\ launched[k].session = clients[i].epoch
                                   /\ launched[k].operation = r.authority.operation_id}}
                      IN  /\ r.outcome = "succeeded" => \A w \in own : w.exit = {"completed"}
                          /\ r.outcome \in {"failed", "cancelled"} => \A w \in own : w.exit # {}
                          /\ r.outcome \in Terminal => Cardinality(own) = 1
                          /\ r.outcome = "not_executed" => own = {}
    BY DEF ResultIsTrue
  <2> DEFINE e == clients[i].epoch
             r == clients[i].gate.receipt
             id == r.authority.operation_id
             L == launched
             ks == {k \in 1..Len(L) : L[k].session = e /\ L[k].operation = id}
             own == {L[k] : k \in ks}
  <2>1. Told(State, e, r)
    BY DEF IInv, Host, Known
  <2>2. ks = LaunchesOf(State, e, id) /\ State.launched = L
    BY DEF LaunchesOf, State, Owner
  <2> HIDE DEF State, e, ks, L
  <2>3. ASSUME NEW exit, Ended(State, e, id, exit)
        PROVE  (\A w \in own : w.exit = exit) /\ exit # {} /\ Cardinality(own) = 1
    <3>1. PICK k \in 1..Len(L) : ks = {k} /\ L[k].exit = exit /\ exit # {}
      BY <2>2, <2>3 DEF Ended
    <3>2. own = {L[k]}
      BY <3>1
    <3> HIDE DEF own
    <3>3. Cardinality(own) = 1
      BY <3>2, FS_Singleton
    <3> QED BY <3>1, <3>2, <3>3
  <2>4. LaunchesOf(State, e, id) = {} => own = {}
    BY <2>2
  <2> HIDE DEF own, r
  <2>5. /\ r.outcome = "succeeded" => Ended(State, e, id, {"completed"})
        /\ r.outcome \in {"failed", "cancelled"} =>
             \E exit \in ExitStatus : Ended(State, e, id, exit)
        /\ r.outcome = "not_executed" => own = {}
    BY <2>1, <2>4 DEF Told
  <2> HIDE DEF id
  <2>6. r.outcome = "succeeded" => (\A w \in own : w.exit = {"completed"}) /\ Cardinality(own) = 1
    BY <2>3, <2>5
  <2>7. r.outcome \in {"failed", "cancelled"} =>
          (\A w \in own : w.exit # {}) /\ Cardinality(own) = 1
    BY <2>3, <2>5
  <2>8. /\ r.outcome = "succeeded" => \A w \in own : w.exit = {"completed"}
        /\ r.outcome \in {"failed", "cancelled"} => \A w \in own : w.exit # {}
        /\ r.outcome \in Terminal => Cardinality(own) = 1
        /\ r.outcome = "not_executed" => own = {}
    BY <2>5, <2>6, <2>7 DEF Terminal
  <2> QED BY <2>8 DEF own, ks, L, e, r, id
<1> QED BY <1>1, Inductive, PTL
=============================================================================
