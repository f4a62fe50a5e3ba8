--------------------------- MODULE Workers_proofs ---------------------------
(***************************************************************************)
(* What the owners of workers record of them, for every value of the         *)
(* constants.  The owner of a ComputeProcess: what it knows of its child and  *)
(* why it kills it, with the worker of the repository or another program,     *)
(* and the sums of that worker.  The Python host: what its records say of the *)
(* operations it ended, and which operation an effect is made for, whatever   *)
(* its worker, client and backend do.                                         *)
(***************************************************************************)
EXTENDS ComputeChild, PythonHost, GateProcess_proofs

-----------------------------------------------------------------------------
(* The inductive invariant *)

TypeOK ==
  /\ process \in ProcessRecord /\ child \in ChildRecord /\ now \in Nat
  /\ owner \in {"idle", "polling", "gone", "terminated"}

\* The life of the child, as the owner and as the kernel see it.
Lifecycle ==
  /\ process.launched <=> child.status # "absent"
  /\ child.status = "absent" => child = no_child /\ process.exit_status = {}
  /\ child.exit = {} <=> child.status \in {"absent", "alive"}
  /\ process.is_owned /\ owner # "terminated" =>
       child.status \in {"alive", "exited", "stolen"}
  /\ child.status = "alive" => process.is_owned
  /\ child.status = "exited" /\ owner \in {"idle", "polling"} => process.is_owned
  /\ process.exit_status # {} =>
       child.status = "reaped" /\ process.exit_status = child.exit
  /\ process.event_eof => child.pipe = <<>> /\ child.status \notin {"absent", "alive"}
  /\ process.channels_closed => process.event_eof /\ process.exit_status # {}

\* RecordIsConsistent, and that no frame goes back behind another.
Ordered ==
  /\ RecordIsConsistent
  /\ process.progress <= process.last_iterations
  /\ process.stop_acknowledged \/ process.stop_ignored => stop_requested(process)

\* What the owner will have recorded once it has read the pipe to its end is
\* where the worker c is.
Follows(q, c) ==
  /\ q.started <=> c.at # "start"
  /\ q.terminal = IF c.at \in {"completed", "cancelled"} THEN c.at ELSE "none"
  /\ q.stop_acknowledged <=> c.at \in {"cancel", "cancelled"}
  /\ ~q.stop_ignored
  /\ c.at \in {"stop", "cancel", "cancelled"} => stop_requested(q)
  /\ c.at \in {"complete", "completed"} => c.completed = Batches
  /\ c.at \in {"loop", "stop", "cancel"} => c.completed < Batches
  /\ c.at = "start" => c.completed = 0 /\ c.dropped = 0
  /\ q.last_iterations <= c.completed /\ c.completed <= Batches
  /\ q.dropped <= c.dropped /\ c.dropped <= c.completed

\* The frames in the pipe are those between the record and the worker, and the
\* exit is that of the last frame, unless the worker was killed or gave up.
InStep ==
  child.at # "foreign" =>
    /\ Follows(consumed(process, child.pipe), child)
    /\ ~process.event_eof => ~consumed(process, child.pipe).malformed
    /\ process.malformed <=> process.event_eof /\ process.terminal = "none"
    /\ child.command => stop_requested(process)
    /\ child.exit \subseteq {"failed", "killed"} \cup
                              ({child.at} \cap {"completed", "cancelled"})

\* A termination is pending for a reason that stays.
Justified ==
  process.termination_pending =>
    \/ process.malformed \/ process.io_error
    \/ stop_requested(process) /\ ~process.stop_delivered
    \/ \E t \in process.stop_requested_at : t + Grace <= now

IInv == TypeOK /\ Lifecycle /\ Ordered /\ InStep /\ Justified

-----------------------------------------------------------------------------
(* Steps that read and write no frame *)

LEMMA FollowsAgain ==
  ASSUME NEW a, NEW b, NEW c, NEW d, SameRecord(a, b), Follows(a, c),
         stop_requested(a) => stop_requested(b),
         d.at = c.at, d.completed = c.completed, d.dropped = c.dropped
  PROVE  Follows(b, d)
BY DEF SameRecord, Follows

\* The owner and the kernel may do what they want as long as they leave the
\* record, the frames and the end that was seen alone.
LEMMA InStepStays ==
  ASSUME TypeOK, Lifecycle, InStep,
         process' \in ProcessRecord, SameRecord(process, process'),
         stop_requested(process) => stop_requested(process'),
         process'.event_eof = process.event_eof,
         child'.pipe = child.pipe, child'.at = child.at,
         child'.completed = child.completed, child'.dropped = child.dropped,
         child'.command => child.command \/ stop_requested(process'),
         child'.exit \subseteq child.exit \cup {"failed", "killed"} \cup
                                ({child.at} \cap {"completed", "cancelled"})
  PROVE  InStep'
<1> SUFFICES ASSUME child.at # "foreign" PROVE InStep'
  BY DEF InStep
<1> DEFINE q == consumed(process, child.pipe)
           r == consumed(process', child.pipe)
<1>1. /\ Follows(q, child)
      /\ ~process.event_eof => ~q.malformed
      /\ process.malformed <=> process.event_eof /\ process.terminal = "none"
      /\ child.command => stop_requested(process)
      /\ child.exit \subseteq {"failed", "killed"} \cup
                               ({child.at} \cap {"completed", "cancelled"})
  BY DEF InStep
<1>2. child.pipe \in Seq(Frame) /\ process \in ProcessRecord
  BY DEF TypeOK, ChildRecord
<1>3. SameOwner(q, process) /\ SameOwner(r, process')
  BY <1>2, ConsumedType
<1>4. SameRecord(q, r)
  <2>1. CASE process.event_eof
    <3>1. child.pipe = <<>>
      BY <2>1 DEF Lifecycle
    <3>2. q = process /\ r = process'
      BY <3>1, ConsumedNone
    <3> QED BY <3>2
  <2>2. CASE ~process.event_eof
    <3>1. ~consumed(process, child.pipe).malformed
      BY <1>1, <2>2
    <3>2. SameRecord(consumed(process, child.pipe), consumed(process', child.pipe))
      BY <1>2, <3>1, ConsumedAgain
    <3> QED BY <3>2
  <2> QED BY <2>1, <2>2
<1>5. Follows(r, child')
  <2>1. stop_requested(q) => stop_requested(r)
    BY <1>3 DEF SameOwner, stop_requested
  <2>2. Follows(q, child)
    BY <1>1
  <2> HIDE DEF q, r
  <2> QED BY <1>4, <2>1, <2>2, FollowsAgain
<1>6. ~process'.event_eof => ~r.malformed
  <2>1. q.malformed = r.malformed
    BY <1>4 DEF SameRecord
  <2>2. ~process.event_eof => ~q.malformed
    BY <1>1
  <2> HIDE DEF q, r
  <2> QED BY <2>1, <2>2, Zenon
<1>7. process'.malformed <=> process'.event_eof /\ process'.terminal = "none"
  BY <1>1 DEF SameRecord
<1> HIDE DEF q, r
<1>8. child'.command => stop_requested(process')
  BY <1>1
<1>9. child'.exit \subseteq {"failed", "killed"} \cup
                             ({child'.at} \cap {"completed", "cancelled"})
  BY <1>1
<1> QED BY <1>5, <1>6, <1>7, <1>8, <1>9 DEF InStep, r

\* The record is as consistent as before when it stays.
LEMMA OrderedStays ==
  ASSUME Ordered, SameRecord(process, process'),
         stop_requested(process) => stop_requested(process')
  PROVE  Ordered'
BY DEF Ordered, RecordIsConsistent, SameRecord

-----------------------------------------------------------------------------
(* One step of the system *)

LEMMA InitInv == ChildInit => IInv
<1> SUFFICES ASSUME ChildInit PROVE IInv
  OBVIOUS
<1> USE DEF ChildInit, new_process, no_child
<1>1. TypeOK
  <2>1. <<>> \in Seq(Frame)
    OBVIOUS
  <2>2. new_process \in ProcessRecord
    BY DEF ProcessRecord, Stopped, ExitStatus, Ending
  <2>3. no_child \in ChildRecord
    BY <2>1 DEF ChildRecord, ExitStatus
  <2> QED BY <2>2, <2>3 DEF TypeOK
<1>2. Lifecycle
  BY DEF Lifecycle
<1>3. Ordered
  BY DEF Ordered, RecordIsConsistent, stop_requested
<1>4. InStep
  <2>1. consumed(process, child.pipe) = process
    BY ConsumedNone
  <2> QED BY <2>1, ProcessAssumption DEF InStep, Follows, stop_requested
<1>5. Justified
  BY DEF Justified
<1> QED BY <1>1, <1>2, <1>3, <1>4, <1>5 DEF IInv

LEMMA LaunchStep ==
  ASSUME IInv, Launch PROVE IInv'
<1> USE DEF Launch, IInv
<1>1. PICK spawned \in BOOLEAN, unclean \in BOOLEAN, other \in BOOLEAN :
        /\ other => spawned
        /\ LET s == launch(State, spawned, unclean)
           IN  ChildBecomes(IF other THEN [s EXCEPT !.child.at = "foreign"] ELSE s)
  BY DEF MayFail
<1>2. /\ process = new_process /\ owner = "idle" /\ UNCHANGED <<now, owner>>
      /\ process \in ProcessRecord /\ child \in ChildRecord /\ now \in Nat
  BY DEF TypeOK
<1>3. child = no_child
  BY <1>2 DEF Lifecycle, new_process
<1>4. CASE spawned
  <2>1. process' = [new_process EXCEPT !.launched = TRUE, !.is_owned = TRUE,
                      !.is_open = TRUE, !.io_error = unclean,
                      !.channel_cleanup_unknown = unclean]
    BY <1>1, <1>2, <1>4 DEF launch, State, ChildBecomes, new_process, stop_requested
  <2>2. /\ child' \in ChildRecord
        /\ child'.status = "alive" /\ child'.at \in {"start", "foreign"}
        /\ child'.completed = 0 /\ child'.dropped = 0 /\ child'.exit = {}
        /\ child'.pipe = <<>> /\ child'.command = FALSE
    <3> DEFINE alive == [no_child EXCEPT !.status = "alive"]
    <3>1. child' = IF other THEN [alive EXCEPT !.at = "foreign"] ELSE alive
      <4> DEFINE s == launch(State, spawned, unclean)
      <4>1. s = [State EXCEPT
                   !.process = [@ EXCEPT !.launched = TRUE, !.is_owned = TRUE,
                                  !.is_open = TRUE, !.io_error = unclean,
                                  !.channel_cleanup_unknown = unclean],
                   !.child = alive]
        BY <1>2, <1>4 DEF launch, State, new_process, stop_requested
      <4>2. s.child = alive /\ DOMAIN s = {"process", "child"}
        <5> HIDE DEF alive
        <5> QED BY <4>1 DEF State
      <4> HIDE DEF s, alive
      <4>3. CASE other
        BY <1>1, <4>2, <4>3 DEF s, ChildBecomes
      <4>4. CASE ~other
        BY <1>1, <4>2, <4>4 DEF s, ChildBecomes
      <4> QED BY <4>3, <4>4
    <3>2. /\ alive \in ChildRecord
          /\ alive.status = "alive" /\ alive.at = "start"
          /\ alive.completed = 0 /\ alive.dropped = 0 /\ alive.exit = {}
          /\ alive.pipe = <<>> /\ alive.command = FALSE
      BY <1>2, <1>3 DEF ChildRecord, no_child
    <3> HIDE DEF alive
    <3> QED BY <3>1, <3>2 DEF ChildRecord
  <2>3. TypeOK'
    <3>1. process' = [process EXCEPT !.launched = TRUE, !.is_owned = TRUE,
                        !.is_open = TRUE, !.io_error = unclean,
                        !.channel_cleanup_unknown = unclean]
      BY <1>2, <2>1
    <3>2. process' \in ProcessRecord
      BY <1>2, <3>1, ZenonT(60) DEF ProcessRecord
    <3> QED BY <1>2, <2>2, <3>2 DEF TypeOK
  <2>4. Lifecycle'
    BY <1>2, <1>3, <2>1, <2>2 DEF Lifecycle, new_process, no_child
  <2>5. Ordered'
    BY <2>1 DEF Ordered, RecordIsConsistent, new_process, stop_requested
  <2>6. InStep'
    <3>1. child'.pipe = <<>>
      BY <2>2 DEF no_child
    <3>2. consumed(process', child'.pipe) = process'
      BY <3>1, ConsumedNone
    <3>3. child'.exit = {} /\ ~child'.command /\ ~process'.event_eof /\ ~process'.malformed
      BY <2>1, <2>2 DEF new_process
    <3>4. child'.at # "foreign" => Follows(process', child')
      BY <2>1, <2>2, ProcessAssumption
         DEF Follows, new_process, stop_requested
    <3> QED BY <3>2, <3>3, <3>4
            DEF InStep, Follows, new_process, no_child, stop_requested
  <2>7. Justified'
    BY <2>1 DEF Justified, new_process
  <2> QED BY <2>3, <2>4, <2>5, <2>6, <2>7
<1>5. CASE ~spawned
  <2>1. process' = [new_process EXCEPT !.io_error = unclean,
                      !.channel_cleanup_unknown = unclean]
        /\ child' = child
    BY <1>1, <1>2, <1>5 DEF launch, State, ChildBecomes, new_process, stop_requested
  <2>2. process' \in ProcessRecord /\ SameRecord(process, process')
    <3> DEFINE p == process
    <3>1. p \in ProcessRecord
      BY <1>2
    <3>2. process' = [p EXCEPT !.io_error = unclean, !.channel_cleanup_unknown = unclean]
      BY <1>2, <2>1
    <3> HIDE DEF p
    <3>3. process' \in ProcessRecord /\ SameRecord(p, process')
      BY <3>1, <3>2, ZenonT(60) DEF ProcessRecord, SameRecord
    <3> QED BY <3>3 DEF p
  <2>3. /\ process'.event_eof = process.event_eof
        /\ stop_requested(process) => stop_requested(process')
    BY <1>2, <2>1 DEF new_process, stop_requested
  <2>4. TypeOK'
    BY <1>2, <2>1, <2>2 DEF TypeOK
  <2>5. Lifecycle'
    BY <1>2, <2>1 DEF Lifecycle, new_process
  <2>6. Ordered'
    BY <2>2, <2>3, OrderedStays
  <2>7. InStep'
    BY <2>1, <2>2, <2>3, InStepStays
  <2>8. Justified'
    BY <2>1 DEF Justified, new_process
  <2> QED BY <2>4, <2>5, <2>6, <2>7, <2>8
<1> QED BY <1>4, <1>5

\* A call of the owner on the state, and what it makes of it.
LEMMA StateHas ==
  ASSUME TypeOK
  PROVE  Has(State) /\ State.process = process /\ State.child = child
BY DEF TypeOK, State, Has

LEMMA RequestStopStep ==
  ASSUME IInv, RequestStop PROVE IInv'
<1> USE DEF IInv
<1> DEFINE r == request_stop(State, now)
<1>1. /\ process' = r.process /\ child' = r.child /\ UNCHANGED <<now, owner>>
      /\ now \in Nat
  BY DEF RequestStop, ChildBecomes, TypeOK
<1>2. Has(State) /\ State.process = process /\ State.child = child
  BY StateHas
<1>3. now \in Int
  BY <1>1
<1> HIDE DEF r
<1>4. /\ Has(r) /\ SameFrames(r, State) /\ SameOwnership(process', process)
      /\ stop_requested(process')
      /\ stop_requested(process) => r = State
      /\ child'.status = child.status /\ child'.exit = child.exit
      /\ process'.channels_closed = process.channels_closed
      /\ process'.io_error = process.io_error
      /\ process'.termination_pending =>
           process.termination_pending \/ ~process'.stop_delivered
  BY <1>1, <1>2, <1>3, RequestStopEffect DEF r
<1>5. /\ process' \in ProcessRecord /\ child' \in ChildRecord
      /\ SameRecord(process, process') /\ process'.event_eof = process.event_eof
      /\ child'.pipe = child.pipe /\ child'.at = child.at
      /\ child'.completed = child.completed /\ child'.dropped = child.dropped
  BY <1>1, <1>2, <1>4 DEF Has, SameFrames
<1>6. TypeOK'
  BY <1>1, <1>5 DEF TypeOK
<1>7. Lifecycle'
  <2>1. child.status # "absent" => Lifecycle'
    BY <1>1, <1>4, <1>5 DEF Lifecycle, SameOwnership
  <2>2. child.status = "absent" => child' = child
    <3> SUFFICES ASSUME child.status = "absent" PROVE child' = child
      OBVIOUS
    <3>1. ~process.is_owned \/ owner = "terminated"
      BY DEF Lifecycle
    <3>2. owner = "idle"
      BY DEF RequestStop
    <3>3. CASE stop_requested(process)
      BY <1>1, <1>2, <1>4, <3>3
    <3>4. CASE ~stop_requested(process)
      <4>1. child' = [child EXCEPT !.command = child.command \/ FALSE]
        BY <1>1, <1>2, <3>1, <3>2, <3>4 DEF r, request_stop, State
      <4> QED BY <4>1 DEF TypeOK, ChildRecord
    <3> QED BY <3>3, <3>4
  <2> QED BY <1>1, <1>4, <1>5, <2>1, <2>2 DEF Lifecycle, SameOwnership
<1>8. Ordered'
  BY <1>4, <1>5, OrderedStays
<1>9. InStep'
  BY <1>4, <1>5, InStepStays
<1>10. Justified'
  <2>1. CASE stop_requested(process)
    BY <1>1, <1>2, <1>4, <2>1 DEF Justified
  <2>2. CASE ~stop_requested(process)
    <3>1. process.stop_requested_at = {}
      BY <2>2 DEF stop_requested
    <3>2. process.termination_pending => process.malformed \/ process.io_error
      BY <2>2, <3>1 DEF Justified
    <3> QED BY <1>4, <1>5, <3>2 DEF Justified, SameRecord
  <2> QED BY <2>1, <2>2
<1> QED BY <1>6, <1>7, <1>8, <1>9, <1>10

LEMMA FinishPollStep ==
  ASSUME IInv, FinishPoll PROVE IInv'
<1> USE DEF IInv
<1>1. PICK fails \in BOOLEAN : ChildBecomes(finish_poll(State, now, fails))
  BY DEF FinishPoll, MayFail
<1> DEFINE r == finish_poll(State, now, fails)
<1>2. /\ process' = r.process /\ child' = r.child
      /\ owner = "polling" /\ owner' = "idle" /\ UNCHANGED now /\ now \in Int /\ now \in Nat
  BY <1>1 DEF FinishPoll, ChildBecomes, TypeOK
<1>3. Has(State) /\ State.process = process /\ State.child = child
  BY StateHas
<1> HIDE DEF r
<1>4. /\ Has(r) /\ SameFrames(r, State) /\ SameStop(r, State)
      /\ ~polls(process) => r = State
      /\ polls(process) =>
           /\ Collected(r, State)
           /\ process'.termination_pending <=> Due(process, process', now)
      /\ process'.termination_requested # process.termination_requested =>
           process'.termination_pending /\ process'.is_owned /\ process'.exit_status = {}
  BY <1>2, <1>3, FinishPollEffect DEF r
<1>5. /\ process' \in ProcessRecord /\ child' \in ChildRecord
      /\ SameRecord(process, process') /\ process'.event_eof = process.event_eof
      /\ child'.pipe = child.pipe /\ child'.at = child.at
      /\ child'.completed = child.completed /\ child'.dropped = child.dropped
      /\ child'.command = child.command /\ child'.exit = child.exit
      /\ process'.launched = process.launched
      /\ process'.stop_requested_at = process.stop_requested_at
      /\ process'.channels_closed = process.channels_closed
  BY <1>2, <1>3, <1>4 DEF Has, SameFrames, SameStop
<1>6. TypeOK'
  BY <1>2, <1>5 DEF TypeOK
<1>7. Lifecycle'
  <2>1. CASE ~polls(process)
    BY <1>2, <1>3, <1>4, <2>1 DEF Lifecycle
  <2>2. CASE polls(process)
    <3>1. child.status # "absent" /\ process.launched
      BY <2>2 DEF polls, Lifecycle
    <3>2. /\ child'.status # "absent"
          /\ child'.status = "alive" <=> child.status = "alive"
          /\ process'.is_owned => child'.status \in {"alive", "exited", "stolen"}
          /\ child'.status \in {"alive", "exited"} => process'.is_owned
          /\ process'.exit_status # {} =>
               child'.status = "reaped" /\ process'.exit_status = child'.exit
          /\ process.exit_status # {} => process'.exit_status # {}
      BY <1>2, <1>3, <1>4, <1>5, <2>2, <3>1
         DEF Collected, Lifecycle, TypeOK, ChildRecord, ProcessRecord
    <3> QED BY <1>2, <1>5, <3>1, <3>2 DEF Lifecycle
  <2> QED BY <2>1, <2>2
<1>8. stop_requested(process) => stop_requested(process')
  BY <1>5 DEF stop_requested
<1>9. Ordered'
  BY <1>5, <1>8, OrderedStays
<1>10. InStep'
  BY <1>5, <1>8, InStepStays
<1>11. Justified'
  <2>1. CASE ~polls(process)
    BY <1>2, <1>3, <1>4, <2>1 DEF Justified
  <2>2. CASE polls(process)
    <3> SUFFICES ASSUME process'.termination_pending PROVE Justified'
      BY DEF Justified
    <3>1. Due(process, process', now)
      BY <1>4, <2>2, Zenon
    <3>2. CASE process.termination_pending
      BY <1>2, <1>3, <1>4, <1>5, <3>2
         DEF Justified, SameRecord, SameStop, stop_requested
    <3>3. CASE \/ process'.malformed \/ process'.io_error
               \/ stop_requested(process') /\ ~process'.stop_delivered
      BY <3>3 DEF Justified
    <3>4. CASE grace_has_passed(process', now)
      <4>1. PICK t \in process'.stop_requested_at : t <= now /\ now - t >= Grace
        BY <3>4 DEF grace_has_passed
      <4>2. t \in Int
        BY <1>5, <4>1 DEF ProcessRecord, Stopped
      <4>3. t + Grace <= now'
        BY <1>2, <4>1, <4>2, ProcessAssumption
      <4> QED BY <4>1, <4>3 DEF Justified
    <3>5. \/ process.termination_pending \/ process'.malformed \/ process'.io_error
          \/ stop_requested(process') /\ ~process'.stop_delivered
          \/ grace_has_passed(process', now)
      BY <3>1 DEF Due
    <3> QED BY <3>2, <3>3, <3>4, <3>5 DEF Justified
  <2> QED BY <2>1, <2>2
<1> QED BY <1>6, <1>7, <1>9, <1>10, <1>11

LEMMA CloseChannelsStep ==
  ASSUME IInv, CloseChannels PROVE IInv'
<1> USE DEF IInv
<1>1. PICK fails \in BOOLEAN : ChildBecomes(close_channels(State, fails))
  BY DEF CloseChannels, MayFail
<1> DEFINE r == close_channels(State, fails)
<1>2. /\ process' = r.process /\ child' = r.child /\ UNCHANGED <<now, owner>>
      /\ can_close(process) /\ now \in Nat /\ owner = "idle"
  BY <1>1 DEF CloseChannels, ChildBecomes, TypeOK
<1>3. Has(State) /\ State.process = process /\ State.child = child
  BY StateHas
<1> HIDE DEF r
<1>4. /\ Has(r) /\ SameFrames(r, State) /\ SameOwnership(process', process)
      /\ child' = child
      /\ process'.stop_requested_at = process.stop_requested_at
      /\ process'.stop_delivered = process.stop_delivered
      /\ process'.termination_pending = process.termination_pending
      /\ process.io_error => process'.io_error
  BY <1>2, <1>3, CloseChannelsEffect DEF r
<1>5. /\ process' \in ProcessRecord /\ SameRecord(process, process')
      /\ process'.event_eof = process.event_eof
  BY <1>2, <1>3, <1>4 DEF Has, SameFrames
<1>6. stop_requested(process) => stop_requested(process')
  BY <1>4 DEF stop_requested
<1>7. TypeOK'
  BY <1>2, <1>4, <1>5 DEF TypeOK
<1>8. Lifecycle'
  BY <1>2, <1>4, <1>5 DEF Lifecycle, SameOwnership, can_close
<1>9. Ordered'
  BY <1>5, <1>6, OrderedStays
<1>10. InStep'
  BY <1>4, <1>5, <1>6, InStepStays
<1>11. Justified'
  BY <1>2, <1>4, <1>5 DEF Justified, SameRecord, stop_requested
<1> QED BY <1>7, <1>8, <1>9, <1>10, <1>11

\* The end of the owner is the end of its child.
LEMMA DestroyStep ==
  ASSUME IInv, Destroy PROVE IInv'
<1> USE DEF IInv
<1>1. /\ process \in ProcessRecord /\ child \in ChildRecord /\ now \in Nat
      /\ owner = "idle" /\ owner' \in {"gone", "terminated"} /\ now' = now
  BY DEF Destroy, TypeOK
<1>2. /\ child' \in ChildRecord
      /\ child'.pipe = child.pipe /\ child'.at = child.at
      /\ child'.completed = child.completed /\ child'.dropped = child.dropped
      /\ child'.command = child.command
      /\ \/ /\ process.is_owned /\ child.status \in {"alive", "exited"}
            /\ child'.status = "reaped"
            /\ child'.exit = IF child.status = "exited" THEN child.exit ELSE {"killed"}
         \/ /\ ~(process.is_owned /\ child.status \in {"alive", "exited"})
            /\ child' = child
  <2>1. CASE process.is_owned /\ child.status \in {"alive", "exited"}
    <3> DEFINE exit == IF child.status = "exited" THEN child.exit ELSE {"killed"}
    <3>1. child' = [child EXCEPT !.status = "reaped", !.exit = exit]
      BY <2>1 DEF Destroy
    <3>2. exit \in ExitStatus
      BY <1>1 DEF ChildRecord, ExitStatus, Exit
    <3> HIDE DEF exit
    <3>3. /\ child' \in ChildRecord
          /\ child'.pipe = child.pipe /\ child'.at = child.at
          /\ child'.completed = child.completed /\ child'.dropped = child.dropped
          /\ child'.command = child.command
          /\ child'.status = "reaped" /\ child'.exit = exit
      BY <1>1, <3>1, <3>2 DEF ChildRecord
    <3> QED BY <2>1, <3>3 DEF exit
  <2>2. CASE ~(process.is_owned /\ child.status \in {"alive", "exited"})
    BY <1>1, <2>2 DEF Destroy
  <2> QED BY <2>1, <2>2
<1>3. /\ process' \in ProcessRecord /\ SameRecord(process, process')
      /\ process'.event_eof = process.event_eof
      /\ process'.launched = process.launched
      /\ process'.channels_closed = process.channels_closed
      /\ process'.stop_requested_at = process.stop_requested_at
      /\ process'.stop_delivered = process.stop_delivered
      /\ process'.termination_pending = process.termination_pending
      /\ process'.io_error = process.io_error
      /\ \/ /\ owner' = "gone" /\ ~process'.is_owned
            /\ process'.exit_status = child'.exit /\ child.status # "stolen"
         \/ owner' = "terminated" /\ process' = process
  <2>1. CASE owner' = "gone"
    <3> DEFINE exit == child'.exit
    <3>1. process' = [process EXCEPT !.is_owned = FALSE, !.is_open = FALSE,
                                     !.exit_status = exit]
      BY <2>1 DEF Destroy
    <3>2. exit \in ExitStatus /\ child.status # "stolen"
      BY <1>2, <2>1 DEF Destroy, ChildRecord
    <3> HIDE DEF exit
    <3>3. /\ process' \in ProcessRecord /\ SameRecord(process, process')
          /\ process'.event_eof = process.event_eof
          /\ process'.launched = process.launched
          /\ process'.channels_closed = process.channels_closed
          /\ process'.stop_requested_at = process.stop_requested_at
          /\ process'.stop_delivered = process.stop_delivered
          /\ process'.termination_pending = process.termination_pending
          /\ process'.io_error = process.io_error
          /\ ~process'.is_owned /\ process'.exit_status = exit
      BY <1>1, <3>1, <3>2 DEF ProcessRecord, SameRecord
    <3> QED BY <2>1, <3>2, <3>3 DEF exit
  <2>2. CASE owner' = "terminated"
    BY <1>1, <2>2 DEF Destroy, SameRecord
  <2> QED BY <1>1, <2>1, <2>2
<1>4. TypeOK'
  BY <1>1, <1>2, <1>3 DEF TypeOK
<1>5. Lifecycle'
  BY ZenonT(60), <1>1, <1>2, <1>3 DEF Lifecycle, ChildRecord, ProcessRecord
<1>6. stop_requested(process) => stop_requested(process')
  BY <1>3 DEF stop_requested
<1>7. Ordered'
  BY <1>3, <1>6, OrderedStays
<1>8. InStep'
  BY <1>2, <1>3, <1>6, InStepStays
<1>9. Justified'
  BY <1>1, <1>3 DEF Justified, SameRecord, stop_requested
<1> QED BY <1>4, <1>5, <1>7, <1>8, <1>9

\* The child changes, and the owner has not noticed.
LEMMA UnnoticedStays ==
  ASSUME IInv, UNCHANGED <<process, owner>>, now' \in Nat, now <= now'
  PROVE  Ordered' /\ Justified'
<1>1. SameRecord(process, process') /\ (stop_requested(process) => stop_requested(process'))
  BY DEF SameRecord, stop_requested
<1>2. Ordered'
  BY <1>1, OrderedStays DEF IInv
<1>3. Justified'
  <2> SUFFICES ASSUME process.termination_pending,
                      NEW t \in process.stop_requested_at, t + Grace <= now
               PROVE  t + Grace <= now'
    BY DEF Justified, IInv, stop_requested
  <2>1. t \in Int /\ now \in Nat
    BY DEF IInv, TypeOK, ProcessRecord, Stopped
  <2> QED BY <2>1, ProcessAssumption
<1> QED BY <1>2, <1>3

LEMMA TickStep ==
  ASSUME IInv, Tick PROVE IInv'
<1> USE DEF IInv
<1>1. UNCHANGED <<process, child, owner>> /\ now' \in Nat /\ now <= now'
  BY DEF Tick, TypeOK
<1>2. TypeOK' /\ Lifecycle' /\ InStep'
  BY <1>1 DEF TypeOK, Lifecycle, InStep, stop_requested
<1> QED BY <1>1, <1>2, UnnoticedStays

\* The child ends, or someone else waits for it.
LEMMA EndStep ==
  ASSUME IInv, GiveUp \/ Die \/ Steal PROVE IInv'
<1> USE DEF IInv
<1>1. UNCHANGED <<process, now, owner>>
  BY DEF GiveUp, Die, Steal
<1>2. process \in ProcessRecord /\ child \in ChildRecord /\ now \in Nat
  BY DEF TypeOK
<1>3. /\ child' \in ChildRecord
      /\ child'.pipe = child.pipe /\ child'.at = child.at
      /\ child'.completed = child.completed /\ child'.dropped = child.dropped
      /\ child'.command = child.command
      /\ \/ /\ child.status = "alive" /\ child'.status = "exited"
            /\ child'.exit \in {{"failed"}, {"killed"}}
         \/ /\ child.status = "exited" /\ child'.status = "stolen"
            /\ child'.exit = child.exit
  <2>1. CASE Steal
    BY <1>2, <2>1 DEF Steal, ChildRecord
  <2>2. CASE GiveUp
    BY <1>2, <2>2 DEF GiveUp, Alive, gives_up, exited, ChildRecord, ExitStatus, Exit
  <2>3. CASE Die
    BY <1>2, <2>3 DEF Die, Alive, exited, ChildRecord, ExitStatus, Exit
  <2> QED BY <2>1, <2>2, <2>3
<1>4. TypeOK'
  BY <1>1, <1>2, <1>3 DEF TypeOK
<1>5. Lifecycle'
  BY <1>1, <1>2, <1>3 DEF Lifecycle, TypeOK
<1>6. InStep'
  <2>1. SameRecord(process, process') /\ (stop_requested(process) => stop_requested(process'))
    BY <1>1 DEF SameRecord, stop_requested
  <2> QED BY <1>1, <1>2, <1>3, <2>1, InStepStays
<1> QED BY <1>1, <1>2, <1>4, <1>5, <1>6, UnnoticedStays

LEMMA ForeignStep ==
  ASSUME IInv, Foreign PROVE IInv'
<1> USE DEF IInv
<1>1. UNCHANGED <<process, now, owner>> /\ child.at = "foreign" /\ child.status = "alive"
  BY DEF Foreign, Alive
<1>2. process \in ProcessRecord /\ child \in ChildRecord /\ now \in Nat
  BY DEF TypeOK
<1>3. /\ child' \in ChildRecord /\ child'.at = "foreign"
      /\ \/ child'.status = "alive" /\ child'.exit = {}
         \/ child'.status = "exited" /\ child'.exit # {}
  <2>1. CASE \E f \in ForeignFrames : child' = [child EXCEPT !.pipe = Append(child.pipe, f)]
    <3>1. PICK f \in Frame : child' = [child EXCEPT !.pipe = Append(child.pipe, f)]
      BY <2>1, ChildAssumption
    <3>2. Append(child.pipe, f) \in Seq(Frame) /\ child.exit = {}
      BY <1>1, <1>2 DEF ChildRecord, Lifecycle
    <3> QED BY <1>1, <1>2, <3>1, <3>2 DEF ChildRecord
  <2>2. CASE \E exit \in Exit \ {"killed"} : child' = exited(child, exit)
    <3>1. PICK exit \in Exit \ {"killed"} : child' = exited(child, exit)
      BY <2>2
    <3>2. {exit} \in ExitStatus /\ {exit} # {}
      BY <3>1 DEF ExitStatus
    <3>3. child' = [child EXCEPT !.status = "exited", !.exit = {exit}]
      BY <3>1 DEF exited
    <3> QED BY <1>1, <1>2, <3>2, <3>3 DEF ChildRecord
  <2> QED BY <2>1, <2>2 DEF Foreign
<1>4. TypeOK'
  BY <1>1, <1>2, <1>3 DEF TypeOK
<1>5. Lifecycle'
  BY <1>1, <1>2, <1>3 DEF Lifecycle, TypeOK
<1>6. InStep'
  BY <1>3 DEF InStep
<1> QED BY <1>1, <1>2, <1>4, <1>5, <1>6, UnnoticedStays

-----------------------------------------------------------------------------
(* Steps that write or read frames *)

\* The owner accepts every frame that the worker writes.
LEMMA FrameFollows ==
  ASSUME NEW q \in ProcessRecord, NEW c \in ChildRecord, NEW d \in ChildRecord,
         NEW kind \in FrameKind, Follows(q, c), ~q.malformed, Sends(c, d, kind)
  PROVE  LET f == [kind |-> kind, iterations |-> d.completed, dropped |-> d.dropped]
         IN  /\ f \in Frame
             /\ Follows(consume(q, f), d)
             /\ ~consume(q, f).malformed
<1> DEFINE f == [kind |-> kind, iterations |-> d.completed, dropped |-> d.dropped]
<1>1. /\ f.kind = kind /\ f.iterations = d.completed /\ f.dropped = d.dropped
      /\ Batches \in Nat \ {0} /\ d.completed \in Nat /\ d.dropped \in Nat
      /\ c.completed \in Nat /\ c.dropped \in Nat
      /\ q.last_iterations \in Nat /\ q.dropped \in Nat
  BY ProcessAssumption DEF ChildRecord, ProcessRecord
<1>2. f \in Frame
  BY <1>1 DEF Frame, Sends, Follows
<1> HIDE DEF f
<1>3. is_ordered(q, f)
  BY <1>1 DEF is_ordered, Sends, Follows
<1>4. is_expected(q, f)
  <2>1. CASE kind = "progress"
    BY <1>1, <2>1 DEF is_expected, Sends, Follows
  <2>2. CASE kind = "ready"
    BY <1>1, <2>2 DEF is_expected, Sends, Follows
  <2>3. CASE kind = "stop_acknowledged"
    BY <1>1, <2>3 DEF is_expected, Sends, Follows
  <2>4. CASE kind = "cancelled"
    BY <1>1, <2>4 DEF is_expected, Sends, Follows
  <2>5. CASE kind = "completed"
    BY <1>1, <2>5 DEF is_expected, Sends, Follows
  <2> QED BY <2>1, <2>2, <2>3, <2>4, <2>5 DEF Sends
<1>5. consume(q, f) = [taken(q, f) EXCEPT !.last_iterations = d.completed,
                                          !.dropped = d.dropped]
  BY <1>1, <1>3, <1>4 DEF consume
<1>6. taken(q, f) \in ProcessRecord /\ SameOwner(taken(q, f), q)
  BY <1>2, TakenType
<1> DEFINE t == taken(q, f)
           u == [t EXCEPT !.last_iterations = d.completed, !.dropped = d.dropped]
<1>7. /\ t.malformed = q.malformed /\ t.stop_ignored = q.stop_ignored
      /\ t.started = (q.started \/ kind = "ready")
      /\ t.stop_acknowledged = (q.stop_acknowledged \/ kind = "stop_acknowledged")
      /\ t.terminal = IF kind \in {"completed", "cancelled"} THEN kind ELSE q.terminal
  BY <1>1 DEF taken, Sends, ProcessRecord
<1> HIDE DEF t
<1>8. /\ u.malformed = t.malformed /\ u.stop_ignored = t.stop_ignored
      /\ u.started = t.started /\ u.stop_acknowledged = t.stop_acknowledged
      /\ u.terminal = t.terminal /\ u.last_iterations = d.completed
      /\ u.dropped = d.dropped /\ u.stop_requested_at = q.stop_requested_at
  BY <1>6 DEF ProcessRecord, SameOwner, t
<1> HIDE DEF u
<1>9. ~u.malformed
  BY <1>7, <1>8
<1>10. Follows(u, d)
  <2>1. /\ u.last_iterations <= d.completed /\ d.completed <= Batches
        /\ u.dropped <= d.dropped /\ d.dropped <= d.completed
        /\ d.at \in {"complete", "completed"} => d.completed = Batches
        /\ d.at \in {"loop", "stop", "cancel"} => d.completed < Batches
        /\ d.at # "start"
    BY <1>1, <1>8 DEF Follows, Sends
  <2>2. /\ u.started /\ ~u.stop_ignored
        /\ u.terminal = IF d.at \in {"completed", "cancelled"} THEN d.at ELSE "none"
        /\ u.stop_acknowledged <=> d.at \in {"cancel", "cancelled"}
        /\ d.at \in {"stop", "cancel", "cancelled"} => stop_requested(u)
    <3>1. CASE kind = "progress"
      BY <1>7, <1>8, <3>1 DEF Follows, Sends, stop_requested
    <3>2. CASE kind = "ready"
      BY <1>7, <1>8, <3>2 DEF Follows, Sends, stop_requested
    <3>3. CASE kind = "stop_acknowledged"
      BY <1>7, <1>8, <3>3 DEF Follows, Sends, stop_requested
    <3>4. CASE kind = "cancelled"
      BY <1>7, <1>8, <3>4 DEF Follows, Sends, stop_requested
    <3>5. CASE kind = "completed"
      BY <1>7, <1>8, <3>5 DEF Follows, Sends, stop_requested
    <3> QED BY <3>1, <3>2, <3>3, <3>4, <3>5 DEF Sends
  <2> QED BY <2>1, <2>2 DEF Follows
<1> QED BY <1>2, <1>5, <1>9, <1>10 DEF u, t, f

LEMMA WorkStep ==
  ASSUME IInv, Work PROVE IInv'
<1> USE DEF IInv
<1> DEFINE q == consumed(process, child.pipe)
<1>1. /\ UNCHANGED <<process, now, owner>> /\ child.at # "foreign"
      /\ child.status = "alive" /\ child' \in worker_steps(child)
      /\ process \in ProcessRecord /\ child \in ChildRecord /\ now \in Nat
      /\ child.pipe \in Seq(Frame)
  BY DEF Work, Alive, TypeOK, ChildRecord
<1>2. /\ ~process.event_eof /\ child.exit = {}
      /\ Follows(q, child) /\ ~q.malformed
      /\ ~process.malformed
      /\ child.command => stop_requested(process)
  BY <1>1 DEF Lifecycle, InStep
<1>3. q \in ProcessRecord /\ SameOwner(q, process)
  BY <1>1, ConsumedType
<1>4. stop_requested(process) => stop_requested(q)
  BY <1>3 DEF SameOwner, stop_requested
<1> HIDE DEF q
<1>5. /\ child' \in ChildRecord
      /\ child'.command => child.command
      /\ \/ /\ child'.status = "alive" /\ child'.exit = {}
            /\ \E kind \in FrameKind :
                 /\ Sends(child, child', kind)
                 /\ child'.pipe = Append(child.pipe,
                      [kind |-> kind, iterations |-> child'.completed,
                       dropped |-> child'.dropped])
         \/ /\ child'.status = "alive" /\ child'.exit = {} /\ child'.pipe = child.pipe
            /\ child.at = "loop" /\ child.command /\ child'.at = "stop"
            /\ child'.completed = child.completed /\ child'.dropped = child.dropped
         \/ /\ child'.status = "alive" /\ child'.exit = {} /\ child'.pipe = child.pipe
            /\ child.at = "loop" /\ child'.completed = child.completed + 1
            /\ child'.at = IF child.completed + 1 = Batches THEN "complete" ELSE "loop"
            /\ child'.dropped = child.dropped + 1
         \/ /\ child'.status = "exited" /\ child.at \in {"completed", "cancelled"}
            /\ child'.exit = {child.at} /\ child'.at = child.at /\ child'.pipe = child.pipe
            /\ child'.completed = child.completed /\ child'.dropped = child.dropped
  <2>1. Paced(child)
    BY <1>1, <1>2, ProcessAssumption DEF Follows, Paced, ChildRecord
  <2> QED BY <1>1, <1>2, <2>1, WorkerDoes DEF Works
<1>6. TypeOK'
  BY <1>1, <1>5 DEF TypeOK
<1>7. Lifecycle'
  <2>1. child'.status \in {"alive", "exited"}
        /\ (child'.exit = {} <=> child'.status = "alive")
    BY <1>5
  <2> QED BY <1>1, <1>2, <2>1 DEF Lifecycle, TypeOK
<1>8. InStep'
  <2> DEFINE r == consumed(process, child'.pipe)
  <2>1. CASE \E kind \in FrameKind :
               /\ child'.status = "alive" /\ child'.exit = {}
               /\ Sends(child, child', kind)
               /\ child'.pipe = Append(child.pipe,
                    [kind |-> kind, iterations |-> child'.completed,
                     dropped |-> child'.dropped])
    <3>1. PICK kind \in FrameKind :
               /\ child'.status = "alive" /\ child'.exit = {}
               /\ Sends(child, child', kind)
               /\ child'.pipe = Append(child.pipe,
                    [kind |-> kind, iterations |-> child'.completed,
                     dropped |-> child'.dropped])
      BY <2>1
    <3> DEFINE f == [kind |-> kind, iterations |-> child'.completed,
                     dropped |-> child'.dropped]
    <3>2. f \in Frame /\ Follows(consume(q, f), child') /\ ~consume(q, f).malformed
      BY <1>1, <1>2, <1>3, <1>5, <3>1, FrameFollows
    <3>3. child'.pipe = Append(child.pipe, f) /\ child'.exit = {}
      BY <3>1
    <3> HIDE DEF f
    <3>4. r = consume(q, f)
      BY <1>1, <3>2, <3>3, ConsumedAppend DEF q
    <3> HIDE DEF r
    <3> QED BY <1>1, <1>2, <1>5, <3>2, <3>3, <3>4 DEF InStep, r
  <2>2. CASE child'.pipe = child.pipe
    <3>1. r = q
      BY <2>2 DEF q
    <3>2. ~process'.malformed /\ ~process'.event_eof
          /\ (child'.command => stop_requested(process'))
      BY <1>1, <1>2, <1>5
    <3> HIDE DEF r
    <3>3. CASE /\ child'.exit = {} /\ child.at = "loop"
               /\ child.command /\ child'.at = "stop"
               /\ child'.completed = child.completed /\ child'.dropped = child.dropped
      <4>1. Follows(q, child')
        BY <1>2, <1>4, <3>3 DEF Follows
      <4> QED BY <1>1, <1>2, <3>1, <3>2, <3>3, <4>1 DEF InStep, r
    <3>4. CASE /\ child'.exit = {} /\ child.at = "loop"
               /\ child'.completed = child.completed + 1
               /\ child'.at = IF child.completed + 1 = Batches THEN "complete" ELSE "loop"
               /\ child'.dropped = child.dropped + 1
      <4>1. /\ child.completed \in Nat /\ child.dropped \in Nat
            /\ q.last_iterations \in Nat /\ q.dropped \in Nat
        BY <1>1, <1>3 DEF ChildRecord, ProcessRecord
      <4>2. Follows(q, child')
        BY <1>2, <3>4, <4>1, ProcessAssumption DEF Follows
      <4> QED BY <1>1, <1>2, <3>1, <3>2, <3>4, <4>2 DEF InStep, r
    <3>5. CASE /\ child.at \in {"completed", "cancelled"}
               /\ child'.exit = {child.at} /\ child'.at = child.at
               /\ child'.completed = child.completed /\ child'.dropped = child.dropped
      <4>1. Follows(q, child')
        BY <1>2, <3>5 DEF Follows
      <4> QED BY <1>1, <1>2, <3>1, <3>2, <3>5, <4>1 DEF InStep, r
    <3> QED BY <1>5, <2>1, <3>3, <3>4, <3>5
  <2> QED BY <1>5, <2>1, <2>2
<1> QED BY <1>1, <1>6, <1>7, <1>8, UnnoticedStays

\* Ordered, of any record p.
InOrder(p) ==
  /\ p.terminal = "completed" =>
       ~p.stop_acknowledged /\ p.terminal_iterations = Batches
  /\ p.terminal = "cancelled" => p.stop_acknowledged /\ stop_requested(p)
  /\ p.terminal # "none" => p.started /\ p.progress <= p.terminal_iterations
  /\ ~(p.stop_acknowledged /\ p.stop_ignored)
  /\ p.progress <= p.last_iterations
  /\ p.stop_acknowledged \/ p.stop_ignored => stop_requested(p)

\* No frame, whoever writes it, makes the record inconsistent.
LEMMA ConsumeInOrder ==
  ASSUME NEW q \in ProcessRecord, NEW f \in Frame, InOrder(q)
  PROVE  InOrder(consume(q, f))
<1>0. /\ f.iterations \in Nat /\ f.kind \in FrameKind
      /\ q.progress \in Nat /\ q.last_iterations \in Nat /\ Batches \in Nat
  BY ProcessAssumption DEF Frame, ProcessRecord
<1>1. CASE q.malformed
  BY <1>1 DEF consume
<1>2. CASE ~q.malformed /\ ~(is_ordered(q, f) /\ is_expected(q, f))
  <2>1. consume(q, f) = [q EXCEPT !.malformed = TRUE]
    BY <1>2 DEF consume
  <2> QED BY <2>1 DEF InOrder, ProcessRecord, stop_requested
<1>3. CASE ~q.malformed /\ is_ordered(q, f) /\ is_expected(q, f)
  <2> DEFINE t == taken(q, f)
             u == [t EXCEPT !.last_iterations = f.iterations, !.dropped = f.dropped]
  <2>1. consume(q, f) = u
    BY <1>3 DEF consume
  <2>2. t \in ProcessRecord /\ SameOwner(t, q)
    BY TakenType
  <2>3. /\ t.started = (q.started \/ f.kind = "ready")
        /\ t.progress = IF f.kind = "progress" THEN f.iterations ELSE q.progress
        /\ t.stop_acknowledged = (q.stop_acknowledged \/ f.kind = "stop_acknowledged")
        /\ t.stop_ignored = (q.stop_ignored \/ f.kind = "stop_ignored")
        /\ t.terminal = IF f.kind \in {"completed", "cancelled"} THEN f.kind ELSE q.terminal
        /\ t.terminal_iterations = IF f.kind \in {"completed", "cancelled"}
                                     THEN f.iterations ELSE q.terminal_iterations
    BY <1>0 DEF taken, FrameKind, ProcessRecord
  <2>4. /\ u.started = t.started /\ u.progress = t.progress
        /\ u.stop_acknowledged = t.stop_acknowledged
        /\ u.stop_ignored = t.stop_ignored /\ u.terminal = t.terminal
        /\ u.terminal_iterations = t.terminal_iterations
        /\ u.last_iterations = f.iterations
        /\ stop_requested(u) <=> stop_requested(q)
    BY <2>2 DEF ProcessRecord, SameOwner, stop_requested
  <2> HIDE DEF u, t
  <2>5. q.terminal = "none" /\ q.last_iterations <= f.iterations
    BY <1>3 DEF is_ordered
  <2>6. u.progress <= u.last_iterations
    BY <1>0, <2>3, <2>4, <2>5 DEF InOrder
  <2>7. /\ u.terminal = "completed" =>
             ~u.stop_acknowledged /\ u.terminal_iterations = Batches
        /\ u.terminal = "cancelled" => u.stop_acknowledged /\ stop_requested(u)
        /\ u.terminal # "none" => u.started /\ u.progress <= u.terminal_iterations
    <3>0. q.progress <= f.iterations
      BY <1>0, <2>5 DEF InOrder
    <3>1. CASE f.kind = "completed"
      <4>1. q.started /\ ~q.stop_acknowledged /\ f.iterations = Batches
        BY <1>3, <3>1 DEF is_expected
      <4> QED BY <2>3, <2>4, <3>0, <3>1, <4>1
    <3>2. CASE f.kind = "cancelled"
      <4>1. q.started /\ stop_requested(q) /\ q.stop_acknowledged
        BY <1>3, <3>2 DEF is_expected
      <4> QED BY <2>3, <2>4, <3>0, <3>2, <4>1
    <3>3. CASE f.kind \notin {"completed", "cancelled"}
      BY <2>3, <2>4, <2>5, <3>3
    <3> QED BY <3>1, <3>2, <3>3
  <2>8. /\ ~(u.stop_acknowledged /\ u.stop_ignored)
        /\ u.stop_acknowledged \/ u.stop_ignored => stop_requested(u)
    BY <1>3, <2>3, <2>4 DEF is_expected, InOrder
  <2> QED BY <2>1, <2>6, <2>7, <2>8 DEF InOrder
<1> QED BY <1>1, <1>2, <1>3

LEMMA ConsumedInOrder ==
  ASSUME NEW p \in ProcessRecord, InOrder(p), NEW frames \in Seq(Frame)
  PROVE  InOrder(consumed(p, frames))
<1> DEFINE S == {q \in ProcessRecord : InOrder(q)}
<1>1. p \in S
  OBVIOUS
<1>2. ASSUME NEW q \in S, NEW f \in Frame
      PROVE  consume(q, f) \in S
  BY ConsumeInOrder, ConsumeType
<1>3. consumed(p, frames) \in S
  <2> HIDE DEF S
  <2> QED BY <1>1, <1>2, ConsumedStays
<1> QED BY <1>3

LEMMA BeginPollStep ==
  ASSUME IInv, BeginPoll PROVE IInv'
<1> USE DEF IInv
<1>1. PICK fails \in BOOLEAN : ChildBecomes(begin_poll(State, fails))
  BY DEF BeginPoll, MayFail
<1> DEFINE r == drain_events(State, fails)
           full == consumed(process, child.pipe)
           pipe == child.pipe
<1>2. Has(State) /\ State.process = process /\ State.child = child
  BY StateHas
<1>3. /\ process' = r.process /\ child' = r.child /\ now' = now /\ owner = "idle"
      /\ owner' = "polling" /\ now \in Nat /\ polls(process)
  BY <1>1, <1>2 DEF BeginPoll, ChildBecomes, TypeOK, begin_poll
<1>4. process \in ProcessRecord /\ child \in ChildRecord /\ pipe \in Seq(Frame)
  BY DEF TypeOK, ChildRecord
<1> HIDE DEF r
<1>5. /\ Has(r) /\ SameOwnership(process', process)
      /\ process'.stop_requested_at = process.stop_requested_at
      /\ process'.stop_delivered = process.stop_delivered
      /\ process'.termination_pending = process.termination_pending
      /\ process'.channels_closed = process.channels_closed
      /\ process.io_error => process'.io_error
      /\ process.malformed => process'.malformed
      /\ process.event_eof => r = State
      /\ child' = [child EXCEPT !.pipe = child'.pipe]
  BY <1>2, <1>3, DrainEffect DEF r
<1>12. Drained(r, State)
  BY <1>2, DrainEffect DEF r
<1>6. /\ process' \in ProcessRecord /\ child' \in ChildRecord
      /\ child'.status = child.status /\ child'.at = child.at
      /\ child'.completed = child.completed /\ child'.dropped = child.dropped
      /\ child'.command = child.command /\ child'.exit = child.exit
  BY <1>3, <1>4, <1>5 DEF Has, ChildRecord
<1>7. TypeOK'
  BY <1>3, <1>6 DEF TypeOK
<1>8. stop_requested(process') <=> stop_requested(process)
  BY <1>5 DEF stop_requested
<1>9. Justified'
  BY <1>3, <1>5 DEF Justified, stop_requested
<1>10. CASE process.event_eof
  <2>1. process' = process /\ child' = child
    BY <1>2, <1>3, <1>5, <1>10
  <2>2. Lifecycle' /\ InStep' /\ Ordered'
    BY <1>3, <2>1 DEF Lifecycle, InStep, Ordered, RecordIsConsistent, stop_requested
  <2> QED BY <1>7, <1>9, <2>2
<1>11. CASE ~process.event_eof
  <2>1. PICK read \in ProcessRecord, k \in 0..Len(pipe) :
           /\ read = consumed(process, SubSeq(pipe, 1, k))
           /\ child'.pipe = SubSeq(pipe, k + 1, Len(pipe))
           /\ \/ /\ SameRecord(read, process')
                 /\ process'.event_eof = process.event_eof
              \/ /\ k = Len(pipe) /\ child.status # "alive"
                 /\ ~process.event_eof
                 /\ process' = [read EXCEPT !.event_eof = TRUE,
                                  !.malformed = read.malformed \/ read.terminal = "none"]
    BY <1>2, <1>3, <1>12 DEF Drained
  <2> DEFINE tail == child'.pipe
  <2>2. SubSeq(pipe, 1, k) \in Seq(Frame) /\ tail \in Seq(Frame)
    BY <1>4, <2>1
  <2>3. SameOwner(read, process) /\ InOrder(read)
    <3>1. InOrder(process)
      BY DEF Ordered, RecordIsConsistent, InOrder
    <3> QED BY <1>4, <2>1, <2>2, <3>1, ConsumedType, ConsumedInOrder
  <2>4. consumed(read, tail) = full
    BY <1>4, <2>1, ConsumedRest
  <2>5. SameOwner(full, read) /\ full \in ProcessRecord /\ (read.malformed => full = read)
    BY <2>2, <2>4, ConsumedType
  <2> HIDE DEF full, tail
  <2>6. CASE SameRecord(read, process') /\ process'.event_eof = process.event_eof
    <3>1. Lifecycle'
      <4>1. child.status # "absent"
        BY <1>3 DEF Lifecycle, polls
      <4> QED BY <1>3, <1>5, <1>6, <1>11, <2>6, <4>1 DEF Lifecycle, SameOwnership, TypeOK
    <3>2. Ordered'
      <4>1. InOrder(process')
        BY <1>8, <2>3, <2>6 DEF InOrder, SameRecord, SameOwner, stop_requested
      <4> QED BY <4>1 DEF Ordered, RecordIsConsistent, InOrder
    <3>3. InStep'
      <4> SUFFICES ASSUME child.at # "foreign" PROVE InStep'
        BY <1>6 DEF InStep
      <4>1. Follows(full, child) /\ ~full.malformed /\ (child.command => stop_requested(process))
        BY <1>11 DEF InStep, full
      <4> DEFINE next == consumed(process', tail)
      <4>2. SameRecord(full, next)
        <5>1. stop_requested(read) => stop_requested(process')
          BY <1>8, <2>3 DEF SameOwner, stop_requested
        <5>2. ~consumed(read, tail).malformed
          BY <2>4, <4>1
        <5>3. SameRecord(consumed(read, tail), consumed(process', tail))
          BY <1>6, <2>2, <2>6, <5>1, <5>2, ConsumedAgain
        <5> QED BY <2>4, <5>3
      <4>3. SameOwner(next, process')
        BY <1>6, <2>2, ConsumedType
      <4> HIDE DEF next
      <4>4. stop_requested(full) => stop_requested(next)
        BY <1>8, <2>3, <2>5, <4>3 DEF SameOwner, stop_requested
      <4>5. Follows(next, child')
        BY <1>6, <4>1, <4>2, <4>4, FollowsAgain
      <4>6. ~next.malformed /\ ~process'.malformed /\ ~process'.event_eof
        BY <1>11, <2>5, <2>6, <4>1, <4>2 DEF SameRecord
      <4>7. /\ child'.command => stop_requested(process')
            /\ child'.exit \subseteq {"failed", "killed"} \cup
                                       ({child'.at} \cap {"completed", "cancelled"})
        BY <1>6, <1>8, <4>1 DEF InStep
      <4> QED BY <4>5, <4>6, <4>7 DEF InStep, next, tail
    <3> QED BY <1>7, <1>9, <3>1, <3>2, <3>3
  <2>7. CASE /\ k = Len(pipe) /\ child.status # "alive"
             /\ process' = [read EXCEPT !.event_eof = TRUE,
                              !.malformed = read.malformed \/ read.terminal = "none"]
    <3>1. tail = <<>> /\ full = read
      <4>1. tail = <<>>
        BY <1>4, <2>1, <2>7 DEF tail
      <4> QED BY <2>4, <4>1, ConsumedNone
    <3>2. /\ process'.event_eof
          /\ process'.malformed <=> read.malformed \/ read.terminal = "none"
          /\ process'.started = read.started /\ process'.progress = read.progress
          /\ process'.stop_acknowledged = read.stop_acknowledged
          /\ process'.stop_ignored = read.stop_ignored
          /\ process'.terminal = read.terminal /\ process'.dropped = read.dropped
          /\ process'.terminal_iterations = read.terminal_iterations
          /\ process'.last_iterations = read.last_iterations
      BY <2>7 DEF ProcessRecord
    <3>3. Lifecycle'
      <4>1. child.status # "absent"
        BY <1>3 DEF Lifecycle, polls
      <4> QED BY <1>3, <1>5, <1>6, <1>11, <2>7, <3>1, <3>2, <4>1
              DEF Lifecycle, SameOwnership, TypeOK, tail
    <3>4. Ordered'
      <4>1. InOrder(process')
        BY <1>8, <2>3, <3>2 DEF InOrder, SameOwner, stop_requested
      <4> QED BY <4>1 DEF Ordered, RecordIsConsistent, InOrder
    <3>5. InStep'
      <4> SUFFICES ASSUME child.at # "foreign" PROVE InStep'
        BY <1>6 DEF InStep
      <4>1. Follows(read, child) /\ ~read.malformed /\ (child.command => stop_requested(process))
        BY <1>11, <3>1 DEF InStep, full
      <4>2. consumed(process', child'.pipe) = process'
        BY <3>1, ConsumedNone DEF tail
      <4>3. Follows(process', child')
        BY <1>6, <1>8, <2>3, <3>2, <4>1 DEF Follows, SameOwner, stop_requested
      <4>4. /\ child'.command => stop_requested(process')
            /\ child'.exit \subseteq {"failed", "killed"} \cup
                                       ({child'.at} \cap {"completed", "cancelled"})
        BY <1>6, <1>8, <4>1 DEF InStep
      <4> QED BY <3>2, <4>1, <4>2, <4>3, <4>4 DEF InStep
    <3> QED BY <1>7, <1>9, <3>3, <3>4, <3>5
  <2> QED BY <2>1, <2>6, <2>7
<1> QED BY <1>10, <1>11

-----------------------------------------------------------------------------
(* The theorems *)

LEMMA NextInv == IInv /\ [ChildNext]_child_vars => IInv'
<1> SUFFICES ASSUME IInv, [ChildNext]_child_vars PROVE IInv'
  OBVIOUS
<1>1. CASE UNCHANGED child_vars
  BY <1>1 DEF child_vars, IInv, TypeOK, Lifecycle, Ordered, RecordIsConsistent, InStep,
              Justified, stop_requested
<1>2. CASE Launch
  BY <1>2, LaunchStep
<1>3. CASE RequestStop
  BY <1>3, RequestStopStep
<1>4. CASE BeginPoll
  BY <1>4, BeginPollStep
<1>5. CASE FinishPoll
  BY <1>5, FinishPollStep
<1>6. CASE CloseChannels
  BY <1>6, CloseChannelsStep
<1>7. CASE Destroy
  BY <1>7, DestroyStep
<1>8. CASE Work
  BY <1>8, WorkStep
<1>9. CASE GiveUp \/ Die \/ Steal
  BY <1>9, EndStep
<1>10. CASE Foreign
  BY <1>10, ForeignStep
<1>11. CASE Tick
  BY <1>11, TickStep
<1> QED
  BY <1>1, <1>2, <1>3, <1>4, <1>5, <1>6, <1>7, <1>8, <1>9, <1>10, <1>11 DEF ChildNext

LEMMA AlwaysInv == ChildSpec => []IInv
<1>1. ChildInit => IInv
  BY InitInv
<1>2. IInv /\ [ChildNext]_child_vars => IInv'
  BY NextInv
<1> QED BY <1>1, <1>2, PTL DEF ChildSpec

\* The members of Impl and what is known of the child have their types; a frame
\* in the pipe is one of the protocol (compute_process.cpp Impl,
\* compute_process_protocol.hpp).
THEOREM TypeCorrect == ChildSpec => []TypeOK
<1>1. IInv => TypeOK
  BY DEF IInv
<1> QED BY <1>1, AlwaysInv, PTL

\* When the channels are closed the record says how the worker ended, with no
\* frame lost between the last read, the exit and the end of the pipe; and
\* whatever another program writes, the record tells one story (consume, poll).
THEOREM RecordIsAlwaysSound == ChildSpec => []RecordIsSound
<1>1. IInv => RecordIsSound
  <2> SUFFICES ASSUME IInv PROVE RecordIsSound
    OBVIOUS
  <2> USE DEF IInv
  <2>1. RecordIsConsistent
    BY DEF Ordered
  <2>2. RecordIsComplete
    <3> SUFFICES ASSUME process.channels_closed, child.at # "foreign"
                 PROVE  /\ \A e \in process.exit_status \ {"failed", "killed"} :
                             process.terminal = e
                        /\ process.malformed <=> process.terminal = "none"
      BY DEF RecordIsComplete
    <3>1. process.event_eof /\ child.pipe = <<>> /\ process.exit_status = child.exit
      BY DEF Lifecycle
    <3>2. consumed(process, child.pipe) = process
      BY <3>1, ConsumedNone
    <3>3. Follows(process, child)
      BY <3>2 DEF InStep
    <3>4. /\ child.exit \subseteq {"failed", "killed"} \cup
                                   ({child.at} \cap {"completed", "cancelled"})
          /\ process.malformed <=> process.event_eof /\ process.terminal = "none"
      BY DEF InStep
    <3> QED BY <3>1, <3>3, <3>4 DEF Follows
  <2> QED BY <2>1, <2>2 DEF RecordIsSound
<1> QED BY <1>1, AlwaysInv, PTL

\* What KillIsJustified says of one step.
KillStep ==
  process'.termination_requested # process.termination_requested =>
    /\ child.status \in {"alive", "exited"}
    /\ \/ process.malformed \/ process.io_error
       \/ stop_requested(process) /\ ~process.stop_delivered
       \/ \E t \in process.stop_requested_at : t + Grace <= now

\* SIGKILL is sent once, only to a child that was not waited for, and only when
\* its grace has passed, it could not be told to stop, or it broke the protocol
\* (should_terminate, request_termination_once).
THEOREM KillIsAlwaysJustified == ChildSpec => KillIsJustified
<1>1. IInv /\ IInv' /\ [ChildNext]_child_vars => [KillStep]_child_vars
  <2> SUFFICES ASSUME IInv, IInv', ChildNext,
                      process'.termination_requested # process.termination_requested
               PROVE  KillStep
    BY DEF KillStep
  <2> USE DEF IInv
  <2>1. FinishPoll
    <3>0. Has(State) /\ State.process = process /\ State.child = child /\ now \in Int
          /\ process \in ProcessRecord
      BY StateHas DEF TypeOK
    <3>1. ~Launch
      <4> SUFFICES ASSUME Launch PROVE FALSE
        OBVIOUS
      <4>1. PICK spawned \in BOOLEAN, unclean \in BOOLEAN, other \in BOOLEAN :
              process' = launch(State, spawned, unclean).process
        <5>1. PICK spawned \in BOOLEAN, unclean \in BOOLEAN, other \in BOOLEAN :
                LET s == launch(State, spawned, unclean)
                IN  ChildBecomes(IF other THEN [s EXCEPT !.child.at = "foreign"] ELSE s)
          BY DEF Launch, MayFail
        <5>2. launch(State, spawned, unclean).process =
              [launch(State, spawned, unclean) EXCEPT !.child.at = "foreign"].process
          BY DEF launch, State
        <5> QED BY <5>1, <5>2 DEF ChildBecomes
      <4>2. process = new_process
        BY DEF Launch
      <4>3. process'.termination_requested = FALSE
        BY <3>0, <4>1, <4>2 DEF launch, State, new_process, stop_requested
      <4> QED BY <4>2, <4>3 DEF new_process
    <3>2. ~RequestStop
      BY <3>0, RequestStopEffect DEF RequestStop, ChildBecomes, SameOwnership
    <3>3. ~BeginPoll
      <4> SUFFICES ASSUME BeginPoll PROVE FALSE
        OBVIOUS
      <4>1. PICK fails \in BOOLEAN : process' = drain_events(State, fails).process
        BY <3>0 DEF BeginPoll, ChildBecomes, begin_poll, MayFail
      <4>2. SameOwnership(drain_events(State, fails).process, process)
        BY <3>0, DrainEffect
      <4> QED BY <4>1, <4>2 DEF SameOwnership
    <3>4. ~CloseChannels
      <4> SUFFICES ASSUME CloseChannels PROVE FALSE
        OBVIOUS
      <4>1. PICK fails \in BOOLEAN : process' = close_channels(State, fails).process
        BY DEF CloseChannels, ChildBecomes, MayFail
      <4>2. SameOwnership(close_channels(State, fails).process, process)
        BY <3>0, CloseChannelsEffect
      <4> QED BY <4>1, <4>2 DEF SameOwnership
    <3>5. ~Destroy
      BY <3>0 DEF Destroy, ProcessRecord
    <3>6. ~(Work \/ GiveUp \/ Foreign \/ Die \/ Steal \/ Tick)
      BY DEF Work, GiveUp, Foreign, Die, Steal, Tick
    <3> QED BY <3>1, <3>2, <3>3, <3>4, <3>5, <3>6 DEF ChildNext
  <2>2. PICK fails \in BOOLEAN : ChildBecomes(finish_poll(State, now, fails))
    BY <2>1 DEF FinishPoll, MayFail
  <2> DEFINE r == finish_poll(State, now, fails)
  <2>3. /\ process' = r.process /\ child' = r.child /\ owner' = "idle" /\ now' = now
        /\ now \in Int
    BY <2>1, <2>2 DEF FinishPoll, ChildBecomes, TypeOK
  <2>4. Has(State) /\ State.process = process /\ State.child = child
    BY StateHas
  <2> HIDE DEF r
  <2>5. /\ SameFrames(r, State) /\ SameStop(r, State)
        /\ ~polls(process) => r = State
        /\ polls(process) => Collected(r, State)
        /\ process'.termination_pending /\ process'.is_owned /\ process'.exit_status = {}
    BY <2>3, <2>4, FinishPollEffect DEF r
  <2>6. Collected(r, State)
    BY <2>3, <2>4, <2>5
  <2>7. child'.status \in {"alive", "exited", "stolen"}
    BY <2>3, <2>5 DEF Lifecycle
  <2>8. child.status \in {"alive", "exited"}
    BY <2>3, <2>4, <2>5, <2>6, <2>7 DEF Collected
  <2>9. \/ process'.malformed \/ process'.io_error
        \/ stop_requested(process') /\ ~process'.stop_delivered
        \/ \E t \in process'.stop_requested_at : t + Grace <= now
    BY <2>3, <2>5 DEF Justified
  <2>10. /\ process'.malformed = process.malformed
         /\ process'.io_error = process.io_error
         /\ process'.stop_requested_at = process.stop_requested_at
         /\ process'.stop_delivered = process.stop_delivered
    BY <2>3, <2>4, <2>5 DEF SameFrames, SameRecord, SameStop
  <2> QED BY <2>8, <2>9, <2>10 DEF KillStep, stop_requested
<1>2. KillIsJustified <=> [][KillStep]_child_vars
  BY PTL DEF KillIsJustified, KillStep
<1> QED BY <1>1, <1>2, AlwaysInv, PTL DEF ChildSpec
-----------------------------------------------------------------------------
(* The sums of the worker, which ComputeProcess leaves out: its own counters *)
(* and the work of one run, in a behaviour of their own.                     *)

VARIABLES limit, completed, sum

Sums == INSTANCE WorkerSum

(* 6 * sum for q periods and r iterations, which needs no division. *)

Cubic(r) == (r - 1) * r * (2 * r - 1)

Sum6(q, r) == 6 * (q * Sums!PeriodSum) + Cubic(r)

Counts(q, r) == completed = q * Sums!Period + r /\ 6 * sum = Sum6(q, r)

SumInv ==
  /\ limit \in 1..Sums!MaximumIterations
  /\ completed \in Nat /\ completed <= limit /\ sum \in Nat
  /\ \E q \in Nat, r \in 0..Sums!Period - 1 : Counts(q, r)

LEMMA Numbers ==
  /\ Sums!Period \in Nat /\ Sums!Period >= 1 /\ Sums!MaximumIterations \in Nat
  /\ Sums!PeriodSum \in Nat /\ 6 * Sums!PeriodSum = Cubic(Sums!Period)
  BY SMT DEF Sums!Period, Sums!PeriodSum, Sums!MaximumIterations, Cubic

\* Quotient and remainder are the only q and r of a number of iterations.
LEMMA Division ==
  ASSUME NEW q \in Nat, NEW r \in 0..Sums!Period - 1
  PROVE  /\ (q * Sums!Period + r) % Sums!Period = r
         /\ (q * Sums!Period + r) \div Sums!Period = q
  BY SMT DEF Sums!Period

\* One more iteration within a period.
LEMMA NextCubic ==
  ASSUME NEW r \in Nat
  PROVE  /\ Cubic(r) \in Int
         /\ Cubic(r + 1) = Cubic(r) + 6 * (r * r)
  BY SMT DEF Cubic

\* The last iteration of a period begins the next one.
LEMMA PeriodEnds ==
  ASSUME NEW q \in Nat
  PROVE  Sum6(q, Sums!Period) = Sum6(q + 1, 0)
  BY SMT DEF Sum6, Cubic, Sums!Period, Sums!PeriodSum

\* The worker's own counters keep the relation (compute_worker.cpp:125-129).
THEOREM SumIsInvariant == Sums!Spec => []SumInv
<1>1. Sums!Init => SumInv
  <2> SUFFICES ASSUME Sums!Init PROVE SumInv  OBVIOUS
  <2>1. Counts(0, 0)
    BY SMT, Numbers DEF Sums!Init, Counts, Sum6, Cubic
  <2>2. 0 \in Nat /\ 0 \in 0..Sums!Period - 1  BY SMT, Numbers
  <2>3. /\ limit \in 1..Sums!MaximumIterations
        /\ completed \in Nat /\ completed <= limit /\ sum \in Nat
    BY SMT, Numbers DEF Sums!Init
  <2> QED  BY <2>1, <2>2, <2>3 DEF SumInv
<1>2. SumInv /\ [Sums!Iterate]_Sums!vars => SumInv'
  <2> SUFFICES ASSUME SumInv, [Sums!Iterate]_Sums!vars PROVE SumInv'  OBVIOUS
  <2>1. CASE UNCHANGED Sums!vars
    BY <2>1 DEF SumInv, Counts, Sums!vars
  <2>2. CASE Sums!Iterate
    <3>1. PICK q \in Nat, r \in 0..Sums!Period - 1 : Counts(q, r)
      BY DEF SumInv
    <3>2. r \in Nat /\ r * r \in Nat  BY SMT, Numbers
    <3>3. completed % Sums!Period = r  BY <3>1, Division DEF Counts
    <3>4. /\ completed' = completed + 1 /\ sum' = sum + r * r /\ limit' = limit
          /\ completed < limit
      BY <2>2, <3>3 DEF Sums!Iterate
    <3>5. /\ limit' \in 1..Sums!MaximumIterations
          /\ completed' \in Nat /\ completed' <= limit' /\ sum' \in Nat
      BY SMT, <3>2, <3>4, Numbers DEF SumInv
    <3>6. completed' = q * Sums!Period + (r + 1)
      BY SMT, <3>1, <3>2, <3>4, Numbers DEF Counts
    <3>7. 6 * sum' = Sum6(q, r + 1)
      <4>1. 6 * (sum + r * r) = 6 * sum + 6 * (r * r)
        BY SMT, <3>2 DEF SumInv
      <4>2. q * Sums!PeriodSum \in Nat  BY SMT, Numbers
      <4> QED  BY SMT, <3>1, <3>2, <3>4, <4>1, <4>2, NextCubic DEF Counts, Sum6
    <3>8. CASE r + 1 < Sums!Period
      <4>1. r + 1 \in 0..Sums!Period - 1  BY SMT, <3>2, <3>8, Numbers
      <4> QED  BY <3>5, <3>6, <3>7, <4>1 DEF SumInv, Counts
    <3>9. CASE r + 1 = Sums!Period
      <4>1. completed' = (q + 1) * Sums!Period + 0
        BY SMT, <3>6, <3>9, Numbers
      <4>2. 6 * sum' = Sum6(q + 1, 0)  BY <3>7, <3>9, PeriodEnds
      <4>3. q + 1 \in Nat /\ 0 \in 0..Sums!Period - 1  BY SMT, Numbers
      <4> QED  BY <3>5, <4>1, <4>2, <4>3 DEF SumInv, Counts
    <3> QED  BY SMT, <3>8, <3>9, Numbers
  <2> QED  BY <2>1, <2>2
<1> QED  BY <1>1, <1>2, PTL DEF Sums!Spec

\* Every frame carries the sum the host and the client of a recovery compare it
\* with (compute_execution.cpp:56-60, recovery_client.cpp:28-31).
THEOREM SumHolds == Sums!Spec => []Sums!SumIsExpected
<1>1. SumInv => Sums!SumIsExpected
  <2> SUFFICES ASSUME SumInv PROVE Sums!SumIsExpected  OBVIOUS
  <2>1. PICK q \in Nat, r \in 0..Sums!Period - 1 : Counts(q, r)
    BY DEF SumInv
  <2>2. completed % Sums!Period = r /\ completed \div Sums!Period = q
    BY <2>1, Division DEF Counts
  <2>3. r \in Nat /\ Cubic(r) \in Int
    BY SMT, Numbers, NextCubic
  <2>4. q * Sums!PeriodSum \in Nat /\ sum \in Nat  BY SMT, Numbers DEF SumInv
  <2>5. Cubic(r) = 6 * (sum - q * Sums!PeriodSum)
    BY SMT, <2>1, <2>3, <2>4 DEF Counts, Sum6
  <2>6. Cubic(r) \div 6 = sum - q * Sums!PeriodSum
    BY SMT, <2>3, <2>4, <2>5
  <2>7. r = 0 => sum = q * Sums!PeriodSum
    <3>1. Cubic(0) = 0  BY SMT DEF Cubic
    <3> QED  BY SMT, <3>1, <2>4, <2>5
  <2>8. Sums!expected_sum(completed)
          = q * Sums!PeriodSum + IF r = 0 THEN 0 ELSE Cubic(r) \div 6
    BY <2>2 DEF Sums!expected_sum, Cubic
  <2> QED  BY SMT, <2>4, <2>6, <2>7, <2>8 DEF Sums!SumIsExpected
<1> QED  BY <1>1, SumIsInvariant, PTL

\* At the largest number of iterations the sum is far below 2^64.
THEOREM SumNeverWraps == Sums!Spec => []Sums!SumFits
<1>1. SumInv => Sums!SumFits
  <2> SUFFICES ASSUME SumInv PROVE Sums!SumFits  OBVIOUS
  <2>1. PICK q \in Nat, r \in 0..Sums!Period - 1 : Counts(q, r)
    BY DEF SumInv
  <2>2. completed \in Nat /\ completed <= Sums!MaximumIterations /\ sum \in Nat
    BY SMT, Numbers DEF SumInv
  <2>3. q <= 100000
    BY SMT, <2>1, <2>2 DEF Counts, Sums!Period, Sums!MaximumIterations
  <2>4. Cubic(r) \in Int /\ Cubic(r) <= 6 * Sums!PeriodSum
    <3>1. r \in 0..999  BY SMT DEF Sums!Period
    <3>2. (r - 1) * r <= 998 * 999  BY SMT, <3>1
    <3>3. Cubic(r) <= 998 * 999 * 1997  BY SMT, <3>1, <3>2 DEF Cubic
    <3> QED  BY SMT, <3>1, <3>3, NextCubic DEF Sums!PeriodSum
  <2>5. q * Sums!PeriodSum <= 100000 * Sums!PeriodSum
    BY SMT, <2>3 DEF Sums!PeriodSum
  <2> QED  BY SMT, <2>1, <2>2, <2>4, <2>5, Numbers DEF Counts, Sum6, Sums!SumFits
<1> QED  BY <1>1, SumIsInvariant, PTL
-----------------------------------------------------------------------------
(* The records of the Python host.  The gate keeps the fields a record is     *)
(* written from; the calls of the host either leave the records alone or end  *)
(* the active operation.  An exception may leave an operation half ended: then *)
(* no finished record is wrong, and nothing is called any more.               *)

ReceiptFields == {"settlement", "disposition", "output"}

Formed(g) == "receipt" \in DOMAIN g /\ ReceiptFields \subseteq DOMAIN g.receipt

\* A receipt written anew has its fields, also with its disposition.
LEMMA FormedWith ==
  ASSUME NEW g, Formed(g), NEW s, ReceiptFields \subseteq DOMAIN s
  PROVE  /\ Formed([g EXCEPT !.receipt = s])
         /\ Formed([g EXCEPT !.receipt = refresh_authority_disposition(s)])
BY DEF Formed, ReceiptFields, refresh_authority_disposition

\* revoke keeps them.
LEMMA RevokeForms ==
  ASSUME NEW g, Formed(g), NEW s, ReceiptFields \subseteq DOMAIN s, NEW t
  PROVE  Formed([g EXCEPT !.receipt = revoke(s, t)])
BY DEF Formed, ReceiptFields, revoke, refresh_authority_disposition

\* request_cancel keeps them.
LEMMA CancelForms ==
  ASSUME NEW g, Formed(g), NEW a, NEW t
  PROVE  Formed(request_cancel(g, a, t))
BY RevokeForms DEF request_cancel, Formed

\* observe_time keeps them.
LEMMA TimeForms ==
  ASSUME NEW g, Formed(g), NEW a, NEW t
  PROVE  Formed(observe_time(g, a, t))
BY RevokeForms DEF observe_time, Formed

\* claim_dispatch keeps them.
LEMMA ClaimForms ==
  ASSUME NEW g, Formed(g), NEW a, NEW t
  PROVE  Formed(claim_dispatch(g, a, t))
BY DEF claim_dispatch, Formed, ReceiptFields

\* A new receipt has them, and closing the admission writes none.
LEMMA AdmissionForms ==
  ASSUME NEW g, Formed(g), NEW q
  PROVE  Formed(admit(g, q)) /\ Formed(close_admission(g))
BY DEF admit, close_admission, new_receipt, Formed, ReceiptFields

\* What is observed before an operation does not touch the receipt.
LEMMA FactsForm ==
  ASSUME NEW g, Formed(g), NEW e
  PROVE  Formed(observe_startup(g, e)) /\ Formed(observe_execution_capabilities(g, e))
BY DEF observe_startup, observe_execution_capabilities, Formed

\* The native events keep them.
LEMMA NativeForms ==
  ASSUME NEW g, Formed(g), NEW e
  PROVE  Formed(observe_native(g, e))
BY DEF observe_native, apply_native, refresh_authority_disposition, Formed, ReceiptFields

\* The reports on effects and output keep them.
LEMMA EffectsForm ==
  ASSUME NEW g, Formed(g), NEW e
  PROVE  Formed(observe_non_submission(g, e)) /\ Formed(observe_output_accepted(g, e))
BY FormedWith DEF observe_non_submission, observe_output_accepted, Formed, ReceiptFields

\* What is not delivered is not accepted.
LEMMA NonDeliveryForms ==
  ASSUME NEW g, Formed(g), NEW e, NEW q, q = observe_output_not_delivered(g, e)
  PROVE  /\ Formed(q)
         /\ accepts_non_delivery(g, e) => q.receipt.output # "accepted"
BY DEF observe_output_not_delivered, refresh_authority_disposition, Formed, ReceiptFields

\* What is accepted as delivered is recorded so.
LEMMA OutputForms ==
  ASSUME NEW g, Formed(g), NEW e, NEW q, q = observe_output_accepted(g, e)
  PROVE  /\ Formed(q)
         /\ accepts_output(g, e) => q.receipt.output = "accepted"
BY DEF observe_output_accepted, refresh_authority_disposition, Formed, ReceiptFields

\* What is settled is released, and its output is what it was.
LEMMA SettlementForms ==
  ASSUME NEW g, Formed(g), NEW e, NEW q, q = observe_settlement(g, e)
  PROVE  /\ Formed(q)
         /\ q.receipt.output = g.receipt.output
         /\ accepts_settlement(g, e) => q.receipt.disposition = "released"
<1> DEFINE s == [g.receipt EXCEPT !.settlement = "settled",
                                  !.evidence["settlement"] = {e.record}]
<1>1. CASE ~accepts_settlement(g, e)
  BY <1>1 DEF observe_settlement
<1>2. CASE accepts_settlement(g, e)
  <2>1. q = [g EXCEPT !.receipt = refresh_authority_disposition(s)]
    BY <1>2 DEF observe_settlement, Formed
  <2>2. ReceiptFields \subseteq DOMAIN s /\ s.output = g.receipt.output
    BY DEF Formed, ReceiptFields
  <2>3. has_resolved_closure(s) /\ s.outcome # "unknown"
    BY <1>2 DEF accepts_settlement, has_resolved_closure, has_resolved_effects, Formed,
                ReceiptFields
  <2>4. authority_disposition(s) = "released"
    BY <2>3 DEF authority_disposition
  <2>5. q.receipt = refresh_authority_disposition(s) /\ Formed(q)
    BY <2>1, <2>2, FormedWith DEF Formed
  <2> QED BY <2>2, <2>4, <2>5 DEF refresh_authority_disposition, ReceiptFields
<1> QED BY <1>1, <1>2

\* The past is forgotten.
LEMMA AgedForms ==
  ASSUME NEW g, Formed(g)
  PROVE  Formed(aged(g)) /\ Formed([g EXCEPT !.receipt = closed_receipt(@)])
<1>1. Formed(renumbered(g))
  BY DEF renumbered, Formed, ReceiptFields
<1>2. Formed(aged(g))
  BY <1>1 DEF aged, Formed, ReceiptFields
<1>3. Formed([g EXCEPT !.receipt = closed_receipt(@)])
  BY DEF closed_receipt, new_receipt, Formed, ReceiptFields
<1> QED BY <1>2, <1>3

-----------------------------------------------------------------------------
(* The calls of the host that leave the records alone *)

HostFields == {"gate", "records", "active", "raised", "phase"}

Shaped(h) == HostFields \subseteq DOMAIN h /\ Formed(h.gate)

Early == {"starting", "ready"}

\* A call that may raise, and never makes the host ready for another request.
Calm(r, h) ==
  /\ Shaped(r) /\ r.records = h.records /\ r.active = h.active
  /\ r.raised = "no" => h.raised = "no"
  /\ r.phase = h.phase \/ r.phase \notin Early

\* Doing nothing is such a call.
LEMMA CalmSelf ==
  ASSUME NEW h, Shaped(h)
  PROVE  Calm(h, h)
BY DEF Calm

\* Two such calls after each other are one.
LEMMA CalmThen ==
  ASSUME NEW h, NEW x, NEW r, Calm(x, h), Calm(r, x)
  PROVE  Calm(r, h)
BY DEF Calm

\* The host with another gate, and whatever else it keeps.
LEMMA CalmGate ==
  ASSUME NEW h, Shaped(h), NEW g, Formed(g), NEW r, DOMAIN r = DOMAIN h, r.gate = g,
         r.records = h.records, r.active = h.active, r.raised = h.raised,
         r.phase = h.phase \/ r.phase \notin Early
  PROVE  Calm(r, h)
BY DEF Calm, Shaped

\* accepted: the gate is another one, or the evidence raises.
LEMMA AcceptedCalm ==
  ASSUME NEW h, Shaped(h), NEW b, NEW g, Formed(g), NEW r, r = accepted(h, b, g)
  PROVE  /\ Calm(r, h)
         /\ r.raised = "no" => b /\ r.gate = g
BY DEF accepted, raise, Calm, Shaped, HostFields

\* gate_startup: a fact of the start.
LEMMA StartupCalm ==
  ASSUME NEW h, Shaped(h), NEW k, NEW t, NEW r, r = startup(h, k, t)
  PROVE  Calm(r, h)
BY AcceptedCalm, FactsForm DEF startup, Shaped

\* refresh_capability, whatever is available.
LEMMA RefreshCalm ==
  ASSUME NEW h, Shaped(h), NEW t, NEW available, NEW r,
         r = refresh_capability(h, available, t)
  PROVE  Calm(r, h)
<1>1. PICK e : e = [binding |-> h.gate.binding,
            value |-> [profile_id |-> profile, available |-> available,
                       maximum_work_units |-> MaximumSteps],
            record |-> record(h, CapabilityObserver, t),
            valid_until |-> t + Validity]
  OBVIOUS
<1>2. PICK x : x = accepted(h, accepts_capabilities(h.gate, e),
                            observe_execution_capabilities(h.gate, e))
  OBVIOUS
<1>3. Calm(x, h)
  BY <1>2, AcceptedCalm, FactsForm DEF Shaped
<1>4. r = x \/ r = [x EXCEPT !.next_capability = t + Renewal]
  BY <1>1, <1>2 DEF refresh_capability, unless_raised, then
<1> QED BY <1>3, <1>4 DEF Calm, Shaped, HostFields

\* cancel revokes the authority, and ends nothing yet.
LEMMA CancelCalm ==
  ASSUME NEW h, Shaped(h), NEW t, NEW r, r = cancel(h, t)
  PROVE  Calm(r, h)
BY CancelForms DEF cancel, Calm, Shaped, HostFields

\* tick tells the gate the time.
LEMMA TickCalm ==
  ASSUME NEW h, Shaped(h), NEW t, NEW r, r = tick(h, t)
  PROVE  Calm(r, h)
BY TimeForms DEF tick, Calm, Shaped, HostFields

\* gate_native: the native events.
LEMMA NativeCalm ==
  ASSUME NEW h, Shaped(h), NEW k, NEW t, NEW r, r = native(h, k, t)
  PROVE  Calm(r, h)
BY AcceptedCalm, NativeForms DEF native, Shaped

\* gate_non_submission.
LEMMA NonSubmissionCalm ==
  ASSUME NEW h, Shaped(h), NEW t, NEW r, r = non_submission(h, t)
  PROVE  Calm(r, h)
BY AcceptedCalm, EffectsForm DEF non_submission, Shaped

\* gate_output, of a result that is not delivered.
LEMMA NotDeliveredCalm ==
  ASSUME NEW h, Shaped(h), NEW reason, NEW t, NEW r, r = not_delivered(h, reason, t)
  PROVE  /\ Calm(r, h)
         /\ r.raised = "no" => r.gate.receipt.output # "accepted"
<1>1. PICK e : e = [authority |-> authority(h), reason |-> reason,
                    record |-> record(h, IF reason = "no_output" THEN SettlementSource
                                         ELSE ResultSinkObserver, t)]
  OBVIOUS
<1>2. PICK g : g = observe_output_not_delivered(h.gate, e)
  OBVIOUS
<1>3. r = accepted(h, accepts_non_delivery(h.gate, e), g)
  BY <1>1, <1>2 DEF not_delivered
<1>4. Formed(g) /\ (accepts_non_delivery(h.gate, e) => g.receipt.output # "accepted")
  BY <1>2, NonDeliveryForms DEF Shaped
<1> QED BY <1>3, <1>4, AcceptedCalm

\* maintain_capability, whether it is due or not.
LEMMA MaintainCalm ==
  ASSUME NEW h, Shaped(h), NEW t, NEW r, r = maintain_capability(h, t)
  PROVE  Calm(r, h)
<1>1. Calm(refresh_capability(h, TRUE, t), h)
  BY RefreshCalm
<1> QED BY <1>1, CalmSelf DEF maintain_capability

\* withdraw_capability, also of a gate that is closed.
LEMMA WithdrawCalm ==
  ASSUME NEW h, Shaped(h), NEW t, NEW r, r = withdraw_capability(h, t)
  PROVE  Calm(r, h)
<1>1. Calm(refresh_capability(h, FALSE, t), h)
  BY RefreshCalm
<1> QED BY <1>1, CalmSelf DEF withdraw_capability

\* fail_worker: the operation is cancelled and stays active.
LEMMA FailCalm ==
  ASSUME NEW h, Shaped(h), NEW t, NEW r, r = fail_worker(h, t)
  PROVE  Calm(r, h)
<1>1. PICK f : f = [h EXCEPT !.failure = TRUE]
  OBVIOUS
<1>2. Calm(f, h) /\ Shaped(f)
  BY <1>1 DEF Calm, Shaped, HostFields
<1>3. PICK x : x = refresh_capability(f, FALSE, t)
  OBVIOUS
<1>4. Calm(x, f) /\ Shaped(x)
  <2>1. Calm(x, f)
    BY <1>2, <1>3, RefreshCalm
  <2> QED BY <2>1 DEF Calm
<1>5. PICK c : c = IF x.active = 0 THEN x ELSE cancel(x, t)
  OBVIOUS
<1>6. Calm(c, x)
  BY <1>4, <1>5, CancelCalm, CalmSelf
<1>7. PICK y : y = [c EXCEPT !.queue = <<>>, !.phase = "failed"]
  OBVIOUS
<1>8. Calm(y, c)
  BY <1>6, <1>7 DEF Calm, Shaped, HostFields, Early
<1>9. r = h \/ r = x \/ r = y
  BY <1>1, <1>3, <1>5, <1>7 DEF fail_worker, unless_raised, then
<1> QED BY <1>2, <1>4, <1>6, <1>8, <1>9, CalmSelf, CalmThen

\* The channel to the worker is given up.
LEMMA LoseCalm ==
  ASSUME NEW h, Shaped(h), NEW t, NEW r, r = lose_worker(h, t)
  PROVE  Calm(r, h)
<1>1. PICK x : x = IF h.closing THEN h ELSE fail_worker(h, t)
  OBVIOUS
<1>2. Calm(x, h)
  BY <1>1, FailCalm, CalmSelf
<1>3. r = [x EXCEPT !.channel = FALSE]
  BY <1>1 DEF lose_worker
<1> QED BY <1>2, <1>3 DEF Calm, Shaped, HostFields

\* begin_close: the operation is cancelled and stays active.
LEMMA BeginCloseCalm ==
  ASSUME NEW h, Shaped(h), NEW t, NEW r, r = begin_close(h, t)
  PROVE  Calm(r, h)
<1>1. PICK c : c = IF h.active = 0 THEN h ELSE cancel(h, t)
  OBVIOUS
<1>2. Calm(c, h)
  BY <1>1, CancelCalm, CalmSelf
<1>3. PICK x : x = [c EXCEPT !.closing = TRUE, !.queue = <<>>,
                             !.gate = close_admission(@), !.phase = "closing"]
  OBVIOUS
<1>4. Calm(x, c)
  BY <1>2, <1>3, AdmissionForms DEF Calm, Shaped, HostFields, Early
<1> QED BY <1>1, <1>2, <1>3, <1>4, CalmSelf, CalmThen DEF begin_close

\* stop_worker.
LEMMA StopCalm ==
  ASSUME NEW h, Shaped(h), NEW r, r = stop_worker(h)
  PROVE  Calm(r, h)
BY CalmSelf DEF stop_worker, Calm, Shaped, HostFields

\* A prediction is asked for, or the channel raises.
LEMMA PredictCalm ==
  ASSUME NEW h, Shaped(h), NEW r, r = predict(h)
  PROVE  Calm(r, h)
BY DEF predict, raise, Calm, Shaped, HostFields

\* An answer fills the queue or is discarded.
LEMMA TakeCalm ==
  ASSUME NEW h, Shaped(h), NEW m, NEW r, r = take_prediction(h, m)
  PROVE  Calm(r, h)
BY DEF take_prediction, Calm, Shaped, HostFields

-----------------------------------------------------------------------------
(* The records *)

RecordFields == {"state", "result", "output", "disposition"}

\* What a finished record says.
IsTrue(x) ==
  /\ x.state # "running" /\ x.disposition = "released"
  /\ \/ x.result = TRUE /\ x.output = "accepted"
     \/ x.result = FALSE /\ x.output # "accepted"

\* What a record says of an operation that was not told how it ended.
IsOpen(x) == x.state = "running" /\ x.result = FALSE

IsSequence(s) == \E S : s \in Seq(S)

Written(h) ==
  /\ IsSequence(h.records)
  /\ \A i \in DOMAIN h.records : RecordFields \subseteq DOMAIN h.records[i]

\* No finished record is wrong, whatever was raised.
Kept(h) ==
  /\ Shaped(h)
  /\ \A i \in DOMAIN h.records : h.records[i].state = "running" \/ IsTrue(h.records[i])

\* Between two calls the active operation is the one that is not finished.
Sound(h) ==
  /\ Shaped(h) /\ Written(h)
  /\ \A i \in DOMAIN h.records :
       IF i = h.active THEN IsOpen(h.records[i]) ELSE IsTrue(h.records[i])
  /\ h.active = 0 \/ h.active \in DOMAIN h.records
  /\ h.phase \in Early => h.active = 0

Ok(h) == Kept(h) /\ (h.raised = "no" => Sound(h))

\* A sound host is right.
LEMMA SoundOk ==
  ASSUME NEW h, Sound(h)
  PROVE  Ok(h)
BY DEF Sound, Ok, Kept, IsOpen

\* Calls that leave the records alone keep a host right, also after an exception.
LEMMA CalmOk ==
  ASSUME NEW h, Ok(h), NEW r, Calm(r, h)
  PROVE  Ok(r)
BY DEF Ok, Kept, Sound, Written, Calm

\* They keep it sound.
LEMMA CalmSound ==
  ASSUME NEW h, Sound(h), NEW r, Calm(r, h)
  PROVE  Sound(r)
BY DEF Sound, Written, Calm

\* The places of a sequence.
LEMMA SequenceHas ==
  ASSUME NEW s, IsSequence(s)
  PROVE  Len(s) \in Nat /\ DOMAIN s = 1..Len(s)
BY DEF IsSequence

\* One place of a sequence written anew.
LEMMA SequenceWith ==
  ASSUME NEW s, IsSequence(s), NEW i \in DOMAIN s, NEW x, NEW q, q = [s EXCEPT ![i] = x]
  PROVE  /\ IsSequence(q) /\ DOMAIN q = DOMAIN s /\ q[i] = x
         /\ \A j \in DOMAIN s : j # i => q[j] = s[j]
<1>1. PICK S : s \in Seq(S)
  BY DEF IsSequence
<1>2. s \in Seq(S \cup {x}) /\ x \in S \cup {x}
  BY <1>1
<1>3. q \in Seq(S \cup {x}) /\ DOMAIN q = DOMAIN s
  BY <1>2
<1> QED BY <1>3 DEF IsSequence

\* One more place of a sequence.
LEMMA SequenceAnd ==
  ASSUME NEW s, IsSequence(s), NEW x, NEW q, q = Append(s, x)
  PROVE  /\ IsSequence(q) /\ DOMAIN q = 1..Len(s) + 1 /\ q[Len(s) + 1] = x
         /\ Len(s) + 1 # 0 /\ Len(s) + 1 \notin DOMAIN s
         /\ \A j \in DOMAIN q : j # Len(s) + 1 => j \in DOMAIN s /\ q[j] = s[j]
<1>1. PICK S : s \in Seq(S)
  BY DEF IsSequence
<1>2. s \in Seq(S \cup {x}) /\ x \in S \cup {x}
  BY <1>1
<1>3. q \in Seq(S \cup {x})
  BY <1>2
<1> QED BY <1>2, <1>3 DEF IsSequence

\* What the record has of a result that was told to the gate.
Disposed(h) ==
  /\ Shaped(h) /\ Written(h)
  /\ h.active \in DOMAIN h.records
  /\ h.records[h.active].state = "running"
  /\ \/ h.records[h.active].result = TRUE /\ h.gate.receipt.output = "accepted"
     \/ h.records[h.active].result = FALSE /\ h.gate.receipt.output # "accepted"
  /\ \A i \in DOMAIN h.records \ {h.active} : IsTrue(h.records[i])

\* dispose_result: the record has the result when the gate has accepted it.
LEMMA DisposeSteps ==
  ASSUME NEW h, Sound(h), h.active # 0, NEW b, NEW t1, NEW t2,
         NEW r, r = dispose_result(h, b, t1, t2)
  PROVE  Kept(r) /\ (r.raised = "no" => Disposed(r) /\ h.raised = "no")
<1>1. PICK a, e, staged : /\ a = h.active
             /\ e = [authority |-> authority(h), record |-> record(h, ResultSinkObserver, t1)]
             /\ staged = [h EXCEPT !.records[h.active].result = TRUE, !.sequence = @ + 1]
  OBVIOUS
<1>2. PICK x : x = tick(retract(staged), t2)
  OBVIOUS
<1>3. /\ a \in DOMAIN h.records /\ IsOpen(h.records[a]) /\ Shaped(h) /\ Written(h)
      /\ RecordFields \subseteq DOMAIN h.records[a]
      /\ \A i \in DOMAIN h.records \ {a} : IsTrue(h.records[i])
  BY <1>1 DEF Sound, Written
\* A call that leaves the records alone and ends without an accepted output.
<1>4. ASSUME NEW y, Shaped(y), y.records = h.records, y.active = a,
             y.raised = "no" => h.raised = "no",
             y.raised = "no" => y.gate.receipt.output # "accepted"
      PROVE  Kept(y) /\ (y.raised = "no" => Disposed(y) /\ h.raised = "no")
  BY <1>3, <1>4 DEF Kept, Disposed, IsOpen, Written
<1>5. ASSUME NEW reason, NEW t, r = not_delivered(h, reason, t)
      PROVE  Kept(r) /\ (r.raised = "no" => Disposed(r) /\ h.raised = "no")
  <2>1. Calm(r, h) /\ (r.raised = "no" => r.gate.receipt.output # "accepted")
    BY <1>3, <1>5, NotDeliveredCalm
  <2> QED BY <1>1, <1>4, <2>1 DEF Calm
<1>6. ASSUME r = [staged EXCEPT !.gate = observe_output_accepted(@, e)],
             accepts_output(h.gate, e)
      PROVE  Kept(r) /\ (r.raised = "no" => Disposed(r) /\ h.raised = "no")
  <2>1. PICK y : y = [h.records[a] EXCEPT !.result = TRUE]
    OBVIOUS
  <2>2. PICK g : g = observe_output_accepted(h.gate, e)
    OBVIOUS
  <2>3. /\ y.state = "running" /\ y.result = TRUE /\ RecordFields \subseteq DOMAIN y
    BY <1>3, <2>1 DEF IsOpen, RecordFields
  <2>4. Formed(g) /\ g.receipt.output = "accepted"
    BY <1>3, <1>6, <2>2, OutputForms DEF Shaped
  <2>5. /\ r.records = [h.records EXCEPT ![a] = y] /\ r.active = a /\ r.gate = g
        /\ r.raised = h.raised /\ DOMAIN r = DOMAIN h
    BY <1>1, <1>3, <1>6, <2>1, <2>2 DEF Shaped, HostFields
  <2>6. /\ IsSequence(r.records) /\ DOMAIN r.records = DOMAIN h.records /\ r.records[a] = y
        /\ \A j \in DOMAIN h.records : j # a => r.records[j] = h.records[j]
    BY <1>3, <2>5, SequenceWith DEF Written
  <2>7. \A i \in DOMAIN r.records : RecordFields \subseteq DOMAIN r.records[i]
    BY <1>3, <2>3, <2>6 DEF Written
  <2> QED BY <1>3, <2>3, <2>4, <2>5, <2>6, <2>7 DEF Kept, Disposed, Written, Shaped
<1>7. /\ Shaped(x) /\ x.active = a
      /\ x.raised = "no" => h.raised = "no"
      /\ x.records = h.records
  <2>1. PICK s : s = retract(staged)
    OBVIOUS
  <2>2. /\ DOMAIN s = DOMAIN h /\ s.gate = h.gate /\ s.active = a /\ s.raised = h.raised
        /\ s.records = [staged.records EXCEPT ![a].result = FALSE]
        /\ staged.records = [h.records EXCEPT ![a].result = TRUE]
    BY <1>1, <1>3, <2>1 DEF retract, Shaped, HostFields
  <2>3. s.records = h.records
    BY <1>3, <2>2 DEF IsOpen, RecordFields
  <2>4. Calm(x, s)
    BY <1>2, <1>3, <2>1, <2>2, TickCalm DEF Shaped
  <2> QED BY <2>2, <2>3, <2>4 DEF Calm
<1>8. ASSUME r = raise(x, "evidence")
      PROVE  Kept(r) /\ (r.raised = "no" => Disposed(r) /\ h.raised = "no")
  <2>1. Shaped(r) /\ r.records = h.records /\ r.active = a /\ r.raised = "evidence"
    BY <1>7, <1>8 DEF raise, Shaped, HostFields
  <2> QED BY <1>4, <2>1
<1>9. ASSUME r = not_delivered(x, "authority_revoked", t2)
      PROVE  Kept(r) /\ (r.raised = "no" => Disposed(r) /\ h.raised = "no")
  <2>1. Calm(r, x) /\ (r.raised = "no" => r.gate.receipt.output # "accepted")
    BY <1>7, <1>9, NotDeliveredCalm
  <2> QED BY <1>4, <1>7, <2>1 DEF Calm
<1>10. \/ r = not_delivered(h, "no_output", t1) \/ r = not_delivered(h, "authority_revoked", t1)
       \/ r = [staged EXCEPT !.gate = observe_output_accepted(@, e)] /\ accepts_output(h.gate, e)
       \/ r = raise(x, "evidence")
       \/ r = not_delivered(x, "authority_revoked", t2)
  BY <1>1, <1>2 DEF dispose_result, then
<1> QED BY <1>5, <1>6, <1>8, <1>9, <1>10

\* settle: the record is finished with what the gate says.
LEMMA SettleSteps ==
  ASSUME NEW h, Kept(h), h.raised = "no", Disposed(h), NEW t, NEW r, r = settle(h, t)
  PROVE  /\ Kept(r)
         /\ r.raised = "no" =>
              /\ Shaped(r) /\ Written(r) /\ h.active # 0
              /\ \A i \in DOMAIN r.records : IsTrue(r.records[i])
<1>1. PICK a, e : /\ a = h.active
                  /\ e = [authority |-> authority(h), permits_same_domain_admission |-> TRUE,
                          record |-> record(h, SettlementSource, t)]
  OBVIOUS
<1>2. PICK g : g = observe_settlement(h.gate, e)
  OBVIOUS
<1>3. PICK x : x = accepted(h, accepts_settlement(h.gate, e), g)
  OBVIOUS
<1>4. /\ Formed(g) /\ g.receipt.output = h.gate.receipt.output
      /\ accepts_settlement(h.gate, e) => g.receipt.disposition = "released"
  BY <1>2, SettlementForms DEF Disposed, Shaped
<1>5. /\ Calm(x, h)
      /\ x.raised = "no" => accepts_settlement(h.gate, e) /\ x.gate = g
  BY <1>3, <1>4, AcceptedCalm DEF Disposed
<1>6. r = IF x.raised # "no" THEN x
          ELSE [x EXCEPT !.records[x.active] =
                  [@ EXCEPT !.state = "finished", !.output = x.gate.receipt.output,
                            !.disposition = x.gate.receipt.disposition]]
  <2>1. r = unless_raised(x, LAMBDA v : [v EXCEPT !.records[h.active] =
                  [@ EXCEPT !.state = "finished", !.output = v.gate.receipt.output,
                            !.disposition = v.gate.receipt.disposition]])
    BY ONLY <1>1, <1>2, <1>3, r = settle(h, t) DEF settle
  <2>2. x.active = h.active
    BY <1>5 DEF Calm
  <2> QED BY ONLY <2>1, <2>2 DEF unless_raised, then
<1>7. CASE x.raised # "no"
  BY <1>5, <1>6, <1>7 DEF Calm, Kept
<1>8. CASE x.raised = "no"
  <2>1. /\ x.active = a /\ a \in DOMAIN h.records /\ x.records = h.records
        /\ x.gate = g /\ g.receipt.disposition = "released" /\ Shaped(x) /\ Written(h)
        /\ RecordFields \subseteq DOMAIN h.records[a]
        /\ \A i \in DOMAIN h.records \ {a} : IsTrue(h.records[i])
    BY <1>1, <1>4, <1>5, <1>8 DEF Calm, Disposed, Written
  <2>2. PICK y : y = [h.records[a] EXCEPT !.state = "finished", !.output = g.receipt.output,
                                           !.disposition = g.receipt.disposition]
    OBVIOUS
  <2>3. IsTrue(y) /\ RecordFields \subseteq DOMAIN y
    BY <1>1, <1>4, <2>1, <2>2 DEF Disposed, IsTrue, RecordFields
  <2>4. /\ r.records = [h.records EXCEPT ![a] = y] /\ r.gate = g /\ DOMAIN r = DOMAIN x
    BY <1>6, <1>8, <2>1, <2>2 DEF Shaped, HostFields
  <2>5. /\ IsSequence(r.records) /\ DOMAIN r.records = DOMAIN h.records /\ r.records[a] = y
        /\ \A j \in DOMAIN h.records : j # a => r.records[j] = h.records[j]
    BY <2>1, <2>4, SequenceWith DEF Written
  <2>6. \A i \in DOMAIN r.records : IsTrue(r.records[i])
    BY <2>1, <2>3, <2>5
  <2>7. \A i \in DOMAIN r.records : RecordFields \subseteq DOMAIN r.records[i]
    BY <2>1, <2>3, <2>5 DEF Written
  <2>8. a # 0
    <3>1. IsSequence(h.records)
      BY <2>1 DEF Written
    <3> QED BY <2>1, <3>1, SequenceHas
  <2> QED BY <1>1, <1>4, <2>1, <2>4, <2>5, <2>6, <2>7, <2>8 DEF Kept, Written, Shaped
<1> QED BY <1>7, <1>8

\* release: no operation is active, and all records are finished.
LEMMA ReleaseOk ==
  ASSUME NEW h, Shaped(h), Written(h), \A i \in DOMAIN h.records : IsTrue(h.records[i]),
         NEW reason, NEW t, NEW r, r = release(h, reason, t)
  PROVE  Ok(r)
<1>0. PICK b, p, x :
        /\ x = [h EXCEPT !.backend = b, !.active = 0, !.fixed_action = 0, !.phase = p]
        /\ r = refresh_capability(x, TRUE, t) \/ r = x
  BY DEF release
<1>1. /\ r = refresh_capability(x, TRUE, t) \/ r = x
      /\ x.records = h.records /\ DOMAIN x = DOMAIN h /\ x.gate = h.gate
      /\ x.active = 0
  BY <1>0 DEF Shaped, HostFields
<1>2. /\ Shaped(x) /\ Written(x) /\ IsSequence(x.records)
      /\ \A i \in DOMAIN x.records : IsTrue(x.records[i])
  BY <1>1 DEF Shaped, Written
<1>3. 0 \notin DOMAIN x.records
  BY <1>2, SequenceHas
<1>4. Sound(x)
  BY <1>1, <1>2, <1>3 DEF Sound
<1>5. Calm(refresh_capability(x, TRUE, t), x)
  BY <1>2, RefreshCalm
<1> QED BY <1>1, <1>4, <1>5, SoundOk, CalmOk

\* finish, of the active operation.
LEMMA FinishOk ==
  ASSUME NEW h, Sound(h), h.active # 0, NEW reason, NEW is_native, NEW t,
         NEW r, r = finish(h, reason, is_native, t)
  PROVE  Ok(r)
<1>1. PICK a : a = [tick(h, t[1]) EXCEPT !.queue = <<>>]
  OBVIOUS
<1>2. Calm(a, h) /\ Shaped(a)
  <2>1. Calm(tick(h, t[1]), h)
    BY TickCalm DEF Sound
  <2> QED BY <1>1, <2>1 DEF Calm, Shaped, HostFields
<1>3. PICK w : w = withdraw_capability(a, t[1])
  OBVIOUS
<1>4. Calm(w, a) /\ Shaped(w)
  BY <1>2, <1>3, WithdrawCalm DEF Calm
<1>5. PICK n : n = IF ~can_finish(w.backend) THEN raise(w, "recording")
                   ELSE IF is_native THEN native(w, outcome_of(reason), t[2])
                   ELSE w
  OBVIOUS
<1>6. Calm(n, w)
  <2>1. Calm(raise(w, "recording"), w)
    BY <1>4 DEF raise, Calm, Shaped, HostFields
  <2> QED BY <1>4, <1>5, <2>1, NativeCalm, CalmSelf
<1>7. PICK x : x = IF w.raised # "no" THEN w ELSE n
  OBVIOUS
<1>8. Calm(x, h) /\ Sound(x) /\ x.active # 0
  <2>1. Calm(x, h)
    BY <1>2, <1>4, <1>6, <1>7, CalmThen
  <2> QED BY <2>1, CalmSound DEF Calm
<1>9. PICK delivers : delivers = (reason = "completed")
  OBVIOUS
<1>10. PICK d : d = dispose_result(x, delivers, t[2], t[3])
  OBVIOUS
<1>11. Kept(d) /\ (d.raised = "no" => Disposed(d) /\ x.raised = "no")
  BY <1>8, <1>10, DisposeSteps
<1>12. PICK y : y = IF x.raised # "no" THEN x ELSE d
  OBVIOUS
<1>13. PICK s : s = settle(y, t[3])
  OBVIOUS
<1>14. PICK z : z = IF y.raised # "no" THEN y ELSE s
  OBVIOUS
<1>15. PICK f : f = release(z, reason, t[3])
  OBVIOUS
<1>16. Kept(x)
  BY <1>8, SoundOk DEF Ok
<1>17. Kept(y) /\ (y.raised = "no" => Disposed(y))
  BY <1>11, <1>12, <1>16
<1>18. /\ Kept(z)
       /\ z.raised = "no" => /\ Shaped(z) /\ Written(z)
                             /\ \A i \in DOMAIN z.records : IsTrue(z.records[i])
  <2>1. CASE y.raised # "no"
    BY <1>14, <1>17, <2>1
  <2>2. CASE y.raised = "no"
    BY <1>13, <1>14, <1>17, <2>2, SettleSteps
  <2> QED BY <2>1, <2>2
<1>19. z.raised = "no" => Ok(f)
  BY <1>15, <1>18, ReleaseOk
<1>20. z.raised # "no" => Ok(z)
  BY <1>18 DEF Ok
<1>21. CASE h.prediction # {}
  <2>1. r = raise(h, "prediction")
    BY <1>21 DEF finish
  <2>2. Calm(r, h)
    BY <2>1 DEF raise, Calm, Shaped, HostFields, Sound
  <2> QED BY <2>2, SoundOk, CalmOk
<1>22. CASE h.prediction = {}
  <2>1. r = unless_raised(unless_raised(unless_raised(unless_raised(w,
              LAMBDA v : IF ~can_finish(v.backend) THEN raise(v, "recording")
                  ELSE IF is_native THEN native(v, outcome_of(reason), t[2])
                  ELSE v),
              LAMBDA v : dispose_result(v, reason = "completed", t[2], t[3])),
              LAMBDA v : settle(v, t[3])),
              LAMBDA v : release(v, reason, t[3]))
    BY ONLY <1>1, <1>3, <1>22, r = finish(h, reason, is_native, t) DEF finish
  <2>2. unless_raised(w, LAMBDA v : IF ~can_finish(v.backend) THEN raise(v, "recording")
                  ELSE IF is_native THEN native(v, outcome_of(reason), t[2])
                  ELSE v) = x
    BY ONLY <1>5, <1>7 DEF unless_raised, then
  <2>3. unless_raised(x, LAMBDA v : dispose_result(v, reason = "completed", t[2], t[3])) = y
    BY ONLY <1>9, <1>10, <1>12 DEF unless_raised, then
  <2>4. unless_raised(y, LAMBDA v : settle(v, t[3])) = z
    BY ONLY <1>13, <1>14 DEF unless_raised, then
  <2>5. unless_raised(z, LAMBDA v : release(v, reason, t[3])) = IF z.raised # "no" THEN z ELSE f
    BY ONLY <1>15 DEF unless_raised, then
  <2>6. r = IF z.raised # "no" THEN z ELSE f
    BY ONLY <2>1, <2>2, <2>3, <2>4, <2>5
  <2> QED BY <1>19, <1>20, <2>6
<1> QED BY <1>21, <1>22

\* An effect that was never dispatched is settled as such.
Unsubmitted(h, reason, t, u) ==
  unless_raised(non_submission(h, t), LAMBDA y : finish(y, reason, FALSE, u))

LEMMA UnsubmittedOk ==
  ASSUME NEW h, Sound(h), h.active # 0, NEW reason, NEW t, NEW u,
         NEW r, r = Unsubmitted(h, reason, t, u)
  PROVE  Ok(r)
<1>1. PICK y : y = non_submission(h, t)
  OBVIOUS
<1>2. Calm(y, h)
  BY <1>1, NonSubmissionCalm DEF Sound
<1>3. Sound(y) /\ y.active # 0
  BY <1>2, CalmSound DEF Calm
<1>4. PICK b : b = FALSE
  OBVIOUS
<1>5. Ok(finish(y, reason, b, u))
  BY <1>3, FinishOk
<1>6. finish(y, reason, FALSE, u) = finish(y, reason, b, u)
  BY ONLY <1>4
<1>7. r = unless_raised(y, LAMBDA v : finish(v, reason, FALSE, u))
  BY ONLY <1>1, r = Unsubmitted(h, reason, t, u) DEF Unsubmitted
<1>8. r = IF y.raised # "no" THEN y ELSE finish(y, reason, FALSE, u)
  BY ONLY <1>7 DEF unless_raised, then
<1> QED BY <1>3, <1>5, <1>6, <1>8, SoundOk

\* The host with a new record, before its operation begins.
Admitted(h, skill, q) ==
  [h EXCEPT !.gate = admit(@, q), !.phase = "running", !.active = Len(h.records) + 1,
            !.records = Append(@, new_record(h.gate.next_operation_id, skill))]

\* Its record is open, and the ones before it stay.
LEMMA AdmittedSound ==
  ASSUME NEW h, Sound(h), h.active = 0, NEW skill, NEW q, NEW x, x = Admitted(h, skill, q)
  PROVE  /\ Sound(x) /\ x.active # 0 /\ DOMAIN x.records = 1..Len(h.records) + 1
         /\ x.records[x.active] = new_record(h.gate.next_operation_id, skill)
         /\ \A j \in DOMAIN x.records :
              j # x.active => j \in DOMAIN h.records /\ x.records[j] = h.records[j]
         /\ \A j \in DOMAIN h.records : j \in DOMAIN x.records /\ x.records[j] = h.records[j]
<1>1. PICK n : n = new_record(h.gate.next_operation_id, skill)
  OBVIOUS
<1>2. /\ DOMAIN x = DOMAIN h /\ x.gate = admit(h.gate, q) /\ x.phase = "running"
      /\ x.active = Len(h.records) + 1 /\ x.records = Append(h.records, n)
      /\ Shaped(h) /\ Written(h) /\ IsSequence(h.records)
  BY <1>1 DEF Admitted, Sound, Shaped, HostFields, Written
<1>3. IsOpen(n) /\ RecordFields \subseteq DOMAIN n
  BY <1>1 DEF new_record, IsOpen, RecordFields
<1>4. /\ IsSequence(x.records) /\ x.active \in DOMAIN x.records
      /\ x.records[x.active] = n
      /\ x.active # 0 /\ DOMAIN x.records = 1..Len(h.records) + 1
      /\ \A j \in DOMAIN x.records :
           j # x.active => j \in DOMAIN h.records /\ x.records[j] = h.records[j]
  <2>1. Len(h.records) \in Nat
    BY <1>2, SequenceHas
  <2>2. PICK k : k = Len(h.records) + 1
    OBVIOUS
  <2>3. k \in 1..Len(h.records) + 1
    BY <2>1, <2>2
  <2>4. PICK s, z : s = h.records /\ z = Append(s, n)
    OBVIOUS
  <2>5. IsSequence(s)
    BY <1>2, <2>4
  <2>6. /\ IsSequence(z) /\ DOMAIN z = 1..Len(s) + 1 /\ z[Len(s) + 1] = n
        /\ Len(s) + 1 # 0
        /\ \A j \in DOMAIN z : j # Len(s) + 1 => j \in DOMAIN s /\ z[j] = s[j]
    <3>1. IsSequence(z)
      BY ONLY <2>4, <2>5, SequenceAnd
    <3>2. DOMAIN z = 1..Len(s) + 1
      BY ONLY <2>4, <2>5, SequenceAnd
    <3>3. z[Len(s) + 1] = n /\ Len(s) + 1 # 0
      BY ONLY <2>4, <2>5, SequenceAnd
    <3>4. \A j \in DOMAIN z : j # Len(s) + 1 => j \in DOMAIN s /\ z[j] = s[j]
      BY ONLY <2>4, <2>5, SequenceAnd
    <3> QED BY ONLY <3>1, <3>2, <3>3, <3>4
  <2>7. k = Len(s) + 1 /\ x.records = z /\ x.active = k
    BY <1>2, <2>2, <2>4
  <2>8. k \in DOMAIN z
    BY <2>3, <2>4, <2>6
  <2> QED BY ONLY <2>4, <2>6, <2>7, <2>8
<1>5. \A j \in DOMAIN h.records : IsTrue(h.records[j])
  <2>1. 0 \notin DOMAIN h.records
    BY <1>2, SequenceHas
  <2> QED BY <2>1 DEF Sound
<1>6. Shaped(x)
  BY <1>2, AdmissionForms DEF Shaped
<1>7. Written(x)
  BY <1>2, <1>3, <1>4 DEF Written
<1>8. Sound(x)
  BY <1>2, <1>3, <1>4, <1>5, <1>6, <1>7 DEF Sound, Early
<1>9. ASSUME NEW j \in DOMAIN h.records
      PROVE  j \in DOMAIN x.records /\ x.records[j] = h.records[j]
  <2>1. Len(h.records) \in Nat /\ DOMAIN h.records = 1..Len(h.records)
    BY <1>2, SequenceHas
  <2>2. j \in 1..Len(h.records) + 1 /\ j # Len(h.records) + 1
    BY <2>1
  <2> QED BY <1>2, <1>4, <2>2
<1> QED BY <1>1, <1>4, <1>8, <1>9

\* submit: a new record is open, and the host was idle.
LEMMA StartOk ==
  ASSUME NEW h, Sound(h), h.active = 0, NEW skill, NEW q, NEW begins, NEW t,
         NEW r, r = start(h, skill, q, begins, t)
  PROVE  Ok(r)
<1>1. PICK x : x = Admitted(h, skill, q)
  OBVIOUS
<1>2. Sound(x) /\ Shaped(x) /\ x.active # 0
  BY <1>1, AdmittedSound DEF Sound
<1>3. PICK y : y = [x EXCEPT
          !.backend = begin_operation(@, skill),
          !.fixed_action = IF skill = "hold" THEN h.last_action ELSE 0]
  OBVIOUS
<1>4. Calm(y, x)
  BY <1>2, <1>3 DEF Calm, Shaped, HostFields
<1>5. PICK c : c = [y EXCEPT !.gate = claim_dispatch(@, authority(y), t[2])]
  OBVIOUS
<1>6. Calm(c, y) /\ Shaped(c)
  BY <1>4, <1>5, ClaimForms DEF Calm, Shaped, HostFields
<1>7. PICK k : k = native(c, "accepted", t[3])
  OBVIOUS
<1>8. Calm(k, x)
  BY <1>4, <1>6, <1>7, NativeCalm, CalmThen
<1>9. PICK f : f = fail_worker(x, t[2])
  OBVIOUS
<1>10. Calm(f, x)
  BY <1>2, <1>9, FailCalm
<1>11. Sound(y) /\ Sound(f) /\ y.active # 0 /\ f.active # 0
  BY <1>2, <1>4, <1>10, CalmSound DEF Calm
<1>12. PICK u : u = <<t[3], t[3], t[3]>>
  OBVIOUS
<1>13. PICK v, w :
        /\ v = Unsubmitted(y, "not_submitted", t[2], u)
        /\ w = Unsubmitted(f, "worker_error", t[2], u)
  OBVIOUS
<1>14. Ok(v) /\ Ok(w)
  BY <1>11, <1>13, UnsubmittedOk
<1>15. CASE begins
  <2>1. r = then(y, LAMBDA z :
              IF claims_dispatch(z.gate, authority(z), t[2])
                THEN native([z EXCEPT !.gate = claim_dispatch(@, authority(z), t[2])],
                            "accepted", t[3])
                ELSE Unsubmitted(z, "not_submitted", t[2], u))
    BY ONLY <1>1, <1>3, <1>12, <1>15, r = start(h, skill, q, begins, t)
       DEF start, Unsubmitted, Admitted
  <2>2. r = IF claims_dispatch(y.gate, authority(y), t[2])
              THEN native([y EXCEPT !.gate = claim_dispatch(@, authority(y), t[2])],
                          "accepted", t[3])
              ELSE Unsubmitted(y, "not_submitted", t[2], u)
    BY ONLY <2>1 DEF then
  <2>3. r = k \/ r = v
    BY ONLY <2>2, <1>5, <1>7, <1>13
  <2> QED BY <1>2, <1>8, <1>14, <2>3, SoundOk, CalmOk
<1>16. CASE ~begins
  <2>1. r = unless_raised(f, LAMBDA z : Unsubmitted(z, "worker_error", t[2], u))
    BY ONLY <1>1, <1>9, <1>12, <1>16, r = start(h, skill, q, begins, t)
       DEF start, Unsubmitted, Admitted
  <2>2. r = IF f.raised # "no" THEN f ELSE Unsubmitted(f, "worker_error", t[2], u)
    BY ONLY <2>1 DEF unless_raised, then
  <2>3. r = f \/ r = w
    BY ONLY <2>2, <1>13
  <2> QED BY <1>11, <1>14, <2>3, SoundOk
<1> QED BY <1>15, <1>16

\* The message of a worker that is ready finds no operation.
LEMMA InitializeOk ==
  ASSUME NEW h, Sound(h), h.phase = "starting", NEW t, NEW r, r = initialize(h, t)
  PROVE  Ok(r)
<1>1. PICK a : a = [h EXCEPT !.worker_ready = TRUE]
  OBVIOUS
<1>2. Calm(a, h) /\ Shaped(a)
  BY <1>1 DEF Calm, Shaped, HostFields, Sound
<1>3. PICK b : b = startup(a, "idle", t)
  OBVIOUS
<1>4. PICK c : c = IF b.raised # "no" THEN b ELSE startup(b, "worker", t)
  OBVIOUS
<1>5. PICK d : d = IF c.raised # "no" THEN c ELSE startup(c, "sink", t)
  OBVIOUS
<1>6. PICK able : able = TRUE
  OBVIOUS
<1>7. PICK e : e = IF d.raised # "no" THEN d ELSE refresh_capability(d, able, t)
  OBVIOUS
<1>8. PICK f : f = IF e.raised # "no" THEN e ELSE [e EXCEPT !.phase = "ready"]
  OBVIOUS
<1>9. r = f
  <2>1. r = unless_raised(unless_raised(unless_raised(unless_raised(b,
              LAMBDA x : startup(x, "worker", t)), LAMBDA x : startup(x, "sink", t)),
              LAMBDA x : refresh_capability(x, TRUE, t)),
              LAMBDA x : [x EXCEPT !.phase = "ready"])
    BY ONLY <1>1, <1>3, r = initialize(h, t) DEF initialize
  <2>2. unless_raised(b, LAMBDA x : startup(x, "worker", t)) = c
    BY ONLY <1>4 DEF unless_raised, then
  <2>3. unless_raised(c, LAMBDA x : startup(x, "sink", t)) = d
    BY ONLY <1>5 DEF unless_raised, then
  <2>4. unless_raised(d, LAMBDA x : refresh_capability(x, TRUE, t)) = e
    BY ONLY <1>6, <1>7 DEF unless_raised, then
  <2>5. unless_raised(e, LAMBDA x : [x EXCEPT !.phase = "ready"]) = f
    BY ONLY <1>8 DEF unless_raised, then
  <2> QED BY ONLY <2>1, <2>2, <2>3, <2>4, <2>5
<1>10. Calm(b, a) /\ Shaped(b)
  BY <1>2, <1>3, StartupCalm DEF Calm
<1>11. Calm(c, b) /\ Shaped(c)
  BY <1>4, <1>10, StartupCalm, CalmSelf DEF Calm
<1>12. Calm(d, c) /\ Shaped(d)
  BY <1>5, <1>11, StartupCalm, CalmSelf DEF Calm
<1>13. Calm(e, d)
  BY <1>7, <1>12, RefreshCalm, CalmSelf
<1>14. Calm(e, h)
  BY <1>2, <1>10, <1>11, <1>12, <1>13, CalmThen
<1>15. Sound(e) /\ e.active = 0
  BY <1>14, CalmSound DEF Sound, Early, Calm
<1>16. Sound(f)
  BY <1>8, <1>15 DEF Sound, Shaped, HostFields, Written
<1> QED BY <1>9, <1>16, SoundOk

\* worker_message: a greeting, an answer, or anything else.
LEMMA MessageOk ==
  ASSUME NEW h, Sound(h), NEW m, NEW t, NEW r, r = worker_message(h, m, t)
  PROVE  Ok(r)
<1>1. Shaped(h) /\ Ok(h)
  BY SoundOk DEF Sound
<1>2. CASE is_greeting(h, m)
  BY <1>2, InitializeOk DEF worker_message, is_greeting
<1>3. CASE r = take_prediction(h, m)
  BY <1>1, <1>3, TakeCalm, CalmOk
<1>4. CASE r = lose_worker(h, t)
  BY <1>1, <1>4, LoseCalm, CalmOk
<1> QED BY <1>2, <1>3, <1>4 DEF worker_message

\* A message is not read after an exception.
LEMMA HearOk ==
  ASSUME NEW h, Ok(h), NEW m, NEW t, NEW r, r = hear(h, m, t)
  PROVE  Ok(r)
BY MessageOk DEF hear, Ok

\* The hosts between the messages.
Listening(after, h, messages, t, k) ==
  after = [n \in 0..k |-> IF n = 0 THEN h ELSE hear(after[n - 1], messages[n], t)]

\* There are such hosts for every number of messages.
LEMMA ListeningExists ==
  ASSUME NEW h, NEW messages, NEW t, NEW k \in Nat
  PROVE  \E after : Listening(after, h, messages, t, k)
<1> DEFINE S == {n \in Nat : ~\E after : Listening(after, h, messages, t, n)}
<1>1. SUFFICES ASSUME S # {} PROVE FALSE
  OBVIOUS
<1>2. PICK m \in S : \A n \in S : m <= n
  <2> HIDE DEF S
  <2>1. S \in SUBSET Nat
    BY DEF S
  <2> QED BY <1>1, <2>1, LeastNatural
<1>3. CASE m = 0
  <2>1. Listening([n \in 0..0 |-> h], h, messages, t, 0)
    BY DEF Listening
  <2> QED BY <1>2, <1>3, <2>1
<1>4. CASE m # 0
  <2>1. m - 1 \in Nat /\ m - 1 \notin S
    BY <1>2, <1>4
  <2>2. PICK g : Listening(g, h, messages, t, m - 1)
    BY <2>1
  <2> DEFINE q == [n \in 0..m |-> IF n = m THEN hear(g[m - 1], messages[m], t) ELSE g[n]]
  <2>3. \A n \in 0..m - 1 : g[n] = IF n = 0 THEN h ELSE hear(g[n - 1], messages[n], t)
    BY <2>2, Zenon DEF Listening
  <2>4. ASSUME NEW n \in 0..m
        PROVE  q[n] = IF n = 0 THEN h ELSE hear(q[n - 1], messages[n], t)
    <3>1. CASE n = m
      BY <3>1, <1>4, <2>1
    <3>2. CASE n # m
      BY <3>2, <2>1, <2>3
    <3> QED BY <3>1, <3>2
  <2>5. Listening(q, h, messages, t, m)
    <3> HIDE DEF q
    <3>1. q = [n \in 0..m |-> q[n]]
      BY DEF q
    <3> QED BY <2>4, <3>1 DEF Listening
  <2> QED BY <1>2, <2>5
<1> QED BY <1>3, <1>4

\* All messages that wait are read.
LEMMA HeardOk ==
  ASSUME NEW h, Ok(h), NEW messages, IsSequence(messages), NEW t,
         NEW r, r = heard(h, messages, t)
  PROVE  Ok(r)
<1> DEFINE L == Len(messages)
           after == CHOOSE a : a = [n \in 0..L |->
                      IF n = 0 THEN h ELSE hear(a[n - 1], messages[n], t)]
<1>1. L \in Nat
  BY SequenceHas
<1>2. r = after[L]
  BY DEF heard
<1>3. \E a : a = [n \in 0..L |-> IF n = 0 THEN h ELSE hear(a[n - 1], messages[n], t)]
  <2> HIDE DEF L
  <2>1. \E a : Listening(a, h, messages, t, L)
    BY <1>1, ListeningExists
  <2> QED BY <2>1, Zenon DEF Listening
<1>4. after = [n \in 0..L |-> IF n = 0 THEN h ELSE hear(after[n - 1], messages[n], t)]
  <2> HIDE DEF L
  <2> QED BY <1>3, Zenon
<1> HIDE DEF after
<1>5. \A n \in 0..L : after[n] = IF n = 0 THEN h ELSE hear(after[n - 1], messages[n], t)
  BY <1>4, Zenon
<1> DEFINE S == {n \in 0..L : ~Ok(after[n])}
<1>6. S = {}
  <2>1. SUFFICES ASSUME S # {} PROVE FALSE
    OBVIOUS
  <2>2. S \in SUBSET Nat
    BY <1>1
  <2>3. PICK m \in S : \A n \in S : m <= n
    <3> HIDE DEF S
    <3> QED BY <2>1, <2>2, LeastNatural
  <2>4. m # 0
    BY <1>1, <1>5, <2>3
  <2>5. m \in 1..L /\ m - 1 \in 0..L /\ m - 1 \notin S
    BY <1>1, <2>3, <2>4
  <2>6. Ok(after[m - 1])
    BY <2>5
  <2>7. after[m] = hear(after[m - 1], messages[m], t)
    BY <1>5, <2>4, <2>5
  <2>8. Ok(after[m])
    <3>1. PICK u : u = after[m - 1]
      OBVIOUS
    <3>2. PICK v : v = messages[m]
      OBVIOUS
    <3> QED BY <2>6, <2>7, <3>1, <3>2, HearOk
  <2> QED BY <2>3, <2>8
<1> QED BY <1>1, <1>2, <1>6

\* What follows an effect, and what follows the loss of the authority.
AfterEffect(h, reason, t) == IF reason = "none" THEN h ELSE finish(h, reason, TRUE, t)

AfterLoss(h, t) ==
  IF h.prediction # {} THEN h
  ELSE finish(h, IF h.failure THEN "worker_error" ELSE "cancelled", TRUE, t)

\* step: one effect, and what it ends.
LEMMA StepOk ==
  ASSUME NEW h, Sound(h), h.active # 0, NEW fails, NEW reason, NEW t,
         NEW r, r = step(h, fails, reason, t)
  PROVE  Ok(r)
<1>1. PICK p : p = IF h.fixed_action # 0 THEN h ELSE [h EXCEPT !.queue = Tail(@)]
  OBVIOUS
<1>2. Calm(p, h) /\ Shaped(p)
  BY <1>1 DEF Calm, Shaped, HostFields, Sound
<1>3. PICK action : action = IF h.fixed_action # 0 THEN h.fixed_action ELSE Head(h.queue)
  OBVIOUS
<1>4. PICK s : s = [p EXCEPT !.backend.steps = @ + 1, !.last_action = action]
  OBVIOUS
<1>5. Calm(s, p) /\ Shaped(s)
  BY <1>2, <1>4 DEF Calm, Shaped, HostFields
<1>6. PICK x : x = IF s.backend.steps = 1 THEN native(s, "started", t[2]) ELSE s
  OBVIOUS
<1>7. Calm(x, s)
  BY <1>5, <1>6, NativeCalm, CalmSelf
<1>8. PICK w, f : /\ w = [p EXCEPT !.backend.valid = FALSE]
                  /\ f = fail_worker(w, t[2])
  OBVIOUS
<1>9. Calm(w, p) /\ Shaped(w)
  BY <1>2, <1>8 DEF Calm, Shaped, HostFields
<1>10. Calm(f, w)
  BY <1>8, <1>9, FailCalm
<1>11. Calm(x, h) /\ Calm(f, h)
  BY <1>2, <1>5, <1>7, <1>9, <1>10, CalmThen
<1>12. Sound(x) /\ Sound(f) /\ x.active # 0
  BY <1>11, CalmSound DEF Calm
<1>13. PICK b, u : b = TRUE /\ u = Tail(t)
  OBVIOUS
<1>14. PICK e : e = finish(x, reason, b, u)
  OBVIOUS
<1>15. Ok(e)
  BY <1>12, <1>14, FinishOk
<1>16. r = f \/ r = x \/ r = e
  <2>1. CASE fails
    <3>1. r = fail_worker([(IF h.fixed_action # 0 THEN h ELSE [h EXCEPT !.queue = Tail(@)])
                             EXCEPT !.backend.valid = FALSE], t[2])
      BY ONLY <2>1, r = step(h, fails, reason, t) DEF step
    <3>2. r = f
      BY ONLY <3>1, <1>1, <1>8
    <3> QED BY <3>2
  <2>2. CASE ~fails
    <3>1. r = unless_raised(x, LAMBDA v : AfterEffect(v, reason, u))
      BY ONLY <2>2, <1>1, <1>3, <1>4, <1>6, <1>13, r = step(h, fails, reason, t)
         DEF step, AfterEffect
    <3>2. r = IF x.raised # "no" THEN x ELSE AfterEffect(x, reason, u)
      BY ONLY <3>1 DEF unless_raised, then
    <3>3. AfterEffect(x, reason, u) = IF reason = "none" THEN x ELSE e
      BY ONLY <1>13, <1>14 DEF AfterEffect
    <3> QED BY ONLY <3>2, <3>3
  <2> QED BY <2>1, <2>2
<1> QED BY <1>12, <1>15, <1>16, SoundOk

\* advance: what the loop does for the operation in a turn.
LEMMA AdvanceOk ==
  ASSUME NEW h, Sound(h), NEW fails, NEW reason, NEW t,
         NEW r, r = advance(h, fails, reason, t)
  PROVE  Ok(r)
<1>1. PICK a : a = tick(h, t[1])
  OBVIOUS
<1>2. Calm(a, h) /\ Sound(a) /\ Shaped(a)
  <2>1. Calm(a, h)
    BY <1>1, TickCalm DEF Sound
  <2> QED BY <2>1, CalmSound DEF Calm
<1>3. PICK x, c, d : /\ x = [a EXCEPT !.queue = <<>>]
                     /\ c = cancel(a, t[2])
                     /\ d = [c EXCEPT !.queue = <<>>]
  OBVIOUS
<1>4. Calm(c, a) /\ Shaped(c)
  <2>1. Calm(c, a)
    BY <1>2, <1>3, CancelCalm
  <2> QED BY <2>1 DEF Calm
<1>5. Calm(x, a) /\ Calm(d, c)
  BY <1>2, <1>3, <1>4 DEF Calm, Shaped, HostFields
<1>6. PICK p : p = predict(a)
  OBVIOUS
<1>7. Calm(p, a)
  BY <1>2, <1>6, PredictCalm
<1>8. Sound(x) /\ Sound(d) /\ Sound(p)
  BY <1>2, <1>4, <1>5, <1>7, CalmThen, CalmSound
<1>9. PICK b, u, k : /\ b = TRUE /\ u = Tail(t)
                     /\ k = IF x.failure THEN "worker_error" ELSE "cancelled"
  OBVIOUS
<1>10. PICK f, s : f = finish(x, k, b, u) /\ s = step(a, fails, reason, u)
  OBVIOUS
<1>11. h.active # 0 => Ok(f) /\ Ok(s)
  <2>1. h.active # 0 => x.active # 0 /\ a.active # 0
    BY <1>2, <1>5 DEF Calm
  <2>2. h.active # 0 => Ok(f)
    BY <1>8, <1>10, <2>1, FinishOk
  <2>3. h.active # 0 => Ok(s)
    BY <1>2, <1>10, <2>1, StepOk
  <2> QED BY <2>2, <2>3
<1>12. CASE h.active = 0
  BY <1>12, SoundOk DEF advance
<1>13. CASE h.active # 0 /\ ~has_authority(h, t[1])
  <2>1. r = then(x, LAMBDA v : AfterLoss(v, u))
    BY ONLY <1>1, <1>3, <1>9, <1>13, r = advance(h, fails, reason, t)
       DEF advance, AfterLoss
  <2>2. r = AfterLoss(x, u)
    BY ONLY <2>1 DEF then
  <2>3. AfterLoss(x, u) = x \/ AfterLoss(x, u) = f
    BY ONLY <1>9, <1>10 DEF AfterLoss
  <2>4. r = x \/ r = f
    BY ONLY <2>2, <2>3
  <2> QED BY <1>8, <1>11, <1>13, <2>4, SoundOk
<1>14. CASE h.active # 0 /\ has_authority(h, t[1])
  <2>1. r = d \/ r = a \/ r = p \/ r = s
    <3>1. PICK y : y = supports_execution(tick(h, t[1]).gate,
                          [profile_id |-> profile,
                           work_units |-> Steps[h.records[h.active].skill]], t[2])
      OBVIOUS
    <3>2. r = IF ~y THEN [cancel(tick(h, t[1]), t[2]) EXCEPT !.queue = <<>>]
              ELSE IF tick(h, t[1]).prediction # {} THEN tick(h, t[1])
              ELSE IF tick(h, t[1]).queue = <<>> /\ tick(h, t[1]).fixed_action = 0
                THEN predict(tick(h, t[1]))
              ELSE step(tick(h, t[1]), fails, reason, Tail(t))
      BY ONLY <1>14, <3>1, r = advance(h, fails, reason, t) DEF advance
    <3>3. r = IF ~y THEN d
              ELSE IF a.prediction # {} THEN a
              ELSE IF a.queue = <<>> /\ a.fixed_action = 0 THEN p
              ELSE s
      BY ONLY <3>2, <1>1, <1>3, <1>6, <1>9, <1>10
    <3> QED BY ONLY <3>3
  <2> QED BY <1>2, <1>8, <1>11, <1>14, <2>1, SoundOk
<1> QED BY <1>12, <1>13, <1>14

-----------------------------------------------------------------------------
(* Between two steps *)

\* What is forgotten between two steps is not in the records.
LEMMA ForgottenCalm ==
  ASSUME NEW h, Shaped(h), NEW r, r = forgotten(h)
  PROVE  Calm(r, h)
<1>1. PICK g, x : /\ g = IF h.active = 0 /\ has_receipt(h.gate)
                           THEN [h.gate EXCEPT !.receipt = closed_receipt(@)] ELSE h.gate
                  /\ x = [h EXCEPT !.gate.receipt =
                            IF h.active = 0 /\ has_receipt(h.gate)
                              THEN closed_receipt(@) ELSE @]
  OBVIOUS
<1>2. Formed(g)
  BY <1>1, AgedForms DEF Shaped
<1>3. /\ DOMAIN x = DOMAIN h /\ Formed(x.gate) /\ x.records = h.records
      /\ x.active = h.active /\ x.raised = h.raised /\ x.phase = h.phase
  <2>1. x.gate = [h.gate EXCEPT !.receipt = IF h.active = 0 /\ has_receipt(h.gate)
                                              THEN closed_receipt(@) ELSE @]
    BY <1>1 DEF Shaped, HostFields
  <2>2. x.gate = IF h.active = 0 /\ has_receipt(h.gate)
                   THEN [h.gate EXCEPT !.receipt = closed_receipt(@)]
                   ELSE [h.gate EXCEPT !.receipt = @]
    BY ONLY <2>1
  <2>3. Formed([h.gate EXCEPT !.receipt = @])
    BY DEF Shaped, Formed
  <2>4. Formed(x.gate)
    BY ONLY <1>1, <1>2, <2>2, <2>3
  <2> QED BY <1>1, <2>4 DEF Shaped, HostFields
<1>4. Calm(x, h) /\ Shaped(x)
  BY <1>3 DEF Calm, Shaped
<1>5. PICK c, b, e :
        e = [x EXCEPT !.gate.capabilities = {}, !.next_capability = 0, !.asked = <<>>,
                      !.last_action = 0, !.close_rpc = c, !.backend = b]
        /\ c = (x.close_rpc /\ h.peer_alive)
        /\ b = IF h.active = 0
                 THEN [new_backend(x.backend.profile) EXCEPT !.closed = x.backend.closed]
                 ELSE x.backend
  OBVIOUS
<1>6. Calm(e, x) /\ Shaped(e)
  <2>1. /\ DOMAIN e = DOMAIN x /\ e.records = x.records /\ e.active = x.active
        /\ e.raised = x.raised /\ e.phase = x.phase
        /\ e.gate = [x.gate EXCEPT !.capabilities = {}]
    BY <1>4, <1>5 DEF Shaped, HostFields
  <2>2. Formed(e.gate)
    BY <1>4, <2>1 DEF Shaped, Formed
  <2> QED BY <1>4, <2>1, <2>2 DEF Calm, Shaped
<1>7. PICK k : k = IF h.closing \/ h.failure THEN e ELSE x
  OBVIOUS
<1>8. Calm(k, h) /\ Shaped(k)
  BY <1>4, <1>6, <1>7, CalmThen
<1>9. PICK s : s = [k EXCEPT !.grace = "off", !.killed = FALSE, !.shutdown_sent = FALSE]
  OBVIOUS
<1>10. Calm(s, k)
  BY <1>8, <1>9 DEF Calm, Shaped, HostFields
<1>11. r = IF is_reaped THEN s ELSE k
  BY ONLY <1>1, <1>5, <1>7, <1>9, r = forgotten(h) DEF forgotten
<1> QED BY <1>8, <1>10, <1>11, CalmThen

\* Between two calls the host is one whose records are right.
Records ==
  /\ Ok(host) /\ (pc # "raised" => host.raised = "no")
  /\ "replies" \in DOMAIN worker /\ IsSequence(worker.replies)

\* A call and what is forgotten after it.
LEMMA TurnKeeps ==
  ASSUME NEW result, Ok(result), NEW f, Turns(result, f),
         "replies" \in DOMAIN worker', IsSequence(worker.replies)'
  PROVE  Records'
<1>1. PICK x : x = [result EXCEPT !.gate = aged(@), !.sequence = 1]
  OBVIOUS
<1>2. Shaped(result)
  BY DEF Ok, Kept
<1>3. Calm(x, result) /\ Shaped(x)
  <2>1. Formed(aged(result.gate))
    BY <1>2, AgedForms DEF Shaped
  <2> QED BY <1>1, <1>2, <2>1 DEF Calm, Shaped, HostFields
<1>4. host' = forgotten(x) /\ (pc' # "raised" => host'.raised = "no")
  BY <1>1 DEF Turns, Becomes
<1>5. PICK y : y = forgotten(x)
  OBVIOUS
<1>6. Calm(y, x)
  BY <1>3, <1>5, ForgottenCalm
<1>7. Ok(y)
  BY <1>3, <1>6, CalmOk
<1>8. host' = y
  BY <1>4, <1>5
<1>9. Ok(host)'
  BY <1>7, <1>8
<1> QED BY <1>4, <1>9 DEF Records

\* The host begins without a record.
LEMMA InitRecords == Init => Records
<1> SUFFICES ASSUME Init PROVE Records
  OBVIOUS
<1>1. PICK p : host = new_host(p)
  BY DEF Init
<1>2. /\ HostFields \subseteq DOMAIN host /\ host.gate = initial_gate
      /\ host.records = <<>> /\ host.active = 0 /\ host.raised = "no"
      /\ host.phase = "starting"
  BY <1>1 DEF new_host, HostFields
<1>3. Formed(host.gate)
  BY <1>2 DEF initial_gate, NoReceipt, new_receipt, Formed, ReceiptFields
<1>4. IsSequence(<<>>) /\ DOMAIN <<>> = {}
  <2>1. <<>> \in Seq({})
    OBVIOUS
  <2> QED BY <2>1 DEF IsSequence
<1>5. Sound(host)
  BY <1>2, <1>3, <1>4 DEF Sound, Shaped, Written
<1>6. "replies" \in DOMAIN worker /\ worker.replies = <<>>
  BY DEF Init, new_worker
<1> QED BY <1>2, <1>4, <1>5, <1>6, SoundOk DEF Records

-----------------------------------------------------------------------------
(* One lemma per action *)

\* Between two calls nothing was raised.
LEMMA HostSound ==
  ASSUME Records, pc # "raised"
  PROVE  Sound(host) /\ Shaped(host)
BY DEF Records, Ok, Sound

\* A turn that leaves the worker alone.
LEMMA QuietTurn ==
  ASSUME Records, UNCHANGED worker, NEW result, Ok(result), NEW f, Turns(result, f)
  PROVE  Records'
<1>1. "replies" \in DOMAIN worker' /\ IsSequence(worker.replies)'
  BY DEF Records
<1> QED BY <1>1, TurnKeeps

\* The client is gone.
LEMMA LosePeerKeeps == ASSUME Records, LosePeer PROVE Records'
<1>1. PICK t, h, r : /\ h = [host EXCEPT !.peer_alive = FALSE] /\ r = begin_close(h, t[1])
                     /\ Turns(r, "commands")
  BY DEF LosePeer
<1>2. Sound(host) /\ Shaped(host)
  BY HostSound DEF LosePeer, Serves
<1>3. Calm(h, host) /\ Shaped(h)
  BY <1>1, <1>2 DEF Calm, Shaped, HostFields
<1>4. Calm(r, h)
  BY <1>1, <1>3, BeginCloseCalm
<1>5. Ok(r)
  BY <1>2, <1>3, <1>4, SoundOk, CalmOk
<1> QED BY <1>1, <1>5, QuietTurn DEF LosePeer

\* close.
LEMMA CloseKeeps == ASSUME Records, Close PROVE Records'
<1>1. PICK t, h, r : /\ h = [host EXCEPT !.close_rpc = TRUE] /\ r = begin_close(h, t[1])
                     /\ Turns(r, "commands")
  BY DEF Close
<1>2. Sound(host) /\ Shaped(host)
  BY HostSound DEF Close, Serves
<1>3. Calm(h, host) /\ Shaped(h)
  BY <1>1, <1>2 DEF Calm, Shaped, HostFields
<1>4. Calm(r, h)
  BY <1>1, <1>3, BeginCloseCalm
<1>5. Ok(r)
  BY <1>2, <1>3, <1>4, SoundOk, CalmOk
<1> QED BY <1>1, <1>5, QuietTurn DEF Close

\* cancel.
LEMMA CancelKeeps == ASSUME Records, Cancel PROVE Records'
<1>1. PICK t, h, r : /\ h = cancel(host, t[1]) /\ r = [h EXCEPT !.queue = <<>>]
                     /\ Turns(r, "commands")
  BY DEF Cancel
<1>2. Sound(host) /\ Shaped(host)
  BY HostSound DEF Cancel, Serves
<1>3. Calm(h, host) /\ Shaped(h)
  <2>1. Calm(h, host)
    BY <1>1, <1>2, CancelCalm
  <2> QED BY <2>1 DEF Calm
<1>4. Calm(r, h)
  BY <1>1, <1>3 DEF Calm, Shaped, HostFields
<1>5. Ok(r)
  BY <1>2, <1>3, <1>4, SoundOk, CalmOk
<1> QED BY <1>1, <1>5, QuietTurn DEF Cancel

\* submit, which finds no active operation as the host is ready.
LEMMA SubmitKeeps == ASSUME Records, Submit PROVE Records'
<1>1. PICK t, skill, q, begins, r :
        /\ r = start(host, skill, q, begins, t)
        /\ Turns(r, "commands") /\ is_ready_for(host, skill)
  BY DEF Submit
<1>2. Sound(host) /\ host.active = 0
  <2>1. Sound(host)
    BY HostSound DEF Submit, Serves
  <2>2. host.phase \in Early
    BY <1>1 DEF is_ready_for, Early
  <2> QED BY <2>1, <2>2 DEF Sound
<1>3. Ok(r)
  BY <1>1, <1>2, StartOk
<1> QED BY <1>1, <1>3, QuietTurn DEF Submit

\* reset, which makes the host ready again without an active operation.
LEMMA ResetKeeps == ASSUME Records, Reset PROVE Records'
<1>1. PICK t, b, h : h = [host EXCEPT !.backend = b, !.last_action = 0,
                                      !.fixed_action = 0, !.phase = "ready"]
                     /\ b = reset(host.backend)
                     /\ \E fails : Turns(IF fails THEN fail_worker(host, t[1])
                                         ELSE refresh_capability(h, TRUE, t[1]), "commands")
  BY DEF Reset
<1>2. Sound(host) /\ Shaped(host) /\ host.active = 0
  BY HostSound DEF Reset, Serves
<1>3. PICK fails : Turns(IF fails THEN fail_worker(host, t[1])
                         ELSE refresh_capability(h, TRUE, t[1]), "commands")
  BY <1>1
<1>4. PICK able : able = TRUE
  OBVIOUS
<1>5. PICK x, y : x = fail_worker(host, t[1]) /\ y = refresh_capability(h, able, t[1])
  OBVIOUS
<1>6. PICK r : r = IF fails THEN x ELSE y
  OBVIOUS
<1>7. Turns(r, "commands")
  BY <1>3, <1>4, <1>5, <1>6
<1>8. Sound(h) /\ Shaped(h)
  BY <1>1, <1>2 DEF Sound, Shaped, HostFields, Written
<1>9. Calm(x, host) /\ Calm(y, h)
  BY <1>2, <1>5, <1>8, FailCalm, RefreshCalm
<1>10. Ok(r)
  BY <1>2, <1>6, <1>8, <1>9, SoundOk, CalmOk
<1> QED BY <1>7, <1>10, QuietTurn DEF Reset

\* pump: every message that waits is heard.
LEMMA ReadRepliesKeeps == ASSUME Records, ReadReplies PROVE Records'
<1>1. PICK t, h, is_read :
        /\ h = [host EXCEPT !.outbox = <<>>]
        /\ Turns(IF is_read THEN heard(h, worker.replies, t[1])
                 ELSE IF host.channel THEN lose_worker(host, t[1])
                 ELSE host, "watch")
  BY DEF ReadReplies
<1>2. Sound(host) /\ Shaped(host)
  BY HostSound DEF ReadReplies
<1>3. PICK x, y : x = heard(h, worker.replies, t[1]) /\ y = lose_worker(host, t[1])
  OBVIOUS
<1>4. PICK r : r = IF is_read THEN x ELSE IF host.channel THEN y ELSE host
  OBVIOUS
<1>5. Turns(r, "watch")
  BY <1>1, <1>3, <1>4
<1>6. Calm(h, host)
  BY <1>1, <1>2 DEF Calm, Shaped, HostFields
<1>7. Ok(h) /\ Ok(host)
  BY <1>2, <1>6, SoundOk, CalmOk
<1>8. Ok(x)
  BY <1>3, <1>7, HeardOk DEF Records
<1>9. Calm(y, host)
  BY <1>2, <1>3, LoseCalm
<1>10. Ok(r)
  BY <1>4, <1>7, <1>8, <1>9, CalmOk
<1>11. IsSequence(<<>>)
  <2>1. <<>> \in Seq({})
    OBVIOUS
  <2> QED BY <2>1 DEF IsSequence
<1>12. "replies" \in DOMAIN worker' /\ IsSequence(worker.replies)'
  BY <1>11 DEF ReadReplies, Records
<1> QED BY <1>5, <1>10, <1>12, TurnKeeps

\* The polls of the worker and of its budgets.
LEMMA WatchKeeps == ASSUME Records, Watch PROVE Records'
<1>1. Sound(host) /\ Shaped(host)
  BY HostSound DEF Watch
<1>2. PICK t, late :
        LET lost == IF host.closing THEN host ELSE fail_worker(host, t[1])
            polled == IF ~is_reaped THEN host
                      ELSE unless_raised(lost, LAMBDA x : [x EXCEPT !.prediction = {}])
            stopped == IF host.failure \/ host.closing THEN stop_worker(polled) ELSE polled
        IN  Turns(IF late THEN fail_worker(stopped, t[1]) ELSE stopped, "advance")
  BY DEF Watch
<1>3. PICK a : a = IF host.closing THEN host ELSE fail_worker(host, t[1])
  OBVIOUS
<1>4. Calm(a, host) /\ Shaped(a)
  <2>1. Calm(a, host)
    BY <1>1, <1>3, FailCalm, CalmSelf
  <2> QED BY <2>1 DEF Calm
<1>5. PICK b : b = unless_raised(a, LAMBDA x : [x EXCEPT !.prediction = {}])
  OBVIOUS
<1>6. Calm(b, a)
  <2>1. b = IF a.raised # "no" THEN a ELSE [a EXCEPT !.prediction = {}]
    BY ONLY <1>5 DEF unless_raised, then
  <2> QED BY <1>4, <2>1 DEF Calm, Shaped, HostFields
<1>7. PICK p : p = IF ~is_reaped THEN host ELSE b
  OBVIOUS
<1>8. Calm(p, host) /\ Shaped(p)
  <2>1. Calm(p, host)
    BY <1>1, <1>4, <1>6, <1>7, CalmSelf, CalmThen
  <2> QED BY <2>1 DEF Calm
<1>9. PICK s : s = IF host.failure \/ host.closing THEN stop_worker(p) ELSE p
  OBVIOUS
<1>10. Calm(s, p) /\ Shaped(s)
  <2>1. Calm(s, p)
    BY <1>8, <1>9, StopCalm, CalmSelf
  <2> QED BY <2>1 DEF Calm
<1>11. PICK r : r = IF late THEN fail_worker(s, t[1]) ELSE s
  OBVIOUS
<1>12. Calm(r, s)
  BY <1>10, <1>11, FailCalm, CalmSelf
<1>13. Turns(r, "advance")
  BY ONLY <1>2, <1>3, <1>5, <1>7, <1>9, <1>11
<1>14. Ok(r)
  BY <1>1, <1>8, <1>10, <1>12, SoundOk, CalmOk
<1>15. "replies" \in DOMAIN worker' /\ IsSequence(worker.replies)'
  <2>1. worker' = worker \/ \E x : worker' = [worker EXCEPT !.signal = x]
    BY DEF Watch
  <2>2. "replies" \in DOMAIN worker' /\ worker'.replies = worker.replies
    BY <2>1 DEF Records
  <2> QED BY <2>2 DEF Records
<1> QED BY <1>13, <1>14, <1>15, TurnKeeps

\* advance.
LEMMA AdvanceKeeps == ASSUME Records, Advance PROVE Records'
<1>1. PICK t, fails, reason, r :
        r = advance(host, fails, reason, t) /\ Turns(r, "close")
  BY DEF Advance
<1>2. Ok(r)
  BY <1>1, HostSound, AdvanceOk DEF Advance
<1> QED BY <1>1, <1>2, QuietTurn DEF Advance

\* The end of a turn, and of the loop.
LEMMA EndTurnKeeps == ASSUME Records, EndTurn PROVE Records'
<1>0. PICK b, c, d : /\ b = TRUE /\ c = (host.close_rpc /\ ~(host.peer_alive /\ host.close_rpc))
                     /\ d = IF host.flush = "off" THEN "running" ELSE host.flush
  OBVIOUS
<1>6. PICK e, h : /\ e = [host EXCEPT !.backend.closed = b, !.close_rpc = c, !.flush = d]
                  /\ h = IF host.closing /\ is_reaped THEN e ELSE host
  OBVIOUS
<1>7. h = IF host.closing /\ is_reaped
            THEN [host EXCEPT
                    !.backend.closed = TRUE,
                    !.close_rpc = @ /\ ~(host.peer_alive /\ host.close_rpc),
                    !.flush = IF @ = "off" THEN "running" ELSE @]
            ELSE host
  BY ONLY <1>0, <1>6
<1>8. PICK t, f :
        Turns(maintain_capability(
                IF host.closing /\ is_reaped
                  THEN [host EXCEPT
                          !.backend.closed = TRUE,
                          !.close_rpc = @ /\ ~(host.peer_alive /\ host.close_rpc),
                          !.flush = IF @ = "off" THEN "running" ELSE @]
                  ELSE host, t[1]), f)
  BY DEF EndTurn
<1>9. PICK r : r = maintain_capability(h, t[1])
  OBVIOUS
<1>1. Turns(r, f)
  BY ONLY <1>7, <1>8, <1>9
<1>2. Sound(host) /\ Shaped(host)
  BY HostSound DEF EndTurn
<1>3. Calm(h, host) /\ Shaped(h)
  BY <1>6, <1>2 DEF Calm, Shaped, HostFields
<1>4. Calm(r, h)
  BY <1>9, <1>3, MaintainCalm
<1>5. Ok(r)
  BY <1>2, <1>3, <1>4, SoundOk, CalmOk
<1> QED BY <1>1, <1>5, QuietTurn DEF EndTurn

\* A budget runs out.
LEMMA BudgetKeeps == ASSUME Records, GraceEnds \/ FlushEnds PROVE Records'
<1>1. PICK h : /\ h = [host EXCEPT !.grace = "over"] \/ h = [host EXCEPT !.flush = "over"]
               /\ host' = h /\ UNCHANGED <<worker, pc>>
  BY DEF GraceEnds, FlushEnds
<1>2. Ok(host) /\ Shaped(host)
  BY DEF Records, Ok, Kept
<1>3. Calm(h, host) /\ h.raised = host.raised
  BY <1>1, <1>2 DEF Calm, Shaped, HostFields
<1>4. Ok(h)
  BY <1>2, <1>3, CalmOk
<1>5. Ok(host)'
  BY <1>1, <1>4
<1> QED BY <1>1, <1>3, <1>5 DEF Records

\* The worker, or a program in its place, writes another message or none.
LEMMA WorkerKeeps == ASSUME Records, Worker PROVE Records'
<1>1. UNCHANGED <<host, pc>>
  BY DEF Worker, Greet, Receive, Answer, Leave, ExitWorker, Misbehave
<1>2. "replies" \in DOMAIN worker /\ IsSequence(worker.replies)
  BY DEF Records
<1>3. ASSUME NEW w, "replies" \in DOMAIN w
      PROVE  /\ DOMAIN left(w) = DOMAIN w /\ left(w).replies = w.replies
             /\ DOMAIN gone(w) = DOMAIN w /\ gone(w).replies = w.replies
  BY <1>3 DEF left, gone
<1>4. "replies" \in DOMAIN worker'
      /\ \/ worker'.replies = worker.replies
         \/ \E m : worker'.replies = Append(worker.replies, m)
         \/ \E m : worker'.replies = <<m>>
  <2>1. CASE Greet
    BY <1>2, <2>1 DEF Greet
  <2>2. CASE Receive
    BY <1>2, <1>3, <2>2 DEF Receive
  <2>3. CASE Answer
    BY <1>2, <2>3 DEF Answer
  <2>4. CASE Leave \/ ExitWorker
    BY <1>2, <1>3, <2>4 DEF Leave, ExitWorker
  <2>5. CASE Misbehave
    BY <1>2, <1>3, <2>5 DEF Misbehave
  <2> QED BY <2>1, <2>2, <2>3, <2>4, <2>5 DEF Worker
<1>5. \A m : IsSequence(<<m>>)
  <2>1. \A m : <<m>> \in Seq({m})
    OBVIOUS
  <2> QED BY <2>1 DEF IsSequence
<1>6. IsSequence(worker'.replies)
  BY <1>2, <1>4, <1>5, SequenceAnd
<1>7. PICK s : s = worker'.replies
  OBVIOUS
<1>8. IsSequence(worker.replies)'
  BY <1>6
<1>9. Ok(host)' /\ (pc' # "raised" => host'.raised = "no")
  BY <1>1 DEF Records
<1> QED BY <1>4, <1>8, <1>9 DEF Records

\* Every step keeps the records right.
LEMMA StepRecords == Records /\ [Next]_vars => Records'
<1> SUFFICES ASSUME Records, [Next]_vars PROVE Records'
  OBVIOUS
<1>1. CASE UNCHANGED vars
  BY <1>1 DEF vars, Records
<1>2. CASE Commands
  BY <1>2, SubmitKeeps, CancelKeeps, ResetKeeps, CloseKeeps, LosePeerKeeps DEF Commands
<1>3. CASE Loop
  BY <1>3, ReadRepliesKeeps, WatchKeeps, AdvanceKeeps, EndTurnKeeps DEF Loop
<1>4. CASE GraceEnds \/ FlushEnds
  BY <1>4, BudgetKeeps
<1>5. CASE Worker
  BY <1>5, WorkerKeeps
<1> QED BY <1>1, <1>2, <1>3, <1>4, <1>5 DEF Next

\* Whatever a worker, a client and a backend do, and whatever is raised in between:
\* a record that says its operation is finished says that it was released, and has
\* a result exactly when the gate knows it as delivered; one that is not finished
\* belongs to the active operation, unless the loop is over (dispose_result and
\* settle of _execution.py, finish of _host.py).
THEOREM RecordsAreAlwaysTrue == Spec => []RecordsAreTrue
<1>1. Records => RecordsAreTrue
  BY DEF Records, Ok, Kept, Sound, IsTrue, RecordsAreTrue, is_over
<1> QED BY <1>1, InitRecords, StepRecords, PTL DEF Spec

-----------------------------------------------------------------------------
(* The effects of the Python host.  While an operation is active the gate      *)
(* holds it: a call of the gate keeps its identity, and once it is revoked it   *)
(* is not current any more.                                                    *)

\* The fields that the following is about.
GateKeys == {"receipt", "binding", "next_operation_id"}

\* Those of an authority.
AuthorityKeys == {"operation_id", "binding", "admitted_at"}

\* Those of a receipt.
ReceiptKeys ==
  {"authority", "dispatch", "acceptance", "outcome", "output", "reason", "settlement",
   "disposition", "deadline", "dispatched_at", "cancelled_at", "expired_at",
   "withdrawn_at", "stop_requested_at", "stop_acknowledgement", "native_identity",
   "requirements", "evidence"}

\* A receipt, and a gate, that has them.
WholeReceipt(s) == ReceiptKeys \subseteq DOMAIN s /\ AuthorityKeys \subseteq DOMAIN s.authority

Whole(g) == GateKeys \subseteq DOMAIN g /\ WholeReceipt(g.receipt)

\* All evidence has a time.
Dated(s) ==
  /\ DOMAIN s.evidence = EvidenceKind
  /\ \A k \in EvidenceKind : \A x \in s.evidence[k] : "observed_at" \in DOMAIN x

\* A receipt whose operation is not settled, and is not current when it is revoked.
Held(s) ==
  /\ s.settlement = "pending" /\ s.withdrawn_at = {} /\ s.disposition # "released"
  /\ s.disposition = "current" => ~is_revoked(s)
  /\ (\A d \in s.deadline : d \in Int) /\ Dated(s)

\* What a call leaves of a receipt.
Stays(s, r) ==
  /\ WholeReceipt(s)
  /\ s.authority = r.authority
  /\ Held(r) => Held(s)
  /\ is_revoked(r) => is_revoked(s)

\* A call of the gate about the operation it has.
Holds(q, g) ==
  /\ Whole(q) /\ q.next_operation_id = g.next_operation_id /\ q.binding = g.binding
  /\ Stays(q.receipt, g.receipt)

\* The disposition follows what was written.
LEMMA RefreshStays ==
  ASSUME NEW r, NEW s, WholeReceipt(s), s.authority = r.authority,
         s.settlement = r.settlement, s.withdrawn_at = r.withdrawn_at,
         s.deadline = r.deadline, Dated(r) => Dated(s),
         is_revoked(r) => is_revoked(s)
  PROVE  Stays(refresh_authority_disposition(s), r)
<1>1. PICK d, q : d = authority_disposition(s) /\ q = [s EXCEPT !.disposition = d]
  OBVIOUS
<1>2. /\ DOMAIN q = DOMAIN s /\ q.disposition = d /\ q.authority = s.authority
      /\ q.settlement = s.settlement /\ q.withdrawn_at = s.withdrawn_at
      /\ q.deadline = s.deadline /\ (Dated(s) => Dated(q))
      /\ q.cancelled_at = s.cancelled_at /\ q.expired_at = s.expired_at
  BY <1>1 DEF WholeReceipt, ReceiptKeys, Dated
<1>3. is_revoked(q) <=> is_revoked(s)
  BY <1>2 DEF is_revoked, revocations
<1>4. s.settlement = "pending" => d # "released" /\ (d = "current" => ~is_revoked(s))
  BY <1>1 DEF authority_disposition, has_resolved_closure
<1> QED BY <1>1, <1>2, <1>3, <1>4
        DEF Stays, WholeReceipt, Held, refresh_authority_disposition

\* The gate with such a receipt.
LEMMA StaysHolds ==
  ASSUME NEW g, Whole(g), NEW s, Stays(s, g.receipt)
  PROVE  Holds([g EXCEPT !.receipt = s], g)
BY DEF Whole, GateKeys, Holds, Stays

\* Nothing is called.
LEMMA HoldsSelf ==
  ASSUME NEW g, Whole(g)
  PROVE  Holds(g, g)
BY DEF Holds, Stays, Whole

\* revoke: the receipt is not current any more.
LEMMA RevokeStays ==
  ASSUME NEW r, NEW s, WholeReceipt(s), s.authority = r.authority,
         s.settlement = r.settlement, s.withdrawn_at = r.withdrawn_at,
         s.deadline = r.deadline, Dated(r) => Dated(s),
         is_revoked(s), NEW t
  PROVE  Stays(revoke(s, t), r) /\ is_revoked(revoke(s, t))
<1>1. PICK x : x = IF should_request_native_stop(s)
                     THEN [s EXCEPT !.stop_requested_at = {t}, !.stop_acknowledgement = "pending"]
                     ELSE s
  OBVIOUS
<1>2. /\ WholeReceipt(x) /\ x.authority = s.authority /\ x.settlement = s.settlement
      /\ x.withdrawn_at = s.withdrawn_at /\ x.cancelled_at = s.cancelled_at
      /\ x.deadline = s.deadline /\ (Dated(s) => Dated(x))
      /\ x.expired_at = s.expired_at
  BY <1>1 DEF WholeReceipt, ReceiptKeys, Dated
<1>3. is_revoked(x)
  BY <1>2 DEF is_revoked, revocations
<1>4. Stays(refresh_authority_disposition(x), r)
  BY <1>2, <1>3, RefreshStays
<1>5. Stays(refresh_authority_disposition(x), x)
  BY <1>2, RefreshStays
<1>6. revoke(s, t) = refresh_authority_disposition(x)
  BY ONLY <1>1 DEF revoke
<1> QED BY <1>3, <1>4, <1>5, <1>6 DEF Stays

\* request_cancel: an operation that the gate can control is revoked.
LEMMA CancelHolds ==
  ASSUME NEW g, Whole(g), NEW a, NEW t, NEW q, q = request_cancel(g, a, t)
  PROVE  /\ Holds(q, g)
         /\ is_controllable(g, a, t) => is_revoked(q.receipt)
<1>1. CASE applies_cancel(g, a, t)
  <2>1. PICK s : s = [g.receipt EXCEPT !.cancelled_at = {t}]
    OBVIOUS
  <2>2. /\ WholeReceipt(s) /\ s.authority = g.receipt.authority
        /\ s.settlement = g.receipt.settlement /\ s.withdrawn_at = g.receipt.withdrawn_at
        /\ s.deadline = g.receipt.deadline /\ (Dated(g.receipt) => Dated(s))
        /\ s.cancelled_at = {t}
    BY <2>1 DEF Whole, WholeReceipt, ReceiptKeys, Dated
  <2>3. is_revoked(s)
    BY <2>2 DEF is_revoked, revocations
  <2>4. PICK r : r = revoke(s, t)
    OBVIOUS
  <2>5. q = [g EXCEPT !.receipt = r]
    BY <1>1, <2>1, <2>4 DEF request_cancel
  <2>6. Stays(r, g.receipt) /\ is_revoked(r)
    BY <2>2, <2>3, <2>4, RevokeStays
  <2>7. q.receipt = r
    BY <2>5 DEF Whole, GateKeys
  <2> QED BY <2>5, <2>6, <2>7, StaysHolds
<1>2. CASE ~applies_cancel(g, a, t)
  BY <1>2, HoldsSelf DEF request_cancel, applies_cancel, is_revoked, revocations
<1> QED BY <1>1, <1>2

\* observe_time: an operation that the gate can control is revoked at its deadline.
LEMMA TimeHolds ==
  ASSUME NEW g, Whole(g), NEW a, NEW t, NEW q, q = observe_time(g, a, t)
  PROVE  /\ Holds(q, g)
         /\ is_controllable(g, a, t) /\ has_reached_deadline(g.receipt, t)
              => is_revoked(q.receipt)
<1>1. CASE applies_expiry(g, a, t)
  <2>1. PICK s : s = [g.receipt EXCEPT !.expired_at = {t}]
    OBVIOUS
  <2>2. /\ WholeReceipt(s) /\ s.authority = g.receipt.authority
        /\ s.settlement = g.receipt.settlement /\ s.withdrawn_at = g.receipt.withdrawn_at
        /\ s.deadline = g.receipt.deadline /\ (Dated(g.receipt) => Dated(s))
        /\ s.expired_at = {t}
    BY <2>1 DEF Whole, WholeReceipt, ReceiptKeys, Dated
  <2>3. is_revoked(s)
    BY <2>2 DEF is_revoked, revocations
  <2>4. PICK r : r = revoke(s, t)
    OBVIOUS
  <2>5. q = [g EXCEPT !.receipt = r]
    BY <1>1, <2>1, <2>4 DEF observe_time
  <2>6. Stays(r, g.receipt) /\ is_revoked(r)
    BY <2>2, <2>3, <2>4, RevokeStays
  <2>7. q.receipt = r
    BY <2>5 DEF Whole, GateKeys
  <2> QED BY <2>5, <2>6, <2>7, StaysHolds
<1>2. CASE ~applies_expiry(g, a, t)
  BY <1>2, HoldsSelf DEF observe_time, applies_expiry, is_revoked, revocations
<1> QED BY <1>1, <1>2

\* claim_dispatch.
LEMMA ClaimHolds ==
  ASSUME NEW g, Whole(g), NEW a, NEW t
  PROVE  Holds(claim_dispatch(g, a, t), g)
<1>1. CASE claims_dispatch(g, a, t)
  <2>1. PICK s : s = [g.receipt EXCEPT !.dispatch = "submitted", !.dispatched_at = {t}]
    OBVIOUS
  <2>2. /\ WholeReceipt(s) /\ s.authority = g.receipt.authority
        /\ s.settlement = g.receipt.settlement /\ s.withdrawn_at = g.receipt.withdrawn_at
        /\ s.deadline = g.receipt.deadline /\ (Dated(g.receipt) => Dated(s))
        /\ s.disposition = g.receipt.disposition
        /\ s.cancelled_at = g.receipt.cancelled_at /\ s.expired_at = g.receipt.expired_at
    BY <2>1 DEF Whole, WholeReceipt, ReceiptKeys, Dated
  <2>3. Stays(s, g.receipt)
    BY <2>2 DEF Stays, Held, is_revoked, revocations
  <2>4. claim_dispatch(g, a, t) = [g EXCEPT !.receipt = s]
    BY <1>1, <2>1 DEF claim_dispatch, Whole, GateKeys
  <2> QED BY <2>3, <2>4, StaysHolds
<1>2. CASE ~claims_dispatch(g, a, t)
  BY <1>2, HoldsSelf DEF claim_dispatch
<1> QED BY <1>1, <1>2

\* What is observed of the capabilities is not in the receipt.
LEMMA FactsHold ==
  ASSUME NEW g, Whole(g), NEW e
  PROVE  Holds(observe_startup(g, e), g) /\ Holds(observe_execution_capabilities(g, e), g)
BY DEF observe_startup, observe_execution_capabilities, Holds, Stays, Whole, GateKeys

\* What a report writes: the receipt s, refreshed.
LEMMA ReportHolds ==
  ASSUME NEW g, Whole(g), NEW s, WholeReceipt(s), s.authority = g.receipt.authority,
         s.settlement = g.receipt.settlement, s.withdrawn_at = g.receipt.withdrawn_at,
         s.deadline = g.receipt.deadline, Dated(g.receipt) => Dated(s),
         s.cancelled_at = g.receipt.cancelled_at, s.expired_at = g.receipt.expired_at
  PROVE  Holds([g EXCEPT !.receipt = refresh_authority_disposition(s)], g)
<1>1. is_revoked(g.receipt) => is_revoked(s)
  BY DEF is_revoked, revocations
<1>2. Stays(refresh_authority_disposition(s), g.receipt)
  BY <1>1, RefreshStays
<1> QED BY <1>2, StaysHolds

\* Evidence of one more kind.
Evidenced(s, r, k, x) == s.evidence = [r.evidence EXCEPT ![k] = {x}]

\* It has a time when the evidence has.
LEMMA DatedWith ==
  ASSUME NEW r, Dated(r), NEW k, NEW x, "observed_at" \in DOMAIN x, NEW s,
         Evidenced(s, r, k, x)
  PROVE  Dated(s)
BY DEF Dated, Evidenced

\* observe_native.
LEMMA NativeHolds ==
  ASSUME NEW g, Whole(g), NEW e, "observed_at" \in DOMAIN e.record
  PROVE  Holds(observe_native(g, e), g)
<1>1. CASE accepts_native(g, e)
  <2>1. PICK v, n, a, o, s :
          /\ v = IF g.receipt.evidence[e.kind] = {}
                   THEN [g.receipt.evidence EXCEPT ![e.kind] = {e.record}]
                   ELSE g.receipt.evidence
          /\ n = {e.native_identity}
          /\ a = (IF e.kind \in {"accepted", "rejected"} THEN e.kind ELSE g.receipt.acceptance)
          /\ o = native_outcome(g.receipt, e.kind, v)
          /\ s = [g.receipt EXCEPT !.evidence = v, !.native_identity = n,
                                   !.acceptance = a, !.outcome = o]
    OBVIOUS
  <2>2. /\ WholeReceipt(s) /\ s.authority = g.receipt.authority
        /\ s.settlement = g.receipt.settlement /\ s.withdrawn_at = g.receipt.withdrawn_at
        /\ s.deadline = g.receipt.deadline
        /\ s.cancelled_at = g.receipt.cancelled_at /\ s.expired_at = g.receipt.expired_at
        /\ s.evidence = v
    BY <2>1 DEF Whole, WholeReceipt, ReceiptKeys
  <2>9. Dated(g.receipt) => Dated(s)
    <3>1. PICK r, k, x : r = g.receipt /\ k = e.kind /\ x = e.record
      OBVIOUS
    <3>2. s.evidence = r.evidence \/ Evidenced(s, r, k, x)
      BY <2>1, <2>2, <3>1 DEF Evidenced
    <3>3. s.evidence = r.evidence => (Dated(r) => Dated(s))
      BY DEF Dated
    <3>4. "observed_at" \in DOMAIN x
      BY <3>1
    <3>5. Evidenced(s, r, k, x) => (Dated(r) => Dated(s))
      BY <3>4, DatedWith
    <3> QED BY <3>1, <3>2, <3>3, <3>5
  <2>3. apply_native(g.receipt, e) = refresh_authority_disposition(s)
    BY ONLY <2>1 DEF apply_native
  <2>4. PICK r : r = refresh_authority_disposition(s)
    OBVIOUS
  <2>5. PICK l, q : /\ l = {[kind |-> e.kind, record |-> e.record]}
                    /\ q = [g EXCEPT !.receipt = r]
    OBVIOUS
  <2>6. observe_native(g, e) = [g EXCEPT !.receipt = r, !.last_native = l]
    BY <1>1, <2>3, <2>4, <2>5 DEF observe_native
  <2>7. Holds(q, g)
    BY <2>2, <2>4, <2>5, <2>9, ReportHolds
  <2>8. /\ DOMAIN observe_native(g, e) = DOMAIN q /\ observe_native(g, e).receipt = q.receipt
        /\ observe_native(g, e).binding = q.binding
        /\ observe_native(g, e).next_operation_id = q.next_operation_id
    BY <2>5, <2>6 DEF Whole, GateKeys
  <2> QED BY <2>7, <2>8 DEF Holds, Whole
<1>2. CASE ~accepts_native(g, e)
  BY <1>2, HoldsSelf DEF observe_native
<1> QED BY <1>1, <1>2

\* observe_non_submission and observe_output_accepted.
LEMMA EffectsHold ==
  ASSUME NEW g, Whole(g), NEW e, "observed_at" \in DOMAIN e.record
  PROVE  /\ Holds(observe_non_submission(g, e), g)
         /\ Holds(observe_output_accepted(g, e), g)
         /\ Holds(observe_output_not_delivered(g, e), g)
<1>1. PICK s, v, u :
        /\ v = [g.receipt EXCEPT !.dispatch = "not_submitted", !.outcome = "not_executed",
                                 !.evidence["non_submission"] = {e.record}]
        /\ u = [g.receipt EXCEPT !.output = "accepted", !.evidence["output"] = {e.record}]
        /\ s = [g.receipt EXCEPT !.output = "not_delivered", !.reason = {e.reason},
                                 !.evidence["non_delivery"] = {e.record}]
  OBVIOUS
<1>2. /\ WholeReceipt(s) /\ s.authority = g.receipt.authority
      /\ s.settlement = g.receipt.settlement /\ s.withdrawn_at = g.receipt.withdrawn_at
      /\ s.deadline = g.receipt.deadline
      /\ s.cancelled_at = g.receipt.cancelled_at /\ s.expired_at = g.receipt.expired_at
  BY <1>1 DEF Whole, WholeReceipt, ReceiptKeys
<1>3. /\ WholeReceipt(v) /\ v.authority = g.receipt.authority
      /\ v.settlement = g.receipt.settlement /\ v.withdrawn_at = g.receipt.withdrawn_at
      /\ v.deadline = g.receipt.deadline
      /\ v.cancelled_at = g.receipt.cancelled_at /\ v.expired_at = g.receipt.expired_at
  BY <1>1 DEF Whole, WholeReceipt, ReceiptKeys
<1>4. /\ WholeReceipt(u) /\ u.authority = g.receipt.authority
      /\ u.settlement = g.receipt.settlement /\ u.withdrawn_at = g.receipt.withdrawn_at
      /\ u.deadline = g.receipt.deadline
      /\ u.cancelled_at = g.receipt.cancelled_at /\ u.expired_at = g.receipt.expired_at
  BY <1>1 DEF Whole, WholeReceipt, ReceiptKeys
<1>12. Dated(g.receipt) => Dated(s) /\ Dated(u) /\ Dated(v)
  <2>1. PICK r, x, n, o, d : /\ r = g.receipt /\ x = e.record /\ n = "non_submission"
                             /\ o = "output" /\ d = "non_delivery"
    OBVIOUS
  <2>2. Evidenced(v, r, n, x) /\ Evidenced(u, r, o, x) /\ Evidenced(s, r, d, x)
    BY <1>1, <2>1 DEF Whole, WholeReceipt, ReceiptKeys, Evidenced
  <2>3. "observed_at" \in DOMAIN x
    BY <2>1
  <2>4. Dated(r) => Dated(s) /\ Dated(u) /\ Dated(v)
    BY <2>2, <2>3, DatedWith
  <2> QED BY <2>1, <2>4
<1>5. Holds([g EXCEPT !.receipt = refresh_authority_disposition(v)], g)
  BY <1>3, <1>12, ReportHolds
<1>6. Holds([g EXCEPT !.receipt = refresh_authority_disposition(u)], g)
  BY <1>4, <1>12, ReportHolds
<1>7. Holds([g EXCEPT !.receipt = refresh_authority_disposition(s)], g)
  BY <1>2, <1>12, ReportHolds
<1>8. Holds(g, g)
  BY HoldsSelf
<1>9. Holds(observe_non_submission(g, e), g)
  BY <1>1, <1>5, <1>8 DEF observe_non_submission
<1>10. Holds(observe_output_accepted(g, e), g)
  BY <1>1, <1>6, <1>8 DEF observe_output_accepted
<1>11. Holds(observe_output_not_delivered(g, e), g)
  BY <1>1, <1>7, <1>8 DEF observe_output_not_delivered
<1> QED BY <1>9, <1>10, <1>11

\* Two calls after each other.
LEMMA HoldsThen ==
  ASSUME NEW g, NEW x, NEW q, Holds(x, g), Holds(q, x)
  PROVE  Holds(q, g)
BY DEF Holds, Stays

-----------------------------------------------------------------------------
(* The calls of the host that leave the effects alone *)

\* What of the host and of its backend the following is about.
HostKeys ==
  HostFields \cup {"closing", "failure", "prediction", "asked", "queue", "last_action",
                   "fixed_action", "backend", "channel"}

BackendKeys == {"profile", "stage", "skill", "steps", "valid", "closed"}

\* A host that has all of it.
Entire(h) ==
  /\ HostKeys \subseteq DOMAIN h /\ BackendKeys \subseteq DOMAIN h.backend
  /\ Whole(h.gate)

\* What is left of an effect when its operation ends.
Spares(r, h) ==
  /\ Entire(r)
  /\ r.closing = h.closing /\ r.failure = h.failure
  /\ r.asked = h.asked /\ r.last_action = h.last_action
  /\ r.backend.steps = h.backend.steps
  /\ r.raised = "no" => h.raised = "no"

\* A call that reports to the gate, and does nothing else but raise.
Reports(r, h) ==
  /\ Spares(r, h)
  /\ r.records = h.records /\ r.active = h.active /\ r.phase = h.phase
  /\ r.prediction = h.prediction /\ r.queue = h.queue
  /\ r.fixed_action = h.fixed_action /\ r.backend = h.backend
  /\ Holds(r.gate, h.gate)

\* Nothing is called.
LEMMA ReportsSelf ==
  ASSUME NEW h, Entire(h)
  PROVE  Reports(h, h)
BY HoldsSelf DEF Reports, Spares, Entire

\* Two such calls after each other.
LEMMA ReportsThen ==
  ASSUME NEW h, NEW x, NEW r, Reports(x, h), Reports(r, x)
  PROVE  Reports(r, h)
BY HoldsThen DEF Reports, Spares

\* The host with another gate, and what effects have nothing to do with.
LEMMA ReportsGate ==
  ASSUME NEW h, Entire(h), NEW r, DOMAIN r = DOMAIN h, Holds(r.gate, h.gate),
         r.closing = h.closing, r.failure = h.failure, r.asked = h.asked,
         r.last_action = h.last_action, r.backend = h.backend,
         r.raised = "no" => h.raised = "no", r.records = h.records,
         r.active = h.active, r.phase = h.phase, r.prediction = h.prediction,
         r.queue = h.queue, r.fixed_action = h.fixed_action
  PROVE  Reports(r, h)
BY DEF Reports, Spares, Entire, Holds

\* accepted, and evidence that raises.
LEMMA AcceptedReports ==
  ASSUME NEW h, Entire(h), NEW b, NEW g, Holds(g, h.gate), NEW r, r = accepted(h, b, g)
  PROVE  Reports(r, h)
<1>1. CASE b
  <2>1. r = [h EXCEPT !.sequence = @ + 1, !.gate = g]
    BY <1>1 DEF accepted
  <2> QED BY <2>1, ReportsGate DEF Entire, HostKeys, HostFields
<1>2. CASE ~b
  <2>1. r = [h EXCEPT !.raised = "evidence"]
    BY <1>2 DEF accepted, raise
  <2>2. Holds(h.gate, h.gate)
    BY HoldsSelf DEF Entire
  <2> QED BY <2>1, <2>2, ReportsGate DEF Entire, HostKeys, HostFields
<1> QED BY <1>1, <1>2

\* raise.
LEMMA RaiseReports ==
  ASSUME NEW h, Entire(h), NEW what, what # "no", NEW r, r = raise(h, what)
  PROVE  Reports(r, h)
<1>1. Holds(h.gate, h.gate)
  BY HoldsSelf DEF Entire
<1> QED BY <1>1, ReportsGate DEF raise, Entire, HostKeys, HostFields

\* gate_startup.
LEMMA StartupReports ==
  ASSUME NEW h, Entire(h), NEW k, NEW t, NEW r, r = startup(h, k, t)
  PROVE  Reports(r, h)
BY AcceptedReports, FactsHold DEF startup, Entire

\* refresh_capability.
LEMMA RefreshReports ==
  ASSUME NEW h, Entire(h), NEW t, NEW available, NEW r,
         r = refresh_capability(h, available, t)
  PROVE  Reports(r, h)
<1>1. PICK e : e = [binding |-> h.gate.binding,
            value |-> [profile_id |-> profile, available |-> available,
                       maximum_work_units |-> MaximumSteps],
            record |-> record(h, CapabilityObserver, t),
            valid_until |-> t + Validity]
  OBVIOUS
<1>2. PICK x : x = accepted(h, accepts_capabilities(h.gate, e),
                            observe_execution_capabilities(h.gate, e))
  OBVIOUS
<1>3. Reports(x, h)
  BY <1>2, AcceptedReports, FactsHold DEF Entire
<1>4. PICK y : y = [x EXCEPT !.next_capability = t + Renewal]
  OBVIOUS
<1>5. r = x \/ r = y
  BY <1>1, <1>2, <1>4 DEF refresh_capability, unless_raised, then
<1>6. Reports(y, x)
  <2>1. Entire(x) /\ Holds(x.gate, x.gate)
    BY <1>3, HoldsSelf DEF Reports, Spares, Entire
  <2> QED BY <1>4, <2>1, ReportsGate DEF Entire, HostKeys, HostFields
<1> QED BY <1>3, <1>5, <1>6, ReportsThen

\* cancel.
LEMMA CancelReports ==
  ASSUME NEW h, Entire(h), NEW t, NEW r, r = cancel(h, t)
  PROVE  /\ Reports(r, h)
         /\ is_controllable(h.gate, authority(h), t) => is_revoked(r.gate.receipt)
<1>1. PICK g, a : g = request_cancel(h.gate, a, t) /\ a = authority(h)
  OBVIOUS
<1>2. r = [h EXCEPT !.gate = g]
  BY <1>1 DEF cancel
<1>3. Holds(g, h.gate) /\ (is_controllable(h.gate, a, t) => is_revoked(g.receipt))
  BY <1>1, CancelHolds DEF Entire
<1>4. r.gate = g
  BY <1>2 DEF Entire, HostKeys, HostFields
<1>5. Reports(r, h)
  BY <1>2, <1>3, ReportsGate DEF Entire, HostKeys, HostFields
<1> QED BY <1>1, <1>3, <1>4, <1>5

\* tick.
LEMMA TickReports ==
  ASSUME NEW h, Entire(h), NEW t, NEW r, r = tick(h, t)
  PROVE  /\ Reports(r, h)
         /\ is_controllable(h.gate, authority(h), t) /\ has_reached_deadline(h.gate.receipt, t)
              => is_revoked(r.gate.receipt)
<1>1. PICK g, a : g = observe_time(h.gate, a, t) /\ a = authority(h)
  OBVIOUS
<1>2. r = [h EXCEPT !.gate = g]
  BY <1>1 DEF tick
<1>3. /\ Holds(g, h.gate)
      /\ is_controllable(h.gate, a, t) /\ has_reached_deadline(h.gate.receipt, t)
           => is_revoked(g.receipt)
  BY <1>1, TimeHolds DEF Entire
<1>4. r.gate = g
  BY <1>2 DEF Entire, HostKeys, HostFields
<1>5. Reports(r, h)
  BY <1>2, <1>3, ReportsGate DEF Entire, HostKeys, HostFields
<1> QED BY <1>1, <1>3, <1>4, <1>5

\* gate_native.
LEMMA NativeReports ==
  ASSUME NEW h, Entire(h), NEW k, NEW t, NEW r, r = native(h, k, t)
  PROVE  Reports(r, h)
<1>1. PICK e : e = [authority |-> authority(h), kind |-> k,
                    native_identity |-> authority(h).operation_id,
                    record |-> record(h, NativeSource, t)]
  OBVIOUS
<1>2. PICK g : g = observe_native(h.gate, e)
  OBVIOUS
<1>3. r = accepted(h, accepts_native(h.gate, e), g)
  BY <1>1, <1>2 DEF native
<1>4. Holds(g, h.gate)
  <2>1. "observed_at" \in DOMAIN e.record
    BY <1>1 DEF record
  <2> QED BY <1>2, <2>1, NativeHolds DEF Entire
<1> QED BY <1>3, <1>4, AcceptedReports

\* gate_non_submission.
LEMMA NonSubmissionReports ==
  ASSUME NEW h, Entire(h), NEW t, NEW r, r = non_submission(h, t)
  PROVE  Reports(r, h)
<1>1. PICK e : e = [authority |-> authority(h), record |-> record(h, SettlementSource, t)]
  OBVIOUS
<1>2. PICK g : g = observe_non_submission(h.gate, e)
  OBVIOUS
<1>3. r = accepted(h, accepts_non_submission(h.gate, e), g)
  BY <1>1, <1>2 DEF non_submission
<1>4. Holds(g, h.gate)
  <2>1. "observed_at" \in DOMAIN e.record
    BY <1>1 DEF record
  <2> QED BY <1>2, <2>1, EffectsHold DEF Entire
<1> QED BY <1>3, <1>4, AcceptedReports

\* gate_output, of a result that is not delivered.
LEMMA NotDeliveredReports ==
  ASSUME NEW h, Entire(h), NEW reason, NEW t, NEW r, r = not_delivered(h, reason, t)
  PROVE  Reports(r, h)
<1>1. PICK e : e = [authority |-> authority(h), reason |-> reason,
                    record |-> record(h, IF reason = "no_output" THEN SettlementSource
                                         ELSE ResultSinkObserver, t)]
  OBVIOUS
<1>2. PICK g : g = observe_output_not_delivered(h.gate, e)
  OBVIOUS
<1>3. r = accepted(h, accepts_non_delivery(h.gate, e), g)
  BY <1>1, <1>2 DEF not_delivered
<1>4. Holds(g, h.gate)
  <2>1. "observed_at" \in DOMAIN e.record
    BY <1>1 DEF record
  <2> QED BY <1>2, <2>1, EffectsHold DEF Entire
<1> QED BY <1>3, <1>4, AcceptedReports

\* maintain_capability.
LEMMA MaintainReports ==
  ASSUME NEW h, Entire(h), NEW t, NEW r, r = maintain_capability(h, t)
  PROVE  Reports(r, h)
<1>1. Reports(refresh_capability(h, TRUE, t), h)
  BY RefreshReports
<1> QED BY <1>1, ReportsSelf DEF maintain_capability

\* withdraw_capability.
LEMMA WithdrawReports ==
  ASSUME NEW h, Entire(h), NEW t, NEW r, r = withdraw_capability(h, t)
  PROVE  Reports(r, h)
<1>1. Reports(refresh_capability(h, FALSE, t), h)
  BY RefreshReports
<1> QED BY <1>1, ReportsSelf DEF withdraw_capability

-----------------------------------------------------------------------------
(* What an effect is made for *)

operation_of(h) == h.gate.receipt.authority.operation_id

\* The host closes, or its worker failed.
Ends(h) == h.closing \/ h.failure

\* The candidate a is one of the operation before number n, whose result was
\* delivered.
Gave(h, a, n) ==
  /\ a \in DOMAIN h.asked
  /\ \E i \in DOMAIN h.records :
       LET x == h.records[i]
       IN  /\ x.operation = h.asked[a] /\ x.operation \in Nat
           /\ following_operation_id(x.operation) = n
           /\ x.result = TRUE /\ x.output = "accepted"

\* The last candidate is one of the active operation.
Proposed(h) ==
  h.last_action \in DOMAIN h.asked /\ h.asked[h.last_action] = operation_of(h)

\* Every record names its operation and its skill.
Named(h) ==
  \A i \in DOMAIN h.records :
    {"operation", "skill"} \subseteq DOMAIN h.records[i] /\ h.records[i].skill \in Skill

\* What is so even after an exception.
Basic(h) ==
  /\ Entire(h) /\ Named(h)
  /\ IsSequence(h.asked) /\ IsSequence(h.queue)
  /\ h.backend.steps \in Nat /\ h.gate.next_operation_id \in Nat

\* The record of the active operation has its number.
IsNumbered(h) ==
  /\ operation_of(h) \in Nat \ {0}
  /\ h.gate.next_operation_id = following_operation_id(operation_of(h))
  /\ h.records[h.active].operation = operation_of(h)

\* The active operation lost its authority when the host ends.
Active(h) ==
  /\ IsNumbered(h)
  /\ h.gate.receipt.authority.binding = h.gate.binding
  /\ Held(h.gate.receipt)
  /\ Ends(h) => is_revoked(h.gate.receipt)

\* What was asked last was asked for the active operation, and only its answer
\* is awaited or waits to be used.
Asks(h) ==
  /\ \A p \in h.prediction : p.number = Len(h.asked) /\ p.count \in Int
  /\ \A i \in DOMAIN h.queue : h.queue[i] = Len(h.asked)
  /\ h.prediction # {} \/ h.queue # <<>> =>
       Len(h.asked) \in DOMAIN h.asked /\ h.asked[Len(h.asked)] = operation_of(h)

\* A hold repeats the last candidate of the transfer before it.
Acts(h) ==
  /\ h.fixed_action # 0 =>
       /\ is_handoff(h.backend) /\ h.backend.skill = "hold"
       /\ Gave(h, h.fixed_action, operation_of(h))
  /\ is_handoff(h.backend) /\ h.fixed_action = 0 /\ h.backend.steps # 0 => Proposed(h)

\* Between two operations nothing is asked, and a hold may follow a transfer.
Between(h) ==
  /\ h.prediction = {} /\ h.queue = <<>> /\ h.fixed_action = 0
  /\ ~Ends(h) /\ is_handoff(h.backend) /\ h.backend.stage = "hold_ready" =>
       Gave(h, h.last_action, h.gate.next_operation_id)

\* Where the host is when it ends.
Late == {"closing", "failed"}

\* What is asked, awaited and used is bound to the operation it is for.
Bound(h) ==
  /\ Basic(h)
  /\ h.active = 0 => Between(h)
  /\ h.active # 0 => Active(h) /\ (~Ends(h) => Asks(h) /\ Acts(h))
  /\ Ends(h) => h.phase \in Late

\* The end of an operation, before its record is released.
Closes(r, h) ==
  /\ Spares(r, h)
  /\ r.active = h.active /\ r.prediction = h.prediction /\ r.queue = h.queue
  /\ r.backend = h.backend
  /\ r.gate.next_operation_id = h.gate.next_operation_id
  /\ DOMAIN r.records = DOMAIN h.records /\ Named(r)
  /\ r.records[h.active].operation = h.records[h.active].operation

\* A report is part of it.
LEMMA ReportsClose ==
  ASSUME NEW h, Named(h), NEW r, Reports(r, h)
  PROVE  Closes(r, h)
BY DEF Reports, Closes, Holds, Named

\* Two parts of it.
LEMMA ClosesThen ==
  ASSUME NEW h, NEW x, NEW r, Closes(x, h), Closes(r, x)
  PROVE  Closes(r, h)
BY DEF Closes, Spares

\* dispose_result.
LEMMA DisposeCloses ==
  ASSUME NEW h, Sound(h), Entire(h), Named(h), h.active # 0, NEW b, NEW t1, NEW t2,
         NEW r, r = dispose_result(h, b, t1, t2)
  PROVE  Closes(r, h)
<1>1. PICK a, e, staged : /\ a = h.active
             /\ e = [authority |-> authority(h), record |-> record(h, ResultSinkObserver, t1)]
             /\ staged = [h EXCEPT !.records[h.active].result = TRUE, !.sequence = @ + 1]
  OBVIOUS
<1>2. PICK x : x = tick(retract(staged), t2)
  OBVIOUS
<1>3. /\ a \in DOMAIN h.records /\ IsOpen(h.records[a]) /\ Written(h)
      /\ RecordFields \subseteq DOMAIN h.records[a]
  BY <1>1 DEF Sound, Written
<1>4. ASSUME NEW reason, NEW t, r = not_delivered(h, reason, t)
      PROVE  Closes(r, h)
  BY <1>4, NotDeliveredReports, ReportsClose
<1>5. ASSUME r = [staged EXCEPT !.gate = observe_output_accepted(@, e)]
      PROVE  Closes(r, h)
  <2>1. PICK y : y = [h.records[a] EXCEPT !.result = TRUE]
    OBVIOUS
  <2>2. PICK g : g = observe_output_accepted(h.gate, e)
    OBVIOUS
  <2>3. y.operation = h.records[a].operation /\ "operation" \in DOMAIN y
    BY <1>3, <2>1 DEF Named
  <2>8. y.skill = h.records[a].skill /\ {"operation", "skill"} \subseteq DOMAIN y
    BY <1>3, <2>1 DEF Named
  <2>4. Holds(g, h.gate)
    <3>1. "observed_at" \in DOMAIN e.record
      BY <1>1 DEF record
    <3> QED BY <2>2, <3>1, EffectsHold DEF Entire
  <2>5. /\ DOMAIN r = DOMAIN h /\ r.gate = g /\ r.records = [h.records EXCEPT ![a] = y]
        /\ r.closing = h.closing /\ r.failure = h.failure /\ r.asked = h.asked
        /\ r.last_action = h.last_action /\ r.backend = h.backend /\ r.raised = h.raised
        /\ r.active = h.active /\ r.prediction = h.prediction /\ r.queue = h.queue
    BY <1>1, <1>5, <2>1, <2>2 DEF Entire, HostKeys, HostFields
  <2>6. /\ DOMAIN r.records = DOMAIN h.records /\ r.records[a] = y
        /\ \A j \in DOMAIN h.records : j # a => r.records[j] = h.records[j]
    BY <1>3, <2>5
  <2>7. Named(r) /\ r.records[h.active].operation = h.records[h.active].operation
    BY <1>1, <1>3, <2>3, <2>6, <2>8 DEF Named
  <2> QED BY <2>4, <2>5, <2>6, <2>7 DEF Closes, Spares, Entire, Holds
<1>6. Closes(x, h) /\ Entire(x) /\ Named(x)
  <2>1. PICK s : s = retract(staged)
    OBVIOUS
  <2>2. /\ DOMAIN s = DOMAIN h /\ s.gate = h.gate
        /\ s.closing = h.closing /\ s.failure = h.failure /\ s.asked = h.asked
        /\ s.last_action = h.last_action /\ s.backend = h.backend /\ s.raised = h.raised
        /\ s.active = h.active /\ s.prediction = h.prediction /\ s.queue = h.queue
    BY <1>1, <2>1 DEF retract, Entire, HostKeys, HostFields
  <2>3. /\ s.records = [staged.records EXCEPT ![a].result = FALSE]
        /\ staged.records = [h.records EXCEPT ![a].result = TRUE]
    BY <1>1, <2>1 DEF retract, Entire, HostKeys, HostFields
  <2>4. s.records = h.records
    BY <1>3, <2>3 DEF IsOpen, RecordFields
  <2>5. Closes(s, h) /\ Entire(s) /\ Named(s)
    BY <2>2, <2>4 DEF Closes, Spares, Entire, Named
  <2>6. Reports(x, s)
    BY <1>2, <2>1, <2>5, TickReports
  <2>7. Closes(x, s)
    BY <2>5, <2>6, ReportsClose
  <2> QED BY <2>5, <2>7, ClosesThen DEF Closes, Spares
<1>7. ASSUME r = raise(x, "evidence")
      PROVE  Closes(r, h)
  BY <1>6, <1>7, RaiseReports, ReportsClose, ClosesThen
<1>8. ASSUME r = not_delivered(x, "authority_revoked", t2)
      PROVE  Closes(r, h)
  <2>1. Closes(r, x)
    BY <1>6, <1>8, NotDeliveredReports, ReportsClose
  <2> QED BY <1>6, <2>1, ClosesThen
<1>9. \/ r = not_delivered(h, "no_output", t1) \/ r = not_delivered(h, "authority_revoked", t1)
      \/ r = [staged EXCEPT !.gate = observe_output_accepted(@, e)]
      \/ r = raise(x, "evidence")
      \/ r = not_delivered(x, "authority_revoked", t2)
  BY <1>1, <1>2 DEF dispose_result, then
<1> QED BY <1>4, <1>5, <1>7, <1>8, <1>9

\* What is settled is still about the same operation.
LEMMA SettlementWhole ==
  ASSUME NEW g, Whole(g), NEW e, NEW q, q = observe_settlement(g, e)
  PROVE  Whole(q) /\ q.next_operation_id = g.next_operation_id
<1>1. PICK s : s = [g.receipt EXCEPT !.settlement = "settled",
                                     !.evidence["settlement"] = {e.record}]
  OBVIOUS
<1>2. WholeReceipt(s)
  BY <1>1 DEF Whole, WholeReceipt, ReceiptKeys
<1>3. PICK d, r : d = authority_disposition(s) /\ r = [s EXCEPT !.disposition = d]
  OBVIOUS
<1>4. WholeReceipt(r)
  BY <1>2, <1>3 DEF WholeReceipt, ReceiptKeys
<1>5. q = g \/ q = [g EXCEPT !.receipt = r]
  BY <1>1, <1>3 DEF observe_settlement, refresh_authority_disposition, Whole, GateKeys
<1> QED BY <1>4, <1>5 DEF Whole, GateKeys

\* settle.
LEMMA SettleCloses ==
  ASSUME NEW h, Entire(h), Named(h), h.active \in DOMAIN h.records,
         NEW t, NEW r, r = settle(h, t)
  PROVE  Closes(r, h)
<1>1. PICK e : e = [authority |-> authority(h), permits_same_domain_admission |-> TRUE,
                    record |-> record(h, SettlementSource, t)]
  OBVIOUS
<1>2. PICK g : g = observe_settlement(h.gate, e)
  OBVIOUS
<1>3. PICK x : x = accepted(h, accepts_settlement(h.gate, e), g)
  OBVIOUS
<1>4. Whole(g) /\ g.next_operation_id = h.gate.next_operation_id
  BY <1>2, SettlementWhole DEF Entire
<1>5. x = [h EXCEPT !.sequence = @ + 1, !.gate = g] \/ x = [h EXCEPT !.raised = "evidence"]
  BY <1>3 DEF accepted, raise
<1>6. Closes(x, h) /\ x.records = h.records
  BY <1>4, <1>5 DEF Closes, Spares, Entire, Named, HostKeys, HostFields
<1>7. r = IF x.raised # "no" THEN x
          ELSE [x EXCEPT !.records[h.active] =
                  [@ EXCEPT !.state = "finished", !.output = x.gate.receipt.output,
                            !.disposition = x.gate.receipt.disposition]]
  BY ONLY <1>1, <1>2, <1>3, r = settle(h, t) DEF settle, unless_raised, then
<1>8. CASE x.raised # "no"
  BY <1>6, <1>7, <1>8
<1>9. CASE x.raised = "no"
  <2>1. PICK a, y :
          /\ a = h.active
          /\ y = [h.records[a] EXCEPT !.state = "finished",
                    !.output = x.gate.receipt.output,
                    !.disposition = x.gate.receipt.disposition]
    OBVIOUS
  <2>2. /\ y.operation = h.records[a].operation /\ y.skill = h.records[a].skill
        /\ {"operation", "skill"} \subseteq DOMAIN y
    BY <2>1 DEF Named
  <2>3. r = [x EXCEPT !.records = [x.records EXCEPT ![a] = y]]
    BY <1>6, <1>7, <1>9, <2>1
  <2>4. /\ DOMAIN r = DOMAIN x /\ r.gate = x.gate /\ r.records = [h.records EXCEPT ![a] = y]
        /\ r.closing = x.closing /\ r.failure = x.failure /\ r.asked = x.asked
        /\ r.last_action = x.last_action /\ r.backend = x.backend /\ r.raised = x.raised
        /\ r.active = x.active /\ r.prediction = x.prediction /\ r.queue = x.queue
    BY <1>6, <2>3 DEF Closes, Spares, Entire, HostKeys, HostFields
  <2>5. /\ DOMAIN r.records = DOMAIN h.records /\ r.records[a] = y
        /\ \A j \in DOMAIN h.records : j # a => r.records[j] = h.records[j]
    BY <2>1, <2>4
  <2>11. a \in DOMAIN h.records /\ h.records[a].skill \in Skill
    BY <2>1 DEF Named
  <2>12. ASSUME NEW j \in DOMAIN r.records
         PROVE  /\ {"operation", "skill"} \subseteq DOMAIN r.records[j]
                /\ r.records[j].skill \in Skill
    BY <2>2, <2>5, <2>11 DEF Named
  <2>6. Named(r) /\ r.records[a].operation = h.records[a].operation
    BY <2>2, <2>5, <2>12 DEF Named
  <2>9. Entire(x)
    BY <1>6 DEF Closes, Spares
  <2>10. Entire(r)
    BY <2>4, <2>9 DEF Entire
  <2>7. Spares(r, x)
    BY <2>4, <2>10 DEF Spares
  <2>8. Spares(r, h)
    BY <1>6, <2>7 DEF Closes, Spares
  <2> QED BY <1>6, <2>1, <2>4, <2>5, <2>6, <2>8 DEF Closes
<1> QED BY <1>8, <1>9

\* What the end of an operation knows of it: a transfer that is completed had an
\* effect of its own.
Completes(h, reason) ==
  ~Ends(h) /\ reason = "completed" /\ is_handoff(h.backend) /\ h.backend.skill = "policy"
    => /\ h.last_action \in DOMAIN h.asked
       /\ h.records[h.active].operation = h.asked[h.last_action]

\* release, of a record that is finished.
LEMMA ReleaseBound ==
  ASSUME NEW h, Basic(h), \A i \in DOMAIN h.records : IsTrue(h.records[i]),
         h.active \in DOMAIN h.records, h.prediction = {}, h.queue = <<>>,
         h.records[h.active].operation \in Nat,
         h.gate.next_operation_id = following_operation_id(h.records[h.active].operation),
         NEW reason, Completes(h, reason), NEW t, NEW r, r = release(h, reason, t)
  PROVE  Spares(r, h) /\ Bound(r)
<1>1. PICK x, delivered, continues, p :
        /\ x = h.records[h.active]
        /\ delivered = (/\ reason = "completed" /\ x.result
                        /\ x.disposition = "released" /\ x.output = "accepted"
                        /\ ~h.failure /\ ~h.closing /\ ~is_reaped)
        /\ continues = is_continued(h.backend, delivered)
        /\ p = IF h.failure THEN "failed" ELSE IF h.closing THEN "closing"
               ELSE IF continues THEN "ready" ELSE "needs_reset"
  OBVIOUS
<1>2. PICK b : b = after_settlement(h.backend, delivered)
  OBVIOUS
<1>3. PICK y : y = [h EXCEPT !.backend = b, !.active = 0, !.fixed_action = 0, !.phase = p]
  OBVIOUS
<1>4. r = IF continues THEN refresh_capability(y, TRUE, t) ELSE y
  BY ONLY <1>1, <1>2, <1>3, r = release(h, reason, t) DEF release
<1>5. /\ BackendKeys \subseteq DOMAIN b /\ b.steps = h.backend.steps
      /\ b.profile = h.backend.profile
      /\ is_handoff(b) /\ b.stage = "hold_ready" => continues
  BY <1>1, <1>2 DEF after_settlement, is_continued, is_handoff, Basic, Entire, BackendKeys
<1>6. /\ DOMAIN y = DOMAIN h /\ y.gate = h.gate /\ y.records = h.records
      /\ y.closing = h.closing /\ y.failure = h.failure /\ y.asked = h.asked
      /\ y.last_action = h.last_action /\ y.backend = b /\ y.raised = h.raised
      /\ y.active = 0 /\ y.prediction = h.prediction /\ y.queue = h.queue
      /\ y.fixed_action = 0 /\ y.phase = p
  BY <1>3 DEF Basic, Entire, HostKeys, HostFields
<1>7. Basic(y) /\ Spares(y, h)
  BY <1>5, <1>6 DEF Basic, Entire, Named, Spares
<1>8. continues => Gave(y, y.last_action, y.gate.next_operation_id)
  <2>1. SUFFICES ASSUME continues PROVE Gave(y, y.last_action, y.gate.next_operation_id)
    OBVIOUS
  <2>2. delivered /\ is_handoff(h.backend) /\ h.backend.skill = "policy"
    BY <1>1, <2>1 DEF is_continued
  <2>3. reason = "completed" /\ x.output = "accepted" /\ ~Ends(h)
    BY <1>1, <2>2 DEF Ends
  <2>4. x.result = TRUE
    BY <1>1, <2>3 DEF IsTrue
  <2>5. h.last_action \in DOMAIN h.asked /\ x.operation = h.asked[h.last_action]
    BY <1>1, <2>2, <2>3 DEF Completes
  <2> QED BY <1>1, <1>6, <2>3, <2>4, <2>5 DEF Gave
<1>9. Bound(y)
  <2>1. Between(y)
    BY <1>5, <1>6, <1>8 DEF Between
  <2>2. Ends(y) => y.phase \in Late
    BY <1>1, <1>6 DEF Ends, Late
  <2> QED BY <1>6, <1>7, <2>1, <2>2 DEF Bound
<1>10. CASE ~continues
  BY <1>4, <1>7, <1>9, <1>10
<1>11. CASE continues
  <2>1. PICK able : able = TRUE
    OBVIOUS
  <2>2. r = refresh_capability(y, able, t)
    BY <1>4, <1>11, <2>1
  <2>3. Reports(r, y)
    BY <1>7, <2>2, RefreshReports DEF Basic
  <2>4. Spares(r, h)
    BY <1>7, <2>3 DEF Reports, Spares
  <2>5. Basic(r)
    BY <1>7, <2>3 DEF Basic, Reports, Spares, Named, Holds
  <2>6. Between(r) /\ r.active = 0 /\ r.phase = y.phase
    BY <1>6, <1>9, <2>3 DEF Bound, Between, Reports, Spares, Holds, Gave, Ends
  <2>7. Ends(r) => r.phase \in Late
    BY <1>9, <2>3 DEF Bound, Reports, Spares, Ends
  <2> QED BY <2>4, <2>5, <2>6, <2>7 DEF Bound
<1> QED BY <1>10, <1>11

\* finish, of the active operation.
LEMMA FinishBound ==
  ASSUME NEW h, Sound(h), h.active # 0, h.raised = "no", Basic(h), IsNumbered(h),
         NEW reason, Completes(h, reason), NEW is_native, NEW t,
         NEW r, r = finish(h, reason, is_native, t)
  PROVE  Spares(r, h) /\ (r.raised = "no" => Bound(r))
<1>1. PICK k : k = tick(h, t[1])
  OBVIOUS
<1>2. PICK a : a = [k EXCEPT !.queue = <<>>]
  OBVIOUS
<1>3. Reports(k, h) /\ Calm(k, h) /\ Shaped(k) /\ Entire(k)
  <2>1. Reports(k, h)
    BY <1>1, TickReports DEF Basic
  <2>2. Calm(k, h)
    BY <1>1, TickCalm DEF Sound
  <2> QED BY <2>1, <2>2 DEF Calm, Reports, Spares
<1>4. Calm(a, h) /\ Shaped(a)
  BY <1>2, <1>3 DEF Calm, Shaped, HostFields
<1>5. /\ Spares(a, h) /\ Entire(a) /\ Named(a) /\ a.queue = <<>>
      /\ a.records = h.records /\ a.active = h.active /\ a.prediction = h.prediction
      /\ a.backend = h.backend /\ a.gate.next_operation_id = h.gate.next_operation_id
  BY <1>2, <1>3 DEF Reports, Spares, Entire, HostKeys, HostFields, Basic, Named, Holds
<1>6. PICK w : w = withdraw_capability(a, t[1])
  OBVIOUS
<1>7. Calm(w, a) /\ Shaped(w) /\ Reports(w, a) /\ Entire(w)
  <2>1. Calm(w, a) /\ Reports(w, a)
    BY <1>4, <1>5, <1>6, WithdrawCalm, WithdrawReports
  <2> QED BY <2>1 DEF Calm, Reports, Spares
<1>8. PICK n : n = IF ~can_finish(w.backend) THEN raise(w, "recording")
                   ELSE IF is_native THEN native(w, outcome_of(reason), t[2])
                   ELSE w
  OBVIOUS
<1>9. Calm(n, w) /\ Reports(n, w)
  <2>1. Calm(raise(w, "recording"), w) /\ Reports(raise(w, "recording"), w)
    BY <1>7, RaiseReports DEF raise, Calm, Shaped, HostFields
  <2> QED BY <1>7, <1>8, <2>1, NativeCalm, CalmSelf, NativeReports, ReportsSelf
<1>10. PICK x : x = IF w.raised # "no" THEN w ELSE n
  OBVIOUS
<1>11. Calm(x, h) /\ Sound(x) /\ x.active # 0
  <2>1. Calm(x, h)
    BY <1>4, <1>7, <1>9, <1>10, CalmThen
  <2> QED BY <2>1, CalmSound DEF Calm
<1>12. Reports(x, a) /\ Entire(x) /\ Named(x) /\ Closes(x, a)
  <2>1. Reports(x, a)
    BY <1>7, <1>9, <1>10, ReportsThen
  <2> QED BY <1>5, <2>1, ReportsClose DEF Closes, Spares
<1>13. PICK delivers : delivers = (reason = "completed")
  OBVIOUS
<1>14. PICK d : d = dispose_result(x, delivers, t[2], t[3])
  OBVIOUS
<1>15. /\ Kept(d) /\ (d.raised = "no" => Disposed(d) /\ x.raised = "no")
       /\ Closes(d, x)
  BY <1>11, <1>12, <1>14, DisposeSteps, DisposeCloses
<1>16. PICK y : y = IF x.raised # "no" THEN x ELSE d
  OBVIOUS
<1>17. PICK s : s = settle(y, t[3])
  OBVIOUS
<1>18. PICK z : z = IF y.raised # "no" THEN y ELSE s
  OBVIOUS
<1>19. PICK f : f = release(z, reason, t[3])
  OBVIOUS
<1>20. Closes(y, a) /\ Entire(y) /\ Named(y)
  <2>1. Closes(y, a)
    BY <1>12, <1>15, <1>16, ClosesThen
  <2> QED BY <2>1 DEF Closes, Spares
<1>21. y.raised = "no" => Kept(y) /\ Disposed(y) /\ y.active \in DOMAIN y.records
  BY <1>15, <1>16 DEF Disposed
<1>22. Closes(z, a)
  <2>1. y.raised = "no" => Closes(s, y)
    BY <1>17, <1>20, <1>21, SettleCloses
  <2> QED BY <1>18, <1>20, <2>1, ClosesThen
<1>23. z.raised = "no" =>
         /\ Shaped(z) /\ Written(z) /\ z.active \in DOMAIN z.records
         /\ \A i \in DOMAIN z.records : IsTrue(z.records[i])
  <2>1. SUFFICES ASSUME z.raised = "no"
                 PROVE  /\ Shaped(z) /\ Written(z) /\ z.active \in DOMAIN z.records
                        /\ \A i \in DOMAIN z.records : IsTrue(z.records[i])
    OBVIOUS
  <2>2. y.raised = "no" /\ z = s
    BY <1>18, <2>1
  <2>3. Shaped(z) /\ Written(z) /\ \A i \in DOMAIN z.records : IsTrue(z.records[i])
    BY <1>17, <1>21, <2>1, <2>2, SettleSteps
  <2>4. Closes(z, y)
    BY <1>17, <1>20, <1>21, <2>2, SettleCloses
  <2> QED BY <1>21, <2>2, <2>3, <2>4 DEF Closes
<1>24. Spares(z, h)
  BY <1>5, <1>22 DEF Closes, Spares
<1>25. ASSUME h.prediction = {}, z.raised = "no"
       PROVE  Spares(f, z) /\ Bound(f)
  <2>1. /\ z.prediction = {} /\ z.queue = <<>> /\ z.active = h.active
        /\ z.backend = h.backend /\ z.asked = h.asked /\ z.last_action = h.last_action
        /\ z.gate.next_operation_id = h.gate.next_operation_id
        /\ z.records[z.active].operation = h.records[h.active].operation
        /\ Entire(z) /\ Named(z) /\ (Ends(z) <=> Ends(h))
    BY <1>5, <1>22, <1>25 DEF Closes, Spares, Ends
  <2>2. IsSequence(<<>>)
    <3>1. <<>> \in Seq({})
      OBVIOUS
    <3> QED BY <3>1 DEF IsSequence
  <2>3. Basic(z)
    BY <2>1, <2>2 DEF Basic
  <2>4. /\ z.records[z.active].operation \in Nat
        /\ z.gate.next_operation_id = following_operation_id(z.records[z.active].operation)
    BY <2>1 DEF IsNumbered
  <2>5. Completes(z, reason)
    BY <2>1 DEF Completes
  <2> QED BY <1>19, <1>23, <1>25, <2>1, <2>3, <2>4, <2>5, ReleaseBound
<1>26. CASE h.prediction # {}
  <2>1. r = raise(h, "prediction")
    BY <1>26 DEF finish
  <2>2. Reports(r, h) /\ r.raised = "prediction"
    BY <2>1, RaiseReports DEF Basic, raise, Entire, HostKeys, HostFields
  <2> QED BY <2>2 DEF Reports
<1>27. CASE h.prediction = {}
  <2>1. r = unless_raised(unless_raised(unless_raised(unless_raised(w,
              LAMBDA v : IF ~can_finish(v.backend) THEN raise(v, "recording")
                  ELSE IF is_native THEN native(v, outcome_of(reason), t[2])
                  ELSE v),
              LAMBDA v : dispose_result(v, reason = "completed", t[2], t[3])),
              LAMBDA v : settle(v, t[3])),
              LAMBDA v : release(v, reason, t[3]))
    BY ONLY <1>1, <1>2, <1>6, <1>27, r = finish(h, reason, is_native, t) DEF finish
  <2>2. unless_raised(w, LAMBDA v : IF ~can_finish(v.backend) THEN raise(v, "recording")
                  ELSE IF is_native THEN native(v, outcome_of(reason), t[2])
                  ELSE v) = x
    BY ONLY <1>8, <1>10 DEF unless_raised, then
  <2>3. unless_raised(x, LAMBDA v : dispose_result(v, reason = "completed", t[2], t[3])) = y
    BY ONLY <1>13, <1>14, <1>16 DEF unless_raised, then
  <2>4. unless_raised(y, LAMBDA v : settle(v, t[3])) = z
    BY ONLY <1>17, <1>18 DEF unless_raised, then
  <2>5. unless_raised(z, LAMBDA v : release(v, reason, t[3])) = IF z.raised # "no" THEN z ELSE f
    BY ONLY <1>19 DEF unless_raised, then
  <2>6. r = IF z.raised # "no" THEN z ELSE f
    BY ONLY <2>1, <2>2, <2>3, <2>4, <2>5
  <2>7. CASE z.raised # "no"
    BY <1>24, <2>6, <2>7
  <2>8. CASE z.raised = "no"
    BY <1>24, <1>25, <1>27, <2>6, <2>8 DEF Spares
  <2> QED BY <2>7, <2>8
<1> QED BY <1>26, <1>27

-----------------------------------------------------------------------------
(* The other calls *)

\* A report changes nothing of this.
LEMMA ReportsBound ==
  ASSUME NEW h, Bound(h), NEW r, Reports(r, h)
  PROVE  Bound(r)
<1>1. Basic(r)
  BY DEF Bound, Basic, Reports, Spares, Named, Holds
<1>2. /\ r.active = h.active /\ r.records = h.records /\ r.phase = h.phase
      /\ r.asked = h.asked /\ r.queue = h.queue /\ r.prediction = h.prediction
      /\ r.backend = h.backend /\ r.fixed_action = h.fixed_action
      /\ r.last_action = h.last_action /\ (Ends(r) <=> Ends(h))
      /\ r.gate.next_operation_id = h.gate.next_operation_id
      /\ r.gate.binding = h.gate.binding
      /\ r.gate.receipt.authority = h.gate.receipt.authority
      /\ operation_of(r) = operation_of(h)
  BY DEF Reports, Spares, Holds, Stays, Ends, operation_of
<1>3. r.active = 0 => Between(r)
  BY <1>2 DEF Bound, Between, Gave
<1>4. r.active # 0 => Active(r)
  BY <1>2 DEF Bound, Active, IsNumbered, Reports, Holds, Stays
<1>5. r.active # 0 /\ ~Ends(r) => Asks(r) /\ Acts(r)
  BY <1>2 DEF Bound, Asks, Acts, Gave, Proposed
<1> QED BY <1>1, <1>2, <1>3, <1>4, <1>5 DEF Bound

\* The host with other members that this is not about.
LEMMA SameBound ==
  ASSUME NEW h, Bound(h), NEW r, DOMAIN r = DOMAIN h, r.gate = h.gate,
         r.active = h.active, r.records = h.records, r.phase = h.phase,
         r.asked = h.asked, r.queue = h.queue \/ r.queue = <<>>,
         r.prediction = h.prediction \/ r.prediction = {},
         BackendKeys \subseteq DOMAIN r.backend,
         r.backend.profile = h.backend.profile, r.backend.stage = h.backend.stage,
         r.backend.skill = h.backend.skill, r.backend.steps = h.backend.steps,
         r.fixed_action = h.fixed_action, r.last_action = h.last_action,
         r.closing = h.closing, r.failure = h.failure
  PROVE  Bound(r)
<1>1. IsSequence(<<>>) /\ DOMAIN <<>> = {}
  <2>1. <<>> \in Seq({})
    OBVIOUS
  <2> QED BY <2>1 DEF IsSequence
<1>2. Basic(r)
  BY <1>1 DEF Bound, Basic, Entire, Named
<1>3. (Ends(r) <=> Ends(h)) /\ operation_of(r) = operation_of(h)
      /\ (is_handoff(r.backend) <=> is_handoff(h.backend))
  BY DEF Ends, operation_of, is_handoff
<1>4. r.active = 0 => Between(r)
  BY <1>3 DEF Bound, Between, Gave
<1>5. r.active # 0 => Active(r)
  BY <1>3 DEF Bound, Active, IsNumbered
<1>6. r.active # 0 /\ ~Ends(r) => Asks(r) /\ Acts(r)
  BY <1>1, <1>3 DEF Bound, Asks, Acts, Gave, Proposed
<1> QED BY <1>2, <1>3, <1>4, <1>5, <1>6 DEF Bound

\* The times of a receipt whose past is forgotten.
Rested(s) == \A u \in receipt_times(s) : u = StartedAt

\* The active operation is one of the past.
Rests(h) == h.active # 0 => Rested(h.gate.receipt)

\* The active operation can be controlled.
LEMMA RestsControl ==
  ASSUME NEW h, Bound(h), h.active # 0, Rests(h), NEW t \in Nat
  PROVE  is_controllable(h.gate, authority(h), t)
<1>1. StartedAt = 0
  BY PythonHostAssumption
<1> QED BY <1>1 DEF Bound, Active, IsNumbered, Held, Rests, Rested, is_controllable,
        current_authority_matches, has_receipt, not_before, authority, operation_of

\* A capability that is observed is not in the receipt.
LEMMA RefreshReceipt ==
  ASSUME NEW h, Entire(h), NEW b, NEW t, NEW r, r = refresh_capability(h, b, t)
  PROVE  r.gate.receipt = h.gate.receipt /\ r.gate.binding = h.gate.binding
<1>1. PICK e : e = [binding |-> h.gate.binding,
            value |-> [profile_id |-> profile, available |-> b,
                       maximum_work_units |-> MaximumSteps],
            record |-> record(h, CapabilityObserver, t),
            valid_until |-> t + Validity]
  OBVIOUS
<1>2. PICK g : g = observe_execution_capabilities(h.gate, e)
  OBVIOUS
<1>3. g.receipt = h.gate.receipt /\ g.binding = h.gate.binding
  BY <1>2 DEF observe_execution_capabilities, Entire, Whole, GateKeys
<1>4. PICK x : x = accepted(h, accepts_capabilities(h.gate, e), g)
  OBVIOUS
<1>5. x.gate = g \/ x.gate = h.gate
  BY <1>4 DEF accepted, raise, Entire, HostKeys, HostFields
<1>6. PICK y : y = [x EXCEPT !.next_capability = t + Renewal]
  OBVIOUS
<1>7. r = x \/ r = y
  BY <1>1, <1>2, <1>4, <1>6 DEF refresh_capability, unless_raised, then
<1>8. y.gate = x.gate
  BY <1>4, <1>6 DEF accepted, raise, Entire, HostKeys, HostFields
<1> QED BY <1>3, <1>5, <1>7, <1>8

\* fail_worker, of a host whatever it does.
LEMMA FailKeeps ==
  ASSUME NEW h, Basic(h), NEW t, NEW r, r = fail_worker(h, t)
  PROVE  /\ Basic(r) /\ r.backend = h.backend /\ r.active = h.active
         /\ h.active # 0 /\ IsNumbered(h) => IsNumbered(r)
         /\ r.raised = "no" => h.raised = "no"
<1>1. PICK f : f = [h EXCEPT !.failure = TRUE]
  OBVIOUS
<1>2. /\ Basic(f) /\ f.backend = h.backend /\ f.active = h.active /\ f.gate = h.gate
      /\ f.records = h.records /\ f.raised = h.raised
  BY <1>1 DEF Basic, Entire, HostKeys, HostFields, Named
<1>3. PICK x : x = refresh_capability(f, FALSE, t)
  OBVIOUS
<1>4. Reports(x, f) /\ Entire(x)
  <2>1. Reports(x, f)
    BY <1>2, <1>3, RefreshReports DEF Basic
  <2> QED BY <2>1 DEF Reports, Spares
<1>5. PICK c : c = IF x.active = 0 THEN x ELSE cancel(x, t)
  OBVIOUS
<1>6. Reports(c, f)
  <2>1. Reports(c, x)
    BY <1>4, <1>5, CancelReports, ReportsSelf
  <2> QED BY <1>4, <2>1, ReportsThen
<1>7. PICK y : y = [c EXCEPT !.queue = <<>>, !.phase = "failed"]
  OBVIOUS
<1>8. r = h \/ r = x \/ r = y
  BY <1>1, <1>3, <1>5, <1>7 DEF fail_worker, unless_raised, then
<1>9. IsSequence(<<>>)
  <2>1. <<>> \in Seq({})
    OBVIOUS
  <2> QED BY <2>1 DEF IsSequence
<1>10. ASSUME NEW q, Reports(q, f)
       PROVE  /\ Basic(q) /\ q.backend = h.backend /\ q.active = h.active
              /\ h.active # 0 /\ IsNumbered(h) => IsNumbered(q)
              /\ q.raised = "no" => h.raised = "no"
  BY <1>2, <1>10 DEF Basic, Reports, Spares, Named, IsNumbered, Holds, Stays, operation_of
<1>11. /\ Basic(y) /\ y.backend = c.backend /\ y.active = c.active /\ y.raised = c.raised
       /\ y.gate = c.gate /\ y.records = c.records
  BY <1>6, <1>7, <1>9, <1>10 DEF Basic, Entire, HostKeys, HostFields, Named
<1>12. IsNumbered(c) => IsNumbered(y)
  BY <1>11 DEF IsNumbered, operation_of
<1> QED BY <1>4, <1>6, <1>8, <1>10, <1>11, <1>12

\* fail_worker revokes the active operation.
LEMMA FailBound ==
  ASSUME NEW h, Bound(h), Rests(h), NEW t \in Nat, NEW r, r = fail_worker(h, t),
         r.raised = "no"
  PROVE  Bound(r)
<1>1. PICK f : f = [h EXCEPT !.failure = TRUE]
  OBVIOUS
<1>2. /\ Basic(f) /\ f.active = h.active /\ f.gate = h.gate /\ f.records = h.records
      /\ f.prediction = h.prediction /\ f.fixed_action = h.fixed_action
      /\ f.failure = TRUE
  BY <1>1 DEF Bound, Basic, Entire, HostKeys, HostFields, Named
<1>3. PICK b, x : b = FALSE /\ x = refresh_capability(f, b, t)
  OBVIOUS
<1>4. Reports(x, f) /\ Entire(x)
      /\ x.gate.receipt = h.gate.receipt /\ x.gate.binding = h.gate.binding
  <2>1. Reports(x, f)
    BY <1>2, <1>3, RefreshReports DEF Basic
  <2>2. x.gate.receipt = f.gate.receipt /\ x.gate.binding = f.gate.binding
    BY <1>2, <1>3, RefreshReceipt DEF Basic
  <2> QED BY <1>2, <2>1, <2>2 DEF Reports, Spares
<1>5. PICK c : c = IF x.active = 0 THEN x ELSE cancel(x, t)
  OBVIOUS
<1>6. PICK y : y = [c EXCEPT !.queue = <<>>, !.phase = "failed"]
  OBVIOUS
<1>7. CASE h.failure
  BY <1>7 DEF fail_worker
<1>8. CASE ~h.failure
  <2>9. x = refresh_capability(f, FALSE, t)
    BY ONLY <1>3
  <2>10. r = unless_raised(x, LAMBDA v :
               [(IF v.active = 0 THEN v ELSE cancel(v, t)) EXCEPT
                  !.queue = <<>>, !.phase = "failed"])
    BY ONLY <1>1, <1>8, <2>9, r = fail_worker(h, t) DEF fail_worker
  <2>11. r = IF x.raised # "no" THEN x
             ELSE [(IF x.active = 0 THEN x ELSE cancel(x, t)) EXCEPT
                     !.queue = <<>>, !.phase = "failed"]
    BY ONLY <2>10 DEF unless_raised, then
  <2>1. r = IF x.raised # "no" THEN x ELSE y
    BY ONLY <1>5, <1>6, <2>11
  <2>2. r = y
    BY <2>1
  <2>3. Basic(r)
    BY FailKeeps DEF Bound
  <2>4. Reports(c, x)
    BY <1>4, <1>5, CancelReports, ReportsSelf
  <2>5. Reports(c, f) /\ Entire(c)
    <3>1. Reports(c, f)
      BY <1>4, <2>4, ReportsThen
    <3> QED BY <3>1 DEF Reports, Spares
  <2>6. /\ y.gate = c.gate /\ y.active = h.active /\ y.records = h.records
        /\ y.queue = <<>> /\ y.phase = "failed" /\ y.prediction = h.prediction
        /\ y.fixed_action = h.fixed_action /\ y.failure = TRUE
        /\ y.gate.receipt.authority = h.gate.receipt.authority
        /\ y.gate.binding = h.gate.binding
        /\ y.gate.next_operation_id = h.gate.next_operation_id
        /\ operation_of(y) = operation_of(h)
    BY <1>2, <1>6, <2>5
       DEF Reports, Spares, Holds, Stays, Entire, HostKeys, HostFields, operation_of
  <2>7. h.active = 0 => Between(r)
    BY <2>2, <2>6 DEF Bound, Between, Ends
  <2>8. h.active # 0 => Active(r)
    <3>1. SUFFICES ASSUME h.active # 0 PROVE Active(r)
      OBVIOUS
    <3>2. is_controllable(h.gate, authority(h), t)
      BY <3>1, RestsControl
    <3>3. is_controllable(x.gate, authority(x), t)
      BY <1>4, <3>2 DEF is_controllable, current_authority_matches, has_receipt, authority
    <3>4. x.active # 0
      BY <1>2, <1>4, <3>1 DEF Reports
    <3>5. is_revoked(c.gate.receipt)
      BY <1>4, <1>5, <3>3, <3>4, CancelReports
    <3>6. Held(c.gate.receipt)
      BY <1>4, <2>4, <3>1 DEF Reports, Holds, Stays, Bound, Active
    <3> QED BY <2>2, <2>6, <3>1, <3>5, <3>6 DEF Active, Bound, IsNumbered
  <2> QED BY <2>2, <2>3, <2>6, <2>7, <2>8 DEF Bound, Ends, Late
<1> QED BY <1>7, <1>8

\* begin_close revokes the active operation.
LEMMA BeginCloseBound ==
  ASSUME NEW h, Bound(h), Rests(h), NEW t \in Nat, NEW r, r = begin_close(h, t)
  PROVE  Bound(r) /\ r.backend = h.backend
<1>1. PICK c : c = IF h.active = 0 THEN h ELSE cancel(h, t)
  OBVIOUS
<1>2. PICK y : y = [c EXCEPT !.closing = TRUE, !.queue = <<>>,
                             !.gate = close_admission(@), !.phase = "closing"]
  OBVIOUS
<1>3. CASE h.closing
  BY <1>3 DEF begin_close
<1>4. CASE ~h.closing
  <2>1. r = y
    BY ONLY <1>1, <1>2, <1>4, r = begin_close(h, t) DEF begin_close
  <2>2. Reports(c, h) /\ Entire(c)
    <3>1. Reports(c, h)
      BY <1>1, CancelReports, ReportsSelf DEF Bound, Basic
    <3> QED BY <3>1 DEF Reports, Spares
  <2>3. PICK g : g = close_admission(c.gate)
    OBVIOUS
  <2>4. /\ Whole(g) /\ g.receipt = c.gate.receipt /\ g.binding = c.gate.binding
        /\ g.next_operation_id = c.gate.next_operation_id
    BY <2>2, <2>3 DEF close_admission, Entire, Whole, GateKeys
  <2>5. /\ DOMAIN y = DOMAIN c /\ y.gate = g /\ y.active = c.active
        /\ y.records = c.records /\ y.queue = <<>> /\ y.phase = "closing"
        /\ y.prediction = c.prediction /\ y.fixed_action = c.fixed_action
        /\ y.closing = TRUE /\ y.asked = c.asked /\ y.backend = c.backend
    BY <1>2, <2>2, <2>3 DEF Entire, HostKeys, HostFields
  <2>6. IsSequence(<<>>)
    <3>1. <<>> \in Seq({})
      OBVIOUS
    <3> QED BY <3>1 DEF IsSequence
  <2>7. Bound(c)
    BY <2>2, ReportsBound
  <2>8. Basic(y)
    BY <2>2, <2>4, <2>5, <2>6, <2>7 DEF Bound, Basic, Entire, Named
  <2>9. y.active = 0 => Between(y)
    BY <2>5, <2>7 DEF Bound, Between, Ends
  <2>10. y.active # 0 => Active(y)
    <3>1. SUFFICES ASSUME y.active # 0 PROVE Active(y)
      OBVIOUS
    <3>2. h.active # 0 /\ c.active # 0
      BY <2>2, <2>5, <3>1 DEF Reports
    <3>3. is_controllable(h.gate, authority(h), t)
      BY <3>2, RestsControl
    <3>4. is_revoked(c.gate.receipt)
      BY <1>1, <3>2, <3>3, CancelReports DEF Bound, Basic
    <3> QED BY <2>4, <2>5, <2>7, <3>2, <3>4 DEF Bound, Active, IsNumbered, operation_of
  <2> QED BY <2>1, <2>2, <2>5, <2>8, <2>9, <2>10 DEF Bound, Ends, Late, Reports
<1> QED BY <1>3, <1>4

\* lose_worker.
LEMMA LoseBound ==
  ASSUME NEW h, Bound(h), Rests(h), NEW t \in Nat, NEW r, r = lose_worker(h, t)
  PROVE  /\ Basic(r) /\ r.channel = FALSE /\ r.backend = h.backend
         /\ r.raised = "no" => Bound(r)
<1>1. PICK x : x = IF h.closing THEN h ELSE fail_worker(h, t)
  OBVIOUS
<1>2. Basic(x) /\ x.backend = h.backend /\ (x.raised = "no" => Bound(x))
  BY <1>1, FailKeeps, FailBound DEF Bound
<1>3. r = [x EXCEPT !.channel = FALSE]
  BY <1>1 DEF lose_worker
<1>4. /\ DOMAIN r = DOMAIN x /\ r.gate = x.gate /\ r.active = x.active
      /\ r.records = x.records /\ r.phase = x.phase /\ r.asked = x.asked
      /\ r.queue = x.queue /\ r.prediction = x.prediction /\ r.backend = x.backend
      /\ r.fixed_action = x.fixed_action /\ r.last_action = x.last_action
      /\ r.closing = x.closing /\ r.failure = x.failure /\ r.raised = x.raised
      /\ r.channel = FALSE
  BY <1>2, <1>3 DEF Basic, Entire, HostKeys, HostFields
<1>5. Basic(r)
  BY <1>2, <1>4 DEF Basic, Entire, Named
<1>6. BackendKeys \subseteq DOMAIN x.backend
  BY <1>2 DEF Basic, Entire
<1>7. Bound(x) => Bound(r)
  BY <1>4, <1>6, SameBound
<1> QED BY <1>2, <1>4, <1>5, <1>7

\* One sequence after another.
Joins(q, s, z) == q = s \o z

\* Its elements are those of the two.
LEMMA SequenceConcat ==
  ASSUME NEW T, NEW s, s \in Seq(T), NEW z, z \in Seq(T), NEW q, Joins(q, s, z)
  PROVE  /\ IsSequence(q)
         /\ \A i \in DOMAIN q : \/ i \in DOMAIN s /\ q[i] = s[i]
                                \/ i - Len(s) \in DOMAIN z /\ q[i] = z[i - Len(s)]
<1>1. q = s \o z /\ q \in Seq(T) /\ Len(q) = Len(s) + Len(z)
  BY DEF Joins
<1>2. DOMAIN q = 1..Len(s) + Len(z) /\ DOMAIN s = 1..Len(s) /\ DOMAIN z = 1..Len(z)
      /\ Len(s) \in Nat /\ Len(z) \in Nat
  BY <1>1
<1>3. ASSUME NEW i \in 1..Len(s) + Len(z), i <= Len(s)
      PROVE  q[i] = s[i] /\ i \in 1..Len(s)
  BY <1>1, <1>3
<1>4. ASSUME NEW i \in 1..Len(s) + Len(z), i > Len(s)
      PROVE  q[i] = z[i - Len(s)] /\ i - Len(s) \in 1..Len(z)
  BY <1>1, <1>4
<1> QED BY <1>1, <1>2, <1>3, <1>4 DEF IsSequence

\* The sequence of one value, n times, after another one.
Repeats(y, x) == y \in Seq({x})

\* Its elements are those of the first, and the value.
LEMMA SequenceRepeat ==
  ASSUME NEW s, IsSequence(s), NEW x, NEW y, Repeats(y, x), NEW q, Joins(q, s, y)
  PROVE  /\ IsSequence(q)
         /\ \A i \in DOMAIN q : (i \in DOMAIN s /\ q[i] = s[i]) \/ q[i] = x
<1>1. PICK S : s \in Seq(S)
  BY DEF IsSequence
<1>2. PICK T : T = S \cup {x}
  OBVIOUS
<1>3. s \in Seq(T) /\ y \in Seq(T)
  BY <1>1, <1>2 DEF Repeats
<1>4. \A i \in DOMAIN y : y[i] = x
  BY DEF Repeats
<1>5. /\ IsSequence(q)
      /\ \A i \in DOMAIN q : \/ i \in DOMAIN s /\ q[i] = s[i]
                             \/ i - Len(s) \in DOMAIN y /\ q[i] = y[i - Len(s)]
  BY ONLY <1>3, Joins(q, s, y), SequenceConcat
<1>6. ASSUME NEW i \in DOMAIN q
      PROVE  (i \in DOMAIN s /\ q[i] = s[i]) \/ q[i] = x
  <2>1. PICK j : j = i - Len(s)
    OBVIOUS
  <2>2. \/ i \in DOMAIN s /\ q[i] = s[i]
        \/ j \in DOMAIN y /\ q[i] = y[j]
    BY <1>5, <2>1
  <2> QED BY <1>4, <2>2
<1> QED BY <1>5, <1>6

\* The rest of a sequence.
LEMMA SequenceTail ==
  ASSUME NEW s, IsSequence(s), s # <<>>
  PROVE  /\ 1 \in DOMAIN s /\ Head(s) = s[1] /\ IsSequence(Tail(s))
         /\ \A i \in DOMAIN Tail(s) : i + 1 \in DOMAIN s /\ Tail(s)[i] = s[i + 1]
<1>1. PICK S : s \in Seq(S)
  BY DEF IsSequence
<1>2. Tail(s) \in Seq(S) /\ Len(s) >= 1 /\ Head(s) = s[1] /\ Len(Tail(s)) = Len(s) - 1
  BY <1>1
<1> QED BY <1>1, <1>2 DEF IsSequence

\* take_prediction: the candidates are those of what was asked last.
LEMMA TakeBound ==
  ASSUME NEW h, Bound(h), h.active = 0 => h.prediction = {}, NEW m, is_answer(h, m),
         NEW r, r = take_prediction(h, m)
  PROVE  /\ Bound(r) /\ r.backend = h.backend /\ r.gate = h.gate
         /\ r.active = h.active /\ r.channel = h.channel
<1>1. PICK p \in h.prediction : m.number = p.number /\ m.count = p.count
  BY DEF is_answer, matches_identity
<1>2. PICK wanted, y, z : /\ wanted = (is_current(h) /\ ~h.closing /\ ~h.failure)
                          /\ y = [i \in 1..m.count |-> m.number]
                          /\ z = h.queue \o y
  OBVIOUS
<1>3. r = [h EXCEPT !.prediction = {}, !.queue = IF wanted THEN z ELSE @]
  BY ONLY <1>2, r = take_prediction(h, m) DEF take_prediction
<1>4. /\ DOMAIN r = DOMAIN h /\ r.gate = h.gate /\ r.active = h.active
      /\ r.records = h.records /\ r.phase = h.phase /\ r.asked = h.asked
      /\ r.queue = (IF wanted THEN z ELSE h.queue) /\ r.prediction = {}
      /\ r.backend = h.backend
      /\ r.fixed_action = h.fixed_action /\ r.last_action = h.last_action
      /\ r.closing = h.closing /\ r.failure = h.failure /\ r.channel = h.channel
  BY <1>3 DEF Bound, Basic, Entire, HostKeys, HostFields
<1>5. CASE ~wanted
  BY <1>4, <1>5, SameBound DEF Bound, Basic, Entire
<1>6. CASE wanted
  <2>1. ~Ends(h) /\ ~Ends(r) /\ h.active # 0 /\ operation_of(r) = operation_of(h)
    BY <1>1, <1>2, <1>4, <1>6 DEF Ends, operation_of
  <2>2. Active(h) /\ Asks(h) /\ Acts(h)
    BY <2>1 DEF Bound
  <2>3. m.number = Len(h.asked) /\ m.count \in Int
    BY <1>1, <2>2 DEF Asks
  <2>4. /\ IsSequence(z)
        /\ \A i \in DOMAIN z : (i \in DOMAIN h.queue /\ z[i] = h.queue[i]) \/ z[i] = m.number
    <3>1. PICK n, x, s : n = m.count /\ x = m.number /\ s = h.queue
      OBVIOUS
    <3>2. y = [i \in 1..n |-> x]
      BY <1>2, <3>1
    <3>3. IsSequence(s) /\ n \in Int
      BY <2>3, <3>1 DEF Bound, Basic
    <3>5. y \in Seq({x})
      <4>1. CASE n >= 0
        <5>1. n \in Nat
          BY <3>3, <4>1
        <5> QED BY <3>2, <5>1
      <4>2. CASE n < 0
        <5>1. 1..n = 1..0
          BY <3>3, <4>2
        <5>2. y = [i \in 1..0 |-> x]
          BY <3>2, <5>1
        <5> QED BY <5>2
      <4> QED BY <3>3, <4>1, <4>2
    <3>4. /\ IsSequence(z)
          /\ \A i \in DOMAIN z : (i \in DOMAIN s /\ z[i] = s[i]) \/ z[i] = x
      <4>1. Joins(z, s, y) /\ Repeats(y, x)
        BY <1>2, <3>1, <3>5 DEF Joins, Repeats
      <4> QED BY ONLY <3>3, <4>1, SequenceRepeat
    <3> QED BY ONLY <3>1, <3>4
  <2>5. Basic(r)
    BY <1>4, <1>6, <2>4 DEF Bound, Basic, Entire, Named
  <2>6. Len(h.asked) \in DOMAIN h.asked /\ h.asked[Len(h.asked)] = operation_of(h)
    BY <1>1, <2>2 DEF Asks
  <2>7. Asks(r)
    <3>1. \A i \in DOMAIN z : z[i] = Len(h.asked)
      BY <2>2, <2>3, <2>4 DEF Asks
    <3> QED BY <1>4, <1>6, <2>1, <2>6, <3>1 DEF Asks
  <2>8. Active(r) /\ Acts(r)
    BY <1>4, <2>1, <2>2 DEF Active, IsNumbered, Acts, Gave, Proposed
  <2> QED BY <1>4, <2>1, <2>5, <2>7, <2>8 DEF Bound
<1> QED BY <1>4, <1>5, <1>6

\* initialize.
LEMMA InitializeBound ==
  ASSUME NEW h, Bound(h), h.phase = "starting", h.active = 0, NEW t,
         NEW r, r = initialize(h, t)
  PROVE  /\ Entire(r) /\ r.active = 0 /\ r.backend = h.backend
         /\ r.raised = "no" => Bound(r)
<1>1. PICK a : a = [h EXCEPT !.worker_ready = TRUE]
  OBVIOUS
<1>2. /\ Bound(a) /\ Entire(a) /\ a.active = 0 /\ a.backend = h.backend
      /\ ~Ends(a)
  <2>1. /\ DOMAIN a = DOMAIN h /\ a.gate = h.gate /\ a.active = h.active
        /\ a.records = h.records /\ a.phase = h.phase /\ a.asked = h.asked
        /\ a.queue = h.queue /\ a.prediction = h.prediction /\ a.backend = h.backend
        /\ a.fixed_action = h.fixed_action /\ a.last_action = h.last_action
        /\ a.closing = h.closing /\ a.failure = h.failure
        /\ BackendKeys \subseteq DOMAIN h.backend
    BY <1>1 DEF Bound, Basic, Entire, HostKeys, HostFields
  <2>2. Bound(a)
    BY <2>1, SameBound
  <2>3. ~Ends(a)
    BY <2>1 DEF Bound, Late, Ends
  <2> QED BY <2>1, <2>2, <2>3 DEF Bound, Basic
<1>3. PICK b : b = startup(a, "idle", t)
  OBVIOUS
<1>4. PICK c : c = IF b.raised # "no" THEN b ELSE startup(b, "worker", t)
  OBVIOUS
<1>5. PICK d : d = IF c.raised # "no" THEN c ELSE startup(c, "sink", t)
  OBVIOUS
<1>6. PICK able : able = TRUE
  OBVIOUS
<1>7. PICK e : e = IF d.raised # "no" THEN d ELSE refresh_capability(d, able, t)
  OBVIOUS
<1>8. PICK f : f = IF e.raised # "no" THEN e ELSE [e EXCEPT !.phase = "ready"]
  OBVIOUS
<1>9. r = f
  <2>1. r = unless_raised(unless_raised(unless_raised(unless_raised(b,
              LAMBDA x : startup(x, "worker", t)), LAMBDA x : startup(x, "sink", t)),
              LAMBDA x : refresh_capability(x, TRUE, t)),
              LAMBDA x : [x EXCEPT !.phase = "ready"])
    BY ONLY <1>1, <1>3, r = initialize(h, t) DEF initialize
  <2>2. unless_raised(b, LAMBDA x : startup(x, "worker", t)) = c
    BY ONLY <1>4 DEF unless_raised, then
  <2>3. unless_raised(c, LAMBDA x : startup(x, "sink", t)) = d
    BY ONLY <1>5 DEF unless_raised, then
  <2>4. unless_raised(d, LAMBDA x : refresh_capability(x, TRUE, t)) = e
    BY ONLY <1>6, <1>7 DEF unless_raised, then
  <2>5. unless_raised(e, LAMBDA x : [x EXCEPT !.phase = "ready"]) = f
    BY ONLY <1>8 DEF unless_raised, then
  <2> QED BY ONLY <2>1, <2>2, <2>3, <2>4, <2>5
<1>10. Reports(b, a) /\ Entire(b)
  <2>1. Reports(b, a)
    BY <1>2, <1>3, StartupReports
  <2> QED BY <2>1 DEF Reports, Spares
<1>11. Reports(c, b) /\ Entire(c)
  <2>1. Reports(c, b)
    BY <1>4, <1>10, StartupReports, ReportsSelf
  <2> QED BY <2>1 DEF Reports, Spares
<1>12. Reports(d, c) /\ Entire(d)
  <2>1. Reports(d, c)
    BY <1>5, <1>11, StartupReports, ReportsSelf
  <2> QED BY <2>1 DEF Reports, Spares
<1>13. Reports(e, d)
  BY <1>7, <1>12, RefreshReports, ReportsSelf
<1>14. Reports(e, a)
  BY <1>10, <1>11, <1>12, <1>13, ReportsThen
<1>15. Bound(e) /\ e.active = 0 /\ e.backend = h.backend /\ ~Ends(e) /\ Entire(e)
  BY <1>2, <1>14, ReportsBound DEF Reports, Spares, Ends
<1>16. CASE e.raised # "no"
  BY <1>8, <1>9, <1>15, <1>16
<1>17. CASE e.raised = "no"
  <2>1. f = [e EXCEPT !.phase = "ready"]
    BY <1>8, <1>17
  <2>2. /\ DOMAIN f = DOMAIN e /\ f.gate = e.gate /\ f.active = e.active
        /\ f.records = e.records /\ f.asked = e.asked
        /\ f.queue = e.queue /\ f.prediction = e.prediction /\ f.backend = e.backend
        /\ f.fixed_action = e.fixed_action /\ f.last_action = e.last_action
        /\ f.closing = e.closing /\ f.failure = e.failure
    BY <1>15, <2>1 DEF Entire, HostKeys, HostFields
  <2>3. Basic(f) /\ ~Ends(f)
    BY <1>15, <2>2 DEF Bound, Basic, Entire, Named, Ends
  <2>4. Between(f)
    BY <1>15, <2>2 DEF Bound, Between, Ends, Gave
  <2> QED BY <1>9, <1>15, <2>2, <2>3, <2>4 DEF Bound, Basic
<1> QED BY <1>16, <1>17

-----------------------------------------------------------------------------
(* The messages of the worker *)

\* The host while it listens to the worker: no effect is made.
Hearing(h, b) ==
  /\ Ok(h) /\ Entire(h) /\ h.backend = b
  /\ h.raised = "no" => Bound(h) /\ (h.channel => Rests(h))

\* worker_message.
LEMMA MessageBound ==
  ASSUME NEW b, NEW h, Hearing(h, b), h.channel, h.raised = "no", NEW m, NEW t \in Nat,
         NEW r, r = worker_message(h, m, t)
  PROVE  Hearing(r, b)
<1>1. Sound(h) /\ Bound(h) /\ Rests(h) /\ Entire(h) /\ h.backend = b
  BY DEF Hearing, Ok
<1>2. Ok(r)
  BY <1>1, MessageOk
<1>3. CASE is_greeting(h, m)
  <2>1. r = initialize(h, t)
    BY <1>3 DEF worker_message
  <2>2. h.phase = "starting" /\ h.active = 0
    BY <1>1, <1>3 DEF is_greeting, Sound, Early
  <2>3. /\ Entire(r) /\ r.active = 0 /\ r.backend = h.backend
        /\ r.raised = "no" => Bound(r)
    BY <1>1, <2>1, <2>2, InitializeBound
  <2> QED BY <1>1, <1>2, <2>3 DEF Hearing, Rests
<1>4. CASE ~is_greeting(h, m) /\ is_answer(h, m)
  <2>1. r = take_prediction(h, m)
    BY <1>4 DEF worker_message
  <2>2. h.active = 0 => h.prediction = {}
    BY <1>1 DEF Bound, Between
  <2>3. Bound(r) /\ r.backend = h.backend /\ r.gate = h.gate /\ r.active = h.active
    BY <1>1, <1>4, <2>1, <2>2, TakeBound
  <2> QED BY <1>1, <1>2, <2>3 DEF Hearing, Rests, Bound, Basic
<1>5. CASE ~is_greeting(h, m) /\ ~is_answer(h, m)
  <2>1. r = lose_worker(h, t)
    BY <1>5 DEF worker_message
  <2>2. /\ Basic(r) /\ r.channel = FALSE /\ r.backend = h.backend
        /\ r.raised = "no" => Bound(r)
    BY <1>1, <2>1, LoseBound
  <2> QED BY <1>1, <1>2, <2>2 DEF Hearing, Basic
<1> QED BY <1>3, <1>4, <1>5

\* A message is not read after the channel was given up, nor after an exception.
LEMMA HearBound ==
  ASSUME NEW b, NEW h, Hearing(h, b), NEW m, NEW t \in Nat, NEW r, r = hear(h, m, t)
  PROVE  Hearing(r, b)
BY MessageBound DEF hear

\* All messages that wait are read.
LEMMA HeardBound ==
  ASSUME NEW b, NEW h, Hearing(h, b), NEW messages, IsSequence(messages), NEW t \in Nat,
         NEW r, r = heard(h, messages, t)
  PROVE  Hearing(r, b)
<1> DEFINE L == Len(messages)
           after == CHOOSE a : a = [n \in 0..L |->
                      IF n = 0 THEN h ELSE hear(a[n - 1], messages[n], t)]
<1>1. L \in Nat
  BY SequenceHas
<1>2. r = after[L]
  BY DEF heard
<1>3. \E a : a = [n \in 0..L |-> IF n = 0 THEN h ELSE hear(a[n - 1], messages[n], t)]
  <2> HIDE DEF L
  <2>1. \E a : Listening(a, h, messages, t, L)
    BY <1>1, ListeningExists
  <2> QED BY <2>1, Zenon DEF Listening
<1>4. after = [n \in 0..L |-> IF n = 0 THEN h ELSE hear(after[n - 1], messages[n], t)]
  <2> HIDE DEF L
  <2> QED BY <1>3, Zenon
<1> HIDE DEF after
<1>5. \A n \in 0..L : after[n] = IF n = 0 THEN h ELSE hear(after[n - 1], messages[n], t)
  BY <1>4, Zenon
<1> DEFINE S == {n \in 0..L : ~Hearing(after[n], b)}
<1>6. S = {}
  <2>1. SUFFICES ASSUME S # {} PROVE FALSE
    OBVIOUS
  <2>2. S \in SUBSET Nat
    BY <1>1
  <2>3. PICK m \in S : \A n \in S : m <= n
    <3> HIDE DEF S
    <3> QED BY <2>1, <2>2, LeastNatural
  <2>4. m # 0
    BY <1>1, <1>5, <2>3
  <2>5. m \in 1..L /\ m - 1 \in 0..L /\ m - 1 \notin S
    BY <1>1, <2>3, <2>4
  <2>6. Hearing(after[m - 1], b)
    BY <2>5
  <2>7. after[m] = hear(after[m - 1], messages[m], t)
    BY <1>5, <2>4, <2>5
  <2>8. Hearing(after[m], b)
    <3>1. PICK u : u = after[m - 1]
      OBVIOUS
    <3>2. PICK v : v = messages[m]
      OBVIOUS
    <3> QED BY <2>6, <2>7, <3>1, <3>2, HearBound
  <2> QED BY <2>3, <2>8
<1> QED BY <1>1, <1>2, <1>6

\* stop_worker.
LEMMA StopBound ==
  ASSUME NEW h, Bound(h), NEW r, r = stop_worker(h)
  PROVE  /\ Bound(r) /\ r.backend = h.backend /\ r.gate = h.gate
         /\ r.active = h.active /\ r.raised = h.raised
<1>1. BackendKeys \subseteq DOMAIN h.backend
  BY DEF Bound, Basic, Entire
<1>2. /\ DOMAIN r = DOMAIN h /\ r.gate = h.gate /\ r.active = h.active
      /\ r.records = h.records /\ r.phase = h.phase /\ r.asked = h.asked
      /\ r.queue = h.queue /\ r.backend = h.backend /\ r.raised = h.raised
      /\ r.fixed_action = h.fixed_action /\ r.last_action = h.last_action
      /\ r.closing = h.closing /\ r.failure = h.failure
      /\ (r.prediction = h.prediction \/ r.prediction = {})
  BY DEF stop_worker, Bound, Basic, Entire, HostKeys, HostFields
<1> QED BY <1>1, <1>2, SameBound

\* predict: what is asked, is asked for the active operation.
LEMMA PredictBound ==
  ASSUME NEW h, Bound(h), h.active \in DOMAIN h.records, h.active # 0, ~Ends(h),
         h.prediction = {}, h.queue = <<>>, h.fixed_action = 0, NEW r, r = predict(h)
  PROVE  Bound(r) /\ r.backend = h.backend
<1>1. PICK most, rest, n : /\ most = Steps[h.records[h.active].skill]
                            /\ rest = most - h.backend.steps
                            /\ n = IF rest < Chunk THEN rest ELSE Chunk
  OBVIOUS
<1>2. PICK p, s : /\ p = [kind |-> "predict", number |-> Len(h.asked) + 1, count |-> n]
                  /\ s = Append(h.asked, authority(h).operation_id)
  OBVIOUS
<1>3. PICK y : y = [h EXCEPT !.asked = s, !.prediction = {p}, !.outbox = Append(@, p)]
  OBVIOUS
<1>4. r = IF h.channel THEN y ELSE raise(h, "channel")
  BY ONLY <1>1, <1>2, <1>3, r = predict(h) DEF predict
<1>5. CASE ~h.channel
  <2>1. Reports(r, h)
    BY <1>4, <1>5, RaiseReports DEF Bound, Basic
  <2> QED BY <2>1, ReportsBound DEF Reports
<1>6. CASE h.channel
  <2>1. /\ DOMAIN r = DOMAIN h /\ r.gate = h.gate /\ r.active = h.active
        /\ r.records = h.records /\ r.phase = h.phase /\ r.asked = s
        /\ r.queue = <<>> /\ r.prediction = {p} /\ r.backend = h.backend
        /\ r.fixed_action = 0 /\ r.last_action = h.last_action
        /\ r.closing = h.closing /\ r.failure = h.failure
    BY <1>3, <1>4, <1>6 DEF Bound, Basic, Entire, HostKeys, HostFields
  <2>2. n \in Int
    <3>1. h.records[h.active].skill \in Skill
      BY DEF Bound, Basic, Named
    <3>2. most \in 1..MaximumSteps
      BY <1>1, <3>1, PythonHostAssumption
    <3>3. MaximumSteps \in Nat /\ Chunk \in Nat
      BY PythonHostAssumption, NumberAssumption
    <3> QED BY <1>1, <3>2, <3>3 DEF Bound, Basic
  <2>3. Len(h.asked) \in Nat /\ DOMAIN h.asked = 1..Len(h.asked)
    BY SequenceHas DEF Bound, Basic
  <2>4. PICK a, w : a = h.asked /\ w = operation_of(h)
    OBVIOUS
  <2>5. IsSequence(a) /\ s = Append(a, w)
    BY <1>2, <2>4 DEF Bound, Basic, authority, operation_of
  <2>6. /\ IsSequence(s) /\ DOMAIN s = 1..Len(a) + 1 /\ s[Len(a) + 1] = w
        /\ \A j \in DOMAIN s : j # Len(a) + 1 => j \in DOMAIN a /\ s[j] = a[j]
    <3>1. IsSequence(s)
      BY ONLY <2>5, SequenceAnd
    <3>2. DOMAIN s = 1..Len(a) + 1
      BY ONLY <2>5, SequenceAnd
    <3>3. s[Len(a) + 1] = w
      BY ONLY <2>5, SequenceAnd
    <3>4. \A j \in DOMAIN s : j # Len(a) + 1 => j \in DOMAIN a /\ s[j] = a[j]
      BY ONLY <2>5, SequenceAnd
    <3> QED BY ONLY <3>1, <3>2, <3>3, <3>4
  <2>7. Len(s) = Len(a) + 1
    <3>1. Len(s) \in Nat /\ DOMAIN s = 1..Len(s)
      BY ONLY <2>6, SequenceHas
    <3>2. Len(a) \in Nat
      BY <2>3, <2>4
    <3> QED BY ONLY <2>6, <3>1, <3>2
  <2>8. Basic(r)
    BY <2>1, <2>6 DEF Bound, Basic, Entire, Named
  <2>9. operation_of(r) = w /\ ~Ends(r)
    BY <2>1, <2>4 DEF operation_of, Ends
  <2>10. Active(r)
    BY <2>1, <2>4, <2>9 DEF Bound, Active, IsNumbered, Ends, operation_of
  <2>11. Len(s) \in DOMAIN s /\ s[Len(s)] = w
    BY <2>3, <2>4, <2>6, <2>7
  <2>12. DOMAIN <<>> = {}
    <3>1. <<>> \in Seq({})
      OBVIOUS
    <3> QED BY <3>1
  <2>13. Asks(r)
    BY <1>2, <2>1, <2>2, <2>4, <2>7, <2>9, <2>11, <2>12 DEF Asks
  <2>14. Proposed(h) => Proposed(r)
    <3>1. \A j \in DOMAIN a : j \in DOMAIN s /\ s[j] = a[j]
      BY <2>3, <2>4, <2>6
    <3> QED BY <2>1, <2>4, <2>9, <3>1 DEF Proposed
  <2>15. Acts(r)
    BY <2>1, <2>9, <2>14 DEF Bound, Acts
  <2> QED BY <2>1, <2>8, <2>9, <2>10, <2>13, <2>15 DEF Bound
<1> QED BY <1>5, <1>6

\* One effect, with a candidate of what was asked last or the one of a hold.
Effect(r, h) ==
  /\ r.backend.steps = h.backend.steps + 1 /\ r.asked = h.asked /\ ~Ends(r)
  /\ h.fixed_action # 0 => r.last_action = h.fixed_action
  /\ h.fixed_action = 0 =>
       /\ r.last_action = Len(h.asked) /\ Len(h.asked) \in DOMAIN h.asked
       /\ h.asked[Len(h.asked)] = operation_of(h)

\* The candidate that is used, the host without it, and its effect.
Used(h) == IF h.fixed_action # 0 THEN h.fixed_action ELSE Head(h.queue)

Popped(h) == IF h.fixed_action # 0 THEN h ELSE [h EXCEPT !.queue = Tail(@)]

Stepped(p, action) == [p EXCEPT !.backend.steps = @ + 1, !.last_action = action]

\* What an effect leaves is bound to the operation again.
LEMMA EffectBound ==
  ASSUME NEW h, Sound(h), Bound(h), Rests(h), h.active # 0, ~Ends(h), h.prediction = {},
         h.fixed_action # 0 \/ h.queue # <<>>, NEW p, NEW action, NEW r,
         p = Popped(h), action = Used(h), r = Stepped(p, action)
  PROVE  /\ Bound(p) /\ Sound(p) /\ Rests(p) /\ p.backend = h.backend
         /\ Bound(r) /\ Sound(r) /\ Effect(r, h) /\ r.active = h.active
         /\ r.backend.steps # 0 /\ r.raised = h.raised
<1>1. Active(h) /\ Asks(h) /\ Acts(h) /\ Entire(h) /\ h.backend.steps \in Nat
  BY DEF Bound, Basic
<1>2. /\ DOMAIN p = DOMAIN h /\ p.gate = h.gate /\ p.active = h.active
      /\ p.records = h.records /\ p.phase = h.phase /\ p.asked = h.asked
      /\ p.prediction = {} /\ p.backend = h.backend
      /\ p.fixed_action = h.fixed_action /\ p.last_action = h.last_action
      /\ p.closing = h.closing /\ p.failure = h.failure /\ p.raised = h.raised
      /\ p.queue = IF h.fixed_action # 0 THEN h.queue ELSE Tail(h.queue)
  BY <1>1 DEF Popped, Entire, HostKeys, HostFields
<1>3. h.fixed_action = 0 =>
        /\ action = Len(h.asked) /\ Len(h.asked) \in DOMAIN h.asked
        /\ h.asked[Len(h.asked)] = operation_of(h)
        /\ IsSequence(p.queue) /\ \A i \in DOMAIN p.queue : p.queue[i] = Len(h.asked)
  <2>1. SUFFICES ASSUME h.fixed_action = 0
                 PROVE  /\ action = Len(h.asked) /\ Len(h.asked) \in DOMAIN h.asked
                        /\ h.asked[Len(h.asked)] = operation_of(h)
                        /\ IsSequence(p.queue)
                        /\ \A i \in DOMAIN p.queue : p.queue[i] = Len(h.asked)
    OBVIOUS
  <2>2. PICK q, z : q = h.queue /\ z = Tail(q)
    OBVIOUS
  <2>3. IsSequence(q) /\ q # <<>>
    BY <2>1, <2>2 DEF Bound, Basic
  <2>4. /\ 1 \in DOMAIN q /\ Head(q) = q[1] /\ IsSequence(z)
        /\ \A i \in DOMAIN z : i + 1 \in DOMAIN q /\ z[i] = q[i + 1]
    BY <2>2, <2>3, SequenceTail
  <2>5. p.queue = z /\ action = Head(q)
    BY <1>2, <2>1, <2>2 DEF Used
  <2>6. \A i \in DOMAIN q : q[i] = Len(h.asked)
    BY <1>1, <2>2 DEF Asks
  <2>7. Len(h.asked) \in DOMAIN h.asked /\ h.asked[Len(h.asked)] = operation_of(h)
    BY <1>1, <2>2, <2>3 DEF Asks
  <2> QED BY <2>4, <2>5, <2>6, <2>7
<1>4. IsSequence(p.queue)
  BY <1>2, <1>3 DEF Bound, Basic
<1>5. Basic(p)
  BY <1>2, <1>4 DEF Bound, Basic, Entire, Named
<1>6. operation_of(p) = operation_of(h) /\ ~Ends(p)
  BY <1>2 DEF operation_of, Ends
<1>7. Active(p) /\ Acts(p)
  BY <1>1, <1>2, <1>6 DEF Active, IsNumbered, Acts, Gave, Proposed
<1>8. Asks(p)
  <2>1. CASE h.fixed_action = 0
    BY <1>2, <1>3, <1>6, <2>1 DEF Asks
  <2>2. CASE h.fixed_action # 0
    BY <1>1, <1>2, <1>6, <2>2 DEF Asks
  <2> QED BY <2>1, <2>2
<1>9. Bound(p) /\ Rests(p)
  BY <1>2, <1>5, <1>6, <1>7, <1>8 DEF Bound, Rests
<1>10. Sound(p)
  BY <1>2 DEF Sound, Shaped, Written
<1>11. PICK k, b : k = p.backend.steps + 1 /\ b = [p.backend EXCEPT !.steps = k]
  OBVIOUS
<1>12. r = [p EXCEPT !.backend = b, !.last_action = action]
  BY <1>2, <1>11 DEF Stepped, Entire, HostKeys, HostFields
<1>13. /\ DOMAIN r = DOMAIN p /\ r.gate = p.gate /\ r.active = p.active
       /\ r.records = p.records /\ r.phase = p.phase /\ r.asked = p.asked
       /\ r.prediction = {} /\ r.backend = b /\ r.queue = p.queue
       /\ r.fixed_action = p.fixed_action /\ r.last_action = action
       /\ r.closing = p.closing /\ r.failure = p.failure /\ r.raised = p.raised
  BY <1>1, <1>2, <1>12 DEF Entire, HostKeys, HostFields
<1>14. /\ DOMAIN b = DOMAIN h.backend /\ b.steps = k /\ b.profile = h.backend.profile
       /\ b.skill = h.backend.skill /\ b.stage = h.backend.stage
       /\ k \in Nat /\ k # 0 /\ k = h.backend.steps + 1
  BY <1>1, <1>2, <1>11 DEF Entire, BackendKeys
<1>15. operation_of(r) = operation_of(h) /\ ~Ends(r)
  BY <1>6, <1>13 DEF operation_of, Ends
<1>16. Basic(r)
  BY <1>5, <1>13, <1>14, <1>2 DEF Basic, Entire, Named
<1>17. Active(r)
  BY <1>7, <1>13, <1>6, <1>15 DEF Active, IsNumbered
<1>18. Asks(r)
  BY <1>8, <1>13, <1>6, <1>15 DEF Asks
<1>19. Acts(r)
  <2>1. Gave(p, p.fixed_action, operation_of(p)) => Gave(r, r.fixed_action, operation_of(r))
    BY <1>6, <1>13, <1>15 DEF Gave
  <2>2. h.fixed_action = 0 => Proposed(r)
    BY <1>2, <1>3, <1>13, <1>15 DEF Proposed
  <2> QED BY <1>2, <1>7, <1>13, <1>14, <2>1, <2>2 DEF Acts, is_handoff
<1>20. Bound(r)
  BY <1>2, <1>13, <1>15, <1>16, <1>17, <1>18, <1>19 DEF Bound
<1>21. Sound(r)
  BY <1>10, <1>13 DEF Sound, Shaped, Written
<1>22. Effect(r, h)
  BY <1>2, <1>3, <1>13, <1>14, <1>15 DEF Effect, Used
<1> QED BY <1>2, <1>9, <1>10, <1>13, <1>14, <1>20, <1>21, <1>22

\* step.
LEMMA StepBound ==
  ASSUME NEW h, Sound(h), Bound(h), Rests(h), h.active # 0, h.raised = "no", ~Ends(h),
         h.prediction = {}, h.fixed_action # 0 \/ h.queue # <<>>,
         NEW fails, NEW reason, NEW t, t[2] \in Nat, NEW r, r = step(h, fails, reason, t)
  PROVE  /\ Entire(r) /\ (r.raised = "no" => Bound(r))
         /\ r.backend.steps = h.backend.steps \/ Effect(r, h)
<1>1. PICK p : p = Popped(h)
  OBVIOUS
<1>2. PICK action : action = Used(h)
  OBVIOUS
<1>3. PICK s : s = Stepped(p, action)
  OBVIOUS
<1>4. /\ Bound(p) /\ Sound(p) /\ Rests(p) /\ p.backend = h.backend
      /\ Bound(s) /\ Sound(s) /\ Effect(s, h) /\ s.active = h.active
      /\ s.backend.steps # 0 /\ s.raised = h.raised
  BY <1>1, <1>2, <1>3, EffectBound
<1>5. PICK x, n : /\ x = IF s.backend.steps = 1 THEN native(s, "started", t[2]) ELSE s
                  /\ n = t[2]
  OBVIOUS
<1>6. Reports(x, s) /\ Calm(x, s)
  BY <1>4, <1>5, NativeReports, NativeCalm, ReportsSelf, CalmSelf DEF Bound, Basic, Sound
<1>7. Bound(x) /\ Sound(x) /\ Entire(x) /\ x.active # 0
  BY <1>4, <1>6, ReportsBound, CalmSound DEF Reports, Bound, Basic
<1>8. PICK v : v = FALSE
  OBVIOUS
<1>9. PICK w, f : w = [p EXCEPT !.backend.valid = v] /\ f = fail_worker(w, n)
  OBVIOUS
<1>10. /\ Bound(w) /\ Rests(w) /\ w.backend.steps = h.backend.steps
  <2>1. PICK b : b = [p.backend EXCEPT !.valid = v]
    OBVIOUS
  <2>2. w = [p EXCEPT !.backend = b]
    BY <1>9, <2>1
  <2>3. /\ DOMAIN b = DOMAIN p.backend /\ b.steps = p.backend.steps
        /\ b.profile = p.backend.profile /\ b.skill = p.backend.skill
        /\ b.stage = p.backend.stage /\ BackendKeys \subseteq DOMAIN p.backend
    BY <1>4, <2>1 DEF Bound, Basic, Entire, BackendKeys
  <2>4. /\ DOMAIN w = DOMAIN p /\ w.gate = p.gate /\ w.active = p.active
        /\ w.records = p.records /\ w.phase = p.phase /\ w.asked = p.asked
        /\ w.prediction = p.prediction /\ w.backend = b /\ w.queue = p.queue
        /\ w.fixed_action = p.fixed_action /\ w.last_action = p.last_action
        /\ w.closing = p.closing /\ w.failure = p.failure /\ w.raised = p.raised
    BY <1>4, <2>2 DEF Bound, Basic, Entire, HostKeys, HostFields
  <2>5. Bound(w)
    BY <1>4, <2>3, <2>4, SameBound
  <2> QED BY <1>4, <2>3, <2>4, <2>5 DEF Rests
<1>11. Entire(f) /\ f.backend.steps = h.backend.steps /\ (f.raised = "no" => Bound(f))
  <2>1. n \in Nat
    BY <1>5
  <2>4. Basic(w)
    BY <1>10 DEF Bound
  <2>5. f = fail_worker(w, n)
    BY <1>9
  <2>2. Basic(f) /\ f.backend = w.backend
    BY ONLY <2>4, <2>5, FailKeeps
  <2>3. f.raised = "no" => Bound(f)
    BY <1>9, <1>10, <2>1, FailBound
  <2> QED BY <1>10, <2>2, <2>3 DEF Basic
<1>12. PICK b, u : b = TRUE /\ u = Tail(t)
  OBVIOUS
<1>13. PICK e : e = finish(x, reason, b, u)
  OBVIOUS
<1>14. Effect(x, h)
  BY <1>4, <1>6 DEF Effect, Reports, Spares, Ends
<1>15. Completes(x, reason)
  <2>1. SUFFICES ASSUME is_handoff(x.backend), x.backend.skill = "policy"
                 PROVE  /\ x.last_action \in DOMAIN x.asked
                        /\ x.records[x.active].operation = x.asked[x.last_action]
    BY DEF Completes
  <2>2. ~Ends(x) /\ x.backend.steps # 0
    BY <1>4, <1>6, <1>14 DEF Effect, Reports
  <2>3. Active(x) /\ Acts(x)
    BY <1>7, <2>2 DEF Bound
  <2>4. Proposed(x)
    BY <2>1, <2>2, <2>3 DEF Acts
  <2> QED BY <2>3, <2>4 DEF Active, IsNumbered, Proposed
<1>16. x.raised = "no" => Entire(e) /\ Effect(e, h) /\ (e.raised = "no" => Bound(e))
  <2>1. SUFFICES ASSUME x.raised = "no"
                 PROVE  Entire(e) /\ Effect(e, h) /\ (e.raised = "no" => Bound(e))
    OBVIOUS
  <2>2. Basic(x) /\ IsNumbered(x)
    BY <1>7 DEF Bound, Active
  <2>3. Spares(e, x) /\ (e.raised = "no" => Bound(e))
    BY <1>7, <1>13, <1>15, <2>1, <2>2, FinishBound
  <2> QED BY <1>14, <2>3 DEF Effect, Spares, Ends
<1>17. r = f \/ r = x \/ (x.raised = "no" /\ r = e)
  <2>1. CASE fails
    <3>1. r = fail_worker([(IF h.fixed_action # 0 THEN h ELSE [h EXCEPT !.queue = Tail(@)])
                             EXCEPT !.backend.valid = FALSE], t[2])
      BY ONLY <2>1, r = step(h, fails, reason, t) DEF step
    <3>2. r = f
      BY ONLY <3>1, <1>1, <1>5, <1>8, <1>9 DEF Popped
    <3> QED BY <3>2
  <2>2. CASE ~fails
    <3>1. r = unless_raised(x, LAMBDA z : AfterEffect(z, reason, u))
      BY ONLY <2>2, <1>1, <1>2, <1>3, <1>5, <1>12, r = step(h, fails, reason, t)
         DEF step, AfterEffect, Popped, Used, Stepped
    <3>2. r = IF x.raised # "no" THEN x ELSE AfterEffect(x, reason, u)
      BY ONLY <3>1 DEF unless_raised, then
    <3>3. AfterEffect(x, reason, u) = IF reason = "none" THEN x ELSE e
      BY ONLY <1>12, <1>13 DEF AfterEffect
    <3> QED BY ONLY <3>2, <3>3
  <2> QED BY <2>1, <2>2
<1> QED BY <1>7, <1>11, <1>14, <1>16, <1>17

\* What the operation needs for an effect.
Authorized(h, t) ==
  /\ h.active # 0 /\ ~is_revoked(h.gate.receipt)
  /\ ~has_reached_deadline(h.gate.receipt, t) /\ ~Ends(h)

\* The operation that is current after its tick was current before, and the tick
\* changed nothing.
LEMMA TickStill ==
  ASSUME NEW h, Bound(h), Rests(h), h.active # 0, NEW t \in Nat, NEW r, r = tick(h, t),
         is_current(r)
  PROVE  r.gate = h.gate /\ Authorized(h, t)
<1>1. is_controllable(h.gate, authority(h), t)
  BY RestsControl
<1>2. /\ Reports(r, h)
      /\ has_reached_deadline(h.gate.receipt, t) => is_revoked(r.gate.receipt)
  BY <1>1, TickReports DEF Bound, Basic
<1>3. Active(h)
  BY DEF Bound
<1>4. /\ Held(r.gate.receipt)
      /\ is_revoked(h.gate.receipt) => is_revoked(r.gate.receipt)
  BY <1>2, <1>3 DEF Reports, Holds, Stays, Active
<1>5. ~is_revoked(r.gate.receipt)
  BY <1>4 DEF is_current, Held
<1>6. Authorized(h, t)
  BY <1>2, <1>3, <1>4, <1>5 DEF Authorized, Active
<1>7. r.gate = h.gate
  <2>1. r = [h EXCEPT !.gate = observe_time(h.gate, authority(h), t)]
    BY DEF tick
  <2>2. observe_time(h.gate, authority(h), t) = h.gate
    BY <1>6 DEF Authorized, observe_time, applies_expiry
  <2> QED BY <2>1, <2>2 DEF Bound, Basic, Entire, HostKeys, HostFields
<1> QED BY <1>6, <1>7

\* advance.
LEMMA AdvanceBound ==
  ASSUME NEW h, Sound(h), Bound(h), Rests(h), h.raised = "no", NEW fails, NEW reason,
         NEW t, t[1] \in Nat, Tail(t)[2] \in Nat, NEW r, r = advance(h, fails, reason, t)
  PROVE  /\ Entire(r) /\ (r.raised = "no" => Bound(r))
         /\ r.backend.steps = h.backend.steps
            \/ (Effect(r, h) /\ Authorized(h, t[1]) /\ Acts(h))
<1>0. PICK n, u : n = t[1] /\ u = Tail(t)
  OBVIOUS
<1>1. PICK a : a = tick(h, n)
  OBVIOUS
<1>2. /\ Calm(a, h) /\ Sound(a) /\ Reports(a, h) /\ Bound(a) /\ Entire(a)
      /\ a.raised = "no"
  <2>1. Calm(a, h)
    BY <1>1, TickCalm DEF Sound
  <2>2. Reports(a, h)
    BY <1>1, TickReports DEF Bound, Basic
  <2>3. a.raised = h.raised
    BY <1>1 DEF tick, Bound, Basic, Entire, HostKeys, HostFields
  <2> QED BY <2>1, <2>2, <2>3, CalmSound, ReportsBound DEF Reports, Spares
<1>3. PICK x, c, d : /\ x = [a EXCEPT !.queue = <<>>]
                     /\ c = cancel(a, t[2])
                     /\ d = [c EXCEPT !.queue = <<>>]
  OBVIOUS
<1>4. Reports(c, a) /\ Bound(c) /\ Entire(c)
  <2>1. Reports(c, a)
    BY <1>2, <1>3, CancelReports
  <2> QED BY <1>2, <2>1, ReportsBound DEF Reports, Spares
<1>5. /\ Bound(x) /\ Sound(x) /\ x.backend = h.backend /\ x.raised = "no"
      /\ x.active = h.active
  <2>1. /\ DOMAIN x = DOMAIN a /\ x.gate = a.gate /\ x.active = a.active
        /\ x.records = a.records /\ x.phase = a.phase /\ x.asked = a.asked
        /\ x.prediction = a.prediction /\ x.backend = a.backend /\ x.queue = <<>>
        /\ x.fixed_action = a.fixed_action /\ x.last_action = a.last_action
        /\ x.closing = a.closing /\ x.failure = a.failure /\ x.raised = a.raised
        /\ BackendKeys \subseteq DOMAIN a.backend
    BY <1>2, <1>3 DEF Entire, HostKeys, HostFields
  <2>2. Bound(x)
    BY <1>2, <2>1, SameBound
  <2>3. Sound(x)
    BY <1>2, <2>1 DEF Sound, Shaped, Written
  <2> QED BY <1>2, <2>1, <2>2, <2>3 DEF Reports
<1>6. Bound(d) /\ d.backend = h.backend
  <2>1. /\ DOMAIN d = DOMAIN c /\ d.gate = c.gate /\ d.active = c.active
        /\ d.records = c.records /\ d.phase = c.phase /\ d.asked = c.asked
        /\ d.prediction = c.prediction /\ d.backend = c.backend /\ d.queue = <<>>
        /\ d.fixed_action = c.fixed_action /\ d.last_action = c.last_action
        /\ d.closing = c.closing /\ d.failure = c.failure
        /\ BackendKeys \subseteq DOMAIN c.backend
    BY <1>3, <1>4 DEF Entire, HostKeys, HostFields
  <2>2. Bound(d)
    BY <1>4, <2>1, SameBound
  <2> QED BY <1>2, <1>4, <2>1, <2>2 DEF Reports
<1>7. PICK p : p = predict(a)
  OBVIOUS
<1>8. PICK b, k : b = TRUE /\ k = IF x.failure THEN "worker_error" ELSE "cancelled"
  OBVIOUS
<1>9. PICK f, s : f = finish(x, k, b, u) /\ s = step(a, fails, reason, u)
  OBVIOUS
<1>10. CASE h.active = 0
  <2>1. r = h
    BY <1>10 DEF advance
  <2> QED BY <2>1 DEF Bound, Basic
<1>11. CASE h.active # 0 /\ ~has_authority(h, n)
  <2>1. r = then(x, LAMBDA v : AfterLoss(v, u))
    BY ONLY <1>0, <1>1, <1>3, <1>8, <1>11, r = advance(h, fails, reason, t)
       DEF advance, AfterLoss
  <2>2. r = AfterLoss(x, u)
    BY ONLY <2>1 DEF then
  <2>3. AfterLoss(x, u) = x \/ AfterLoss(x, u) = f
    BY ONLY <1>8, <1>9 DEF AfterLoss
  <2>4. Completes(x, k)
    BY <1>8 DEF Completes
  <2>5. Basic(x) /\ IsNumbered(x)
    BY <1>5, <1>11 DEF Bound, Active
  <2>6. Spares(f, x) /\ (f.raised = "no" => Bound(f))
    BY <1>5, <1>9, <1>11, <2>4, <2>5, FinishBound
  <2>7. Entire(f) /\ f.backend.steps = h.backend.steps
    BY <1>5, <2>6 DEF Spares
  <2>8. Entire(x)
    BY <2>5 DEF Basic
  <2> QED BY <1>5, <2>2, <2>3, <2>6, <2>7, <2>8
<1>12. CASE h.active # 0 /\ has_authority(h, n)
  <2>1. \/ r = d \/ r = a
        \/ a.prediction = {} /\ a.queue = <<>> /\ a.fixed_action = 0 /\ r = p
        \/ a.prediction = {} /\ (a.queue # <<>> \/ a.fixed_action # 0) /\ r = s
    <3>1. PICK y : y = supports_execution(tick(h, t[1]).gate,
                          [profile_id |-> profile,
                           work_units |-> Steps[h.records[h.active].skill]], t[2])
      OBVIOUS
    <3>2. r = IF ~y THEN [cancel(tick(h, t[1]), t[2]) EXCEPT !.queue = <<>>]
              ELSE IF tick(h, t[1]).prediction # {} THEN tick(h, t[1])
              ELSE IF tick(h, t[1]).queue = <<>> /\ tick(h, t[1]).fixed_action = 0
                THEN predict(tick(h, t[1]))
              ELSE step(tick(h, t[1]), fails, reason, Tail(t))
      BY ONLY <1>0, <1>12, <3>1, r = advance(h, fails, reason, t) DEF advance
    <3>3. r = IF ~y THEN d
              ELSE IF a.prediction # {} THEN a
              ELSE IF a.queue = <<>> /\ a.fixed_action = 0 THEN p
              ELSE s
      BY ONLY <3>2, <1>0, <1>1, <1>3, <1>7, <1>9
    <3> QED BY ONLY <3>3
  <2>2. is_current(a)
    BY <1>1, <1>12 DEF has_authority
  <2>3. a.gate = h.gate /\ Authorized(h, n)
    BY <1>0, <1>1, <1>12, <2>2, TickStill
  <2>4. Rests(a) /\ ~Ends(a) /\ a.active # 0 /\ Acts(h)
    BY <1>2, <1>12, <2>3 DEF Rests, Authorized, Ends, Bound, Reports, Spares
  <2>5. a.backend = h.backend
    BY <1>2 DEF Reports
  <2>6. a.active \in DOMAIN a.records
    BY <1>2, <2>4 DEF Sound
  <2>7. CASE r = d
    BY <1>6, <2>7 DEF Bound, Basic
  <2>8. CASE r = a
    BY <1>2, <2>5, <2>8
  <2>9. CASE a.prediction = {} /\ a.queue = <<>> /\ a.fixed_action = 0 /\ r = p
    <3>1. Bound(p) /\ p.backend = a.backend
      BY <1>2, <1>7, <2>4, <2>6, <2>9, PredictBound
    <3> QED BY <2>5, <2>9, <3>1 DEF Bound, Basic
  <2>10. CASE a.prediction = {} /\ (a.queue # <<>> \/ a.fixed_action # 0) /\ r = s
    <3>1. u[2] \in Nat
      BY <1>0
    <3>2. /\ Entire(s) /\ (s.raised = "no" => Bound(s))
          /\ s.backend.steps = a.backend.steps \/ Effect(s, a)
      BY <1>2, <1>9, <2>4, <2>10, <3>1, StepBound
    <3>3. Effect(s, a) => Effect(s, h)
      BY <1>2 DEF Effect, Reports, Spares, Holds, Stays, operation_of
    <3> QED BY <1>0, <2>3, <2>4, <2>5, <2>10, <3>2, <3>3
  <2> QED BY <2>1, <2>7, <2>8, <2>9, <2>10
<1> QED BY <1>0, <1>10, <1>11, <1>12

-----------------------------------------------------------------------------
(* A new operation *)

\* A report keeps what is basic, and the number of the operation.
LEMMA ReportsNumber ==
  ASSUME NEW h, Basic(h), NEW r, Reports(r, h)
  PROVE  Basic(r) /\ (IsNumbered(h) => IsNumbered(r))
BY DEF Basic, Reports, Spares, Named, IsNumbered, Holds, Stays, operation_of

\* An effect that was never dispatched.
LEMMA UnsubmittedBound ==
  ASSUME NEW h, Sound(h), h.active # 0, h.raised = "no", Basic(h), IsNumbered(h),
         NEW reason, reason # "completed", NEW t, NEW u,
         NEW r, r = Unsubmitted(h, reason, t, u)
  PROVE  /\ Entire(r) /\ r.backend.steps = h.backend.steps
         /\ r.raised = "no" => Bound(r)
<1>1. PICK y : y = non_submission(h, t)
  OBVIOUS
<1>2. Calm(y, h) /\ Reports(y, h)
  BY <1>1, NonSubmissionCalm, NonSubmissionReports DEF Sound, Basic
<1>3. Sound(y) /\ y.active # 0 /\ Basic(y) /\ IsNumbered(y)
  BY <1>2, CalmSound, ReportsNumber DEF Calm
<1>4. PICK b : b = FALSE
  OBVIOUS
<1>5. PICK f : f = finish(y, reason, b, u)
  OBVIOUS
<1>6. Completes(y, reason)
  BY DEF Completes
<1>7. y.raised = "no" => Spares(f, y) /\ (f.raised = "no" => Bound(f))
  BY <1>3, <1>5, <1>6, FinishBound
<1>8. r = unless_raised(y, LAMBDA v : finish(v, reason, FALSE, u))
  BY ONLY <1>1, r = Unsubmitted(h, reason, t, u) DEF Unsubmitted
<1>9. r = IF y.raised # "no" THEN y ELSE finish(y, reason, FALSE, u)
  BY ONLY <1>8 DEF unless_raised, then
<1>10. r = IF y.raised # "no" THEN y ELSE f
  BY ONLY <1>4, <1>5, <1>9
<1> QED BY <1>2, <1>7, <1>10 DEF Reports, Spares

\* admit: the operation gets its number, and nothing happened to it yet.
LEMMA AdmitHolds ==
  ASSUME NEW g, Whole(g), g.next_operation_id \in Nat, NEW q, admits(g, q),
         \A d \in q.deadline : d \in Int, NEW x, x = admit(g, q)
  PROVE  /\ Whole(x) /\ Held(x.receipt) /\ x.binding = g.binding
         /\ x.receipt.authority.operation_id = g.next_operation_id
         /\ x.receipt.authority.binding = g.binding
         /\ g.next_operation_id # 0
         /\ x.next_operation_id = following_operation_id(g.next_operation_id)
         /\ x.next_operation_id \in Nat
<1>1. PICK a, s : /\ a = [operation_id |-> g.next_operation_id,
                          binding |-> g.binding, admitted_at |-> q.requested_at]
                  /\ s = new_receipt(a, q.deadline, q.requirements)
  OBVIOUS
<1>2. x = [g EXCEPT !.next_operation_id = following_operation_id(@), !.receipt = s,
                    !.last_native = {}]
  BY <1>1 DEF admit
<1>3. /\ DOMAIN x = DOMAIN g /\ x.receipt = s /\ x.binding = g.binding
      /\ x.next_operation_id = following_operation_id(g.next_operation_id)
  BY <1>2 DEF Whole, GateKeys
<1>4. WholeReceipt(s) /\ s.authority = a
  BY <1>1 DEF new_receipt, WholeReceipt, ReceiptKeys, AuthorityKeys
<1>5. Held(s)
  BY <1>1 DEF new_receipt, Held, Dated, is_revoked, revocations
<1>6. g.next_operation_id # 0
  BY DEF admits
<1>7. x.next_operation_id \in Nat
  BY <1>3 DEF following_operation_id
<1> QED BY <1>1, <1>3, <1>4, <1>5, <1>6, <1>7 DEF Whole

\* The host with a new record.
LEMMA AdmittedBound ==
  ASSUME NEW h, Sound(h), Bound(h), h.active = 0, NEW skill \in Skill, NEW q,
         admits(h.gate, q), \A d \in q.deadline : d \in Int,
         NEW x, x = Admitted(h, skill, q)
  PROVE  /\ Sound(x) /\ x.active # 0 /\ Basic(x) /\ IsNumbered(x) /\ Held(x.gate.receipt)
         /\ x.gate.receipt.authority.binding = x.gate.binding
         /\ operation_of(x) = h.gate.next_operation_id
         /\ x.backend = h.backend /\ x.raised = h.raised /\ x.asked = h.asked
         /\ x.closing = h.closing /\ x.failure = h.failure /\ x.prediction = h.prediction
         /\ x.queue = h.queue
         /\ \A j \in DOMAIN h.records :
              j \in DOMAIN x.records /\ x.records[j] = h.records[j]
<1>1. PICK n : n = new_record(h.gate.next_operation_id, skill)
  OBVIOUS
<1>2. PICK g : g = admit(h.gate, q)
  OBVIOUS
<1>3. /\ Sound(x) /\ x.active # 0
      /\ x.records[x.active] = n
      /\ \A j \in DOMAIN x.records :
           j # x.active => j \in DOMAIN h.records /\ x.records[j] = h.records[j]
      /\ \A j \in DOMAIN h.records : j \in DOMAIN x.records /\ x.records[j] = h.records[j]
  BY <1>1, AdmittedSound
<1>4. /\ DOMAIN x = DOMAIN h /\ x.gate = g /\ x.backend = h.backend
      /\ x.raised = h.raised /\ x.asked = h.asked /\ x.queue = h.queue
      /\ x.closing = h.closing /\ x.failure = h.failure
      /\ x.prediction = h.prediction
  BY <1>2 DEF Admitted, Bound, Basic, Entire, HostKeys, HostFields
<1>5. /\ Whole(g) /\ Held(g.receipt) /\ g.binding = h.gate.binding
      /\ g.receipt.authority.operation_id = h.gate.next_operation_id
      /\ g.receipt.authority.binding = h.gate.binding
      /\ h.gate.next_operation_id # 0
      /\ g.next_operation_id = following_operation_id(h.gate.next_operation_id)
      /\ g.next_operation_id \in Nat
  BY <1>2, AdmitHolds DEF Bound, Basic, Entire
<1>6. /\ {"operation", "skill"} \subseteq DOMAIN n /\ n.skill = skill
      /\ n.operation = h.gate.next_operation_id
  BY <1>1 DEF new_record
<1>7. Named(x)
  <2>1. ASSUME NEW j \in DOMAIN x.records
        PROVE  {"operation", "skill"} \subseteq DOMAIN x.records[j] /\ x.records[j].skill \in Skill
    BY <1>3, <1>6 DEF Bound, Basic, Named
  <2> QED BY <2>1 DEF Named
<1>8. Basic(x)
  BY <1>4, <1>5, <1>7 DEF Bound, Basic, Entire
<1>9. operation_of(x) = h.gate.next_operation_id
  BY <1>4, <1>5 DEF operation_of
<1>10. IsNumbered(x)
  BY <1>3, <1>4, <1>5, <1>6, <1>9 DEF IsNumbered, Bound, Basic
<1> QED BY <1>3, <1>4, <1>5, <1>8, <1>9, <1>10

\* What begins.
Begun(x, h, skill) ==
  [x EXCEPT !.backend = begin_operation(@, skill),
            !.fixed_action = IF skill = "hold" THEN h.last_action ELSE 0]

\* A hold repeats what the transfer before it used last.
LEMMA BegunBound ==
  ASSUME NEW h, Sound(h), Bound(h), h.active = 0, ~Ends(h), NEW skill \in Skill, NEW q,
         admits(h.gate, q), \A d \in q.deadline : d \in Int, can_start(h.backend, skill),
         NEW x, x = Admitted(h, skill, q), NEW y, y = Begun(x, h, skill)
  PROVE  /\ Sound(y) /\ y.active # 0 /\ y.raised = h.raised /\ Bound(y)
         /\ y.backend.steps \in {h.backend.steps, 0}
<1>1. /\ Sound(x) /\ x.active # 0 /\ Basic(x) /\ IsNumbered(x) /\ Held(x.gate.receipt)
      /\ x.gate.receipt.authority.binding = x.gate.binding
      /\ operation_of(x) = h.gate.next_operation_id
      /\ x.backend = h.backend /\ x.raised = h.raised /\ x.asked = h.asked
      /\ x.closing = h.closing /\ x.failure = h.failure /\ x.prediction = h.prediction
      /\ x.queue = h.queue
      /\ \A j \in DOMAIN h.records : j \in DOMAIN x.records /\ x.records[j] = h.records[j]
  BY AdmittedBound
<1>2. PICK b, c : /\ b = begin_operation(h.backend, skill)
                  /\ c = IF skill = "hold" THEN h.last_action ELSE 0
  OBVIOUS
<1>3. y = [x EXCEPT !.backend = b, !.fixed_action = c]
  BY <1>1, <1>2 DEF Begun, Basic, Entire, HostKeys, HostFields
<1>4. /\ DOMAIN y = DOMAIN x /\ y.gate = x.gate /\ y.active = x.active
      /\ y.records = x.records /\ y.phase = x.phase /\ y.asked = x.asked
      /\ y.prediction = x.prediction /\ y.backend = b /\ y.queue = x.queue
      /\ y.fixed_action = c
      /\ y.closing = x.closing /\ y.failure = x.failure /\ y.raised = x.raised
  BY <1>1, <1>3 DEF Basic, Entire, HostKeys, HostFields
<1>5. /\ BackendKeys \subseteq DOMAIN b /\ b.profile = h.backend.profile
      /\ b.steps \in {h.backend.steps, 0} /\ b.steps \in Nat
      /\ is_handoff(b) => is_handoff(h.backend) /\ b.skill = skill /\ b.steps = 0
  BY <1>2 DEF begin_operation, is_handoff, Bound, Basic, Entire, BackendKeys
<1>6. Sound(y)
  BY <1>1, <1>4 DEF Sound, Shaped, Written
<1>7. Basic(y)
  BY <1>1, <1>4, <1>5 DEF Basic, Entire, Named
<1>8. operation_of(y) = h.gate.next_operation_id /\ ~Ends(y)
  BY <1>1, <1>4 DEF operation_of, Ends
<1>9. Active(y)
  BY <1>1, <1>4, <1>8 DEF Active, IsNumbered
<1>10. Between(h)
  BY DEF Bound
<1>11. Asks(y)
  <2>1. DOMAIN <<>> = {}
    <3>1. <<>> \in Seq({})
      OBVIOUS
    <3> QED BY <3>1
  <2> QED BY <1>1, <1>4, <1>10, <2>1 DEF Asks, Between
<1>12. Acts(y)
  <2>1. ASSUME c # 0
        PROVE  is_handoff(b) /\ b.skill = "hold" /\ Gave(y, c, h.gate.next_operation_id)
    <3>1. skill = "hold" /\ c = h.last_action
      BY <1>2, <2>1
    <3>2. is_handoff(h.backend) /\ h.backend.stage = "hold_ready"
      BY <3>1 DEF can_start
    <3>3. is_handoff(b)
      BY <1>5, <3>2 DEF is_handoff
    <3>4. Gave(h, c, h.gate.next_operation_id)
      BY <1>10, <3>1, <3>2 DEF Between
    <3>5. PICK i \in DOMAIN h.records :
            LET z == h.records[i]
            IN  /\ z.operation = h.asked[c] /\ z.operation \in Nat
                /\ following_operation_id(z.operation) = h.gate.next_operation_id
                /\ z.result = TRUE /\ z.output = "accepted"
      BY <3>4 DEF Gave
    <3>6. i \in DOMAIN y.records /\ y.records[i] = h.records[i]
      BY <1>1, <1>4
    <3>7. y.asked = h.asked /\ c \in DOMAIN h.asked
      BY <1>1, <1>4, <3>4 DEF Gave
    <3>8. Gave(y, c, h.gate.next_operation_id)
      BY <3>5, <3>6, <3>7 DEF Gave
    <3> QED BY <1>5, <3>1, <3>3, <3>8
  <2> QED BY <1>4, <1>5, <1>8, <2>1 DEF Acts
<1>13. Bound(y)
  BY <1>1, <1>4, <1>7, <1>8, <1>9, <1>11, <1>12 DEF Bound
<1> QED BY <1>1, <1>4, <1>5, <1>6, <1>13

\* submit.
LEMMA StartBound ==
  ASSUME NEW h, Sound(h), Bound(h), h.active = 0, h.raised = "no", NEW skill \in Skill,
         NEW q, admits(h.gate, q), \A d \in q.deadline : d \in Int,
         is_ready_for(h, skill), NEW begins, NEW t,
         NEW r, r = start(h, skill, q, begins, t)
  PROVE  /\ Entire(r) /\ r.backend.steps \in {h.backend.steps, 0}
         /\ r.raised = "no" => Bound(r)
<1>1. ~Ends(h) /\ can_start(h.backend, skill)
  BY DEF is_ready_for, Bound, Late
<1>2. PICK x : x = Admitted(h, skill, q)
  OBVIOUS
<1>3. PICK y : y = Begun(x, h, skill)
  OBVIOUS
<1>4. /\ Sound(y) /\ y.active # 0 /\ y.raised = "no" /\ Bound(y)
      /\ y.backend.steps \in {h.backend.steps, 0}
  BY <1>1, <1>2, <1>3, BegunBound
<1>5. /\ Sound(x) /\ x.active # 0 /\ Basic(x) /\ IsNumbered(x) /\ x.backend = h.backend
      /\ x.raised = "no"
  BY <1>2, AdmittedBound
<1>6. PICK g : g = claim_dispatch(y.gate, authority(y), t[2])
  OBVIOUS
<1>7. PICK c : c = [y EXCEPT !.gate = g]
  OBVIOUS
<1>8. Reports(c, y) /\ Entire(c)
  <2>1. Entire(y)
    BY <1>4 DEF Bound, Basic
  <2>2. Holds(g, y.gate)
    BY <1>6, <2>1, ClaimHolds DEF Entire
  <2>3. Reports(c, y)
    BY <1>7, <2>1, <2>2, ReportsGate DEF Entire, HostKeys, HostFields
  <2> QED BY <2>3 DEF Reports, Spares
<1>9. PICK k : k = native(c, "accepted", t[3])
  OBVIOUS
<1>10. Bound(k) /\ Entire(k) /\ k.backend = y.backend
  <2>1. Reports(k, y)
    BY <1>8, <1>9, NativeReports, ReportsThen
  <2> QED BY <1>4, <2>1, ReportsBound DEF Reports, Spares
<1>11. PICK n, f : n = t[2] /\ f = fail_worker(x, n)
  OBVIOUS
<1>12. /\ Basic(f) /\ f.backend = x.backend /\ f.active # 0 /\ IsNumbered(f) /\ Sound(f)
  <2>1. Calm(f, x)
    BY <1>5, <1>11, FailCalm DEF Sound
  <2>2. Basic(f) /\ f.backend = x.backend /\ f.active = x.active /\ IsNumbered(f)
    BY <1>5, <1>11, FailKeeps
  <2> QED BY <1>5, <2>1, <2>2, CalmSound
<1>13. PICK u : u = <<t[3], t[3], t[3]>>
  OBVIOUS
<1>14. PICK v, w :
        /\ v = Unsubmitted(y, "not_submitted", n, u)
        /\ w = Unsubmitted(f, "worker_error", n, u)
  OBVIOUS
<1>15. Entire(v) /\ v.backend.steps = y.backend.steps /\ (v.raised = "no" => Bound(v))
  BY <1>4, <1>14, UnsubmittedBound DEF Bound, Active
<1>16. f.raised = "no" =>
         Entire(w) /\ w.backend.steps = f.backend.steps /\ (w.raised = "no" => Bound(w))
  BY <1>12, <1>14, UnsubmittedBound
<1>17. CASE begins
  <2>1. r = then(y, LAMBDA z :
              IF claims_dispatch(z.gate, authority(z), t[2])
                THEN native([z EXCEPT !.gate = claim_dispatch(@, authority(z), t[2])],
                            "accepted", t[3])
                ELSE Unsubmitted(z, "not_submitted", t[2], u))
    BY ONLY <1>2, <1>3, <1>13, <1>17, r = start(h, skill, q, begins, t)
       DEF start, Unsubmitted, Admitted, Begun
  <2>2. r = IF claims_dispatch(y.gate, authority(y), t[2])
              THEN native([y EXCEPT !.gate = claim_dispatch(@, authority(y), t[2])],
                          "accepted", t[3])
              ELSE Unsubmitted(y, "not_submitted", t[2], u)
    BY ONLY <2>1 DEF then
  <2>3. r = k \/ r = v
    BY ONLY <2>2, <1>6, <1>7, <1>9, <1>11, <1>14
  <2> QED BY <1>4, <1>10, <1>15, <2>3
<1>18. CASE ~begins
  <2>1. r = unless_raised(f, LAMBDA z : Unsubmitted(z, "worker_error", t[2], u))
    BY ONLY <1>2, <1>11, <1>13, <1>18, r = start(h, skill, q, begins, t)
       DEF start, Unsubmitted, Admitted
  <2>2. r = IF f.raised # "no" THEN f ELSE Unsubmitted(f, "worker_error", t[2], u)
    BY ONLY <2>1 DEF unless_raised, then
  <2>3. r = IF f.raised # "no" THEN f ELSE w
    BY ONLY <2>2, <1>11, <1>14
  <2> QED BY <1>5, <1>12, <1>16, <2>3 DEF Basic
<1> QED BY <1>17, <1>18

-----------------------------------------------------------------------------
(* What is forgotten between two steps, and the effects *)

\* What is aged of a receipt is about the same operation.
AgedReceipt(x, r) ==
  /\ WholeReceipt(x)
  /\ x.authority.operation_id = r.authority.operation_id
  /\ x.authority.binding = r.authority.binding
  /\ Held(r) => Held(x) /\ Rested(x)
  /\ is_revoked(r) => is_revoked(x)

\* And of a gate.
Elder(x, g) ==
  /\ Whole(x) /\ x.binding = g.binding /\ x.next_operation_id = g.next_operation_id
  /\ AgedReceipt(x.receipt, g.receipt)

\* The records of evidence are numbered anew.
Renews(n, r) ==
  n = [k \in EvidenceKind |-> {[v EXCEPT !.sequence = 1] : v \in r.evidence[k]}]

\* And aged.
Ages(e, n) ==
  e = [k \in EvidenceKind |-> {[v EXCEPT !.observed_at = StartedAt] : v \in n[k]}]

\* What is aged has the time of the start.
LEMMA AgedEvidence ==
  ASSUME NEW r, Dated(r), NEW n, NEW e, Renews(n, r), Ages(e, n)
  PROVE  /\ DOMAIN e = EvidenceKind
         /\ \A k \in EvidenceKind : \A v \in e[k] :
              "observed_at" \in DOMAIN v /\ v.observed_at = StartedAt
<1>1. ASSUME NEW k \in EvidenceKind, NEW v \in n[k]
      PROVE  "observed_at" \in DOMAIN v
  <2>1. PICK u \in r.evidence[k] : v = [u EXCEPT !.sequence = 1]
    BY <1>1 DEF Renews
  <2> QED BY <2>1 DEF Dated
<1>2. ASSUME NEW k \in EvidenceKind, NEW v \in e[k]
      PROVE  "observed_at" \in DOMAIN v /\ v.observed_at = StartedAt
  <2>1. PICK u \in n[k] : v = [u EXCEPT !.observed_at = StartedAt]
    BY <1>2 DEF Ages
  <2>2. "observed_at" \in DOMAIN u
    BY <1>1, <2>1
  <2> QED BY <2>1, <2>2
<1> QED BY <1>2 DEF Ages

\* The past of a gate between two steps.
LEMMA AgedElder ==
  ASSUME NEW g, Whole(g), NEW x, x = aged(g)
  PROVE  Elder(x, g)
<1>1. PICK n, e :
        /\ n = [k \in EvidenceKind |->
                  {[v EXCEPT !.sequence = 1] : v \in g.receipt.evidence[k]}]
        /\ e = [k \in EvidenceKind |->
                  {[v EXCEPT !.observed_at = StartedAt] : v \in n[k]}]
  OBVIOUS
<1>2. PICK p, s : p = renumbered(g) /\ s = p.receipt
  OBVIOUS
<1>3. /\ DOMAIN p = DOMAIN g /\ p.binding = g.binding
      /\ p.next_operation_id = g.next_operation_id
      /\ s = [g.receipt EXCEPT !.evidence = n]
  <2>1. /\ DOMAIN p = DOMAIN g /\ p.binding = g.binding
        /\ p.next_operation_id = g.next_operation_id
    BY <1>2 DEF renumbered, Whole, GateKeys
  <2>2. p.receipt = [g.receipt EXCEPT !.evidence = [k \in EvidenceKind |->
                        {[v EXCEPT !.sequence = 1] : v \in g.receipt.evidence[k]}]]
    BY <1>2 DEF renumbered, Whole, WholeReceipt, GateKeys, ReceiptKeys
  <2> QED BY <1>1, <1>2, <2>1, <2>2
<1>4. /\ DOMAIN s = DOMAIN g.receipt /\ s.evidence = n /\ WholeReceipt(s)
      /\ s.authority = g.receipt.authority /\ s.settlement = g.receipt.settlement
      /\ s.disposition = g.receipt.disposition /\ s.deadline = g.receipt.deadline
      /\ s.dispatched_at = g.receipt.dispatched_at
      /\ s.cancelled_at = g.receipt.cancelled_at
      /\ s.expired_at = g.receipt.expired_at
      /\ s.withdrawn_at = g.receipt.withdrawn_at
  BY <1>3 DEF Whole, WholeReceipt, ReceiptKeys
<1>5. PICK y : y = x.receipt
  OBVIOUS
<1>6. /\ DOMAIN x = DOMAIN p /\ x.binding = p.binding
      /\ x.next_operation_id = p.next_operation_id
  BY <1>2, <1>3 DEF aged, Whole, GateKeys
<1>7. y = [s EXCEPT !.authority.admitted_at = StartedAt,
                    !.dispatched_at = {StartedAt : t \in @},
                    !.cancelled_at = {StartedAt : t \in @},
                    !.expired_at = {StartedAt : t \in @},
                    !.stop_requested_at = {StartedAt : t \in @},
                    !.evidence = [k \in EvidenceKind |->
                      {[v EXCEPT !.observed_at = StartedAt] : v \in @[k]}]]
  BY <1>2, <1>3, <1>5 DEF aged, Whole, GateKeys
<1>8. /\ DOMAIN y = DOMAIN s /\ y.evidence = e
      /\ y.authority = [s.authority EXCEPT !.admitted_at = StartedAt]
      /\ y.settlement = s.settlement /\ y.disposition = s.disposition
      /\ y.deadline = s.deadline /\ y.withdrawn_at = s.withdrawn_at
      /\ y.dispatched_at = {StartedAt : t \in s.dispatched_at}
      /\ y.cancelled_at = {StartedAt : t \in s.cancelled_at}
      /\ y.expired_at = {StartedAt : t \in s.expired_at}
  BY <1>1, <1>4, <1>7 DEF WholeReceipt, ReceiptKeys
<1>9. /\ WholeReceipt(y) /\ y.authority.admitted_at = StartedAt
      /\ y.authority.operation_id = g.receipt.authority.operation_id
      /\ y.authority.binding = g.receipt.authority.binding
  BY <1>4, <1>8 DEF WholeReceipt, AuthorityKeys
<1>10. is_revoked(y) <=> is_revoked(g.receipt)
  BY <1>4, <1>8 DEF is_revoked, revocations
<1>11. ASSUME Held(g.receipt) PROVE Held(y) /\ Rested(y)
  <2>1. /\ DOMAIN e = EvidenceKind
        /\ \A k \in EvidenceKind : \A v \in e[k] :
             "observed_at" \in DOMAIN v /\ v.observed_at = StartedAt
    <3>1. PICK r : r = g.receipt
      OBVIOUS
    <3>2. Dated(r)
      BY <1>11, <3>1 DEF Held
    <3>3. Renews(n, r) /\ Ages(e, n)
      BY <1>1, <3>1 DEF Renews, Ages
    <3> QED BY ONLY <3>2, <3>3, AgedEvidence
  <2>2. Held(y)
    BY <1>4, <1>8, <1>10, <1>11, <2>1 DEF Held, Dated
  <2>3. "stop" \in EvidenceKind
    BY DEF EvidenceKind
  <2>4. \A k \in EvidenceKind : \A u \in times_of(y.evidence[k]) : u = StartedAt
    BY <1>8, <2>1 DEF times_of
  <2>5. \A u \in revocations(y) : u = StartedAt
    BY <1>4, <1>8, <1>11 DEF revocations, Held
  <2>6. \A u \in effect_times(y) : u = StartedAt
    BY <1>8, <1>9, <2>4 DEF effect_times
  <2>7. Rested(y)
    BY <2>3, <2>4, <2>5, <2>6 DEF Rested, receipt_times
  <2> QED BY <2>2, <2>7
<1> QED BY <1>3, <1>5, <1>6, <1>9, <1>10, <1>11 DEF Elder, AgedReceipt, Whole

\* What the host is between two steps, and after an exception.
Rules(h) == Entire(h) /\ (h.raised = "no" => Bound(h) /\ Rests(h))

\* What a step leaves of the effects.
Leaves(r, h) ==
  /\ r.backend.steps \in {h.backend.steps, 0} /\ r.raised = h.raised
  /\ Ends(r) <=> Ends(h)
  /\ ~Ends(r) => r.asked = h.asked /\ r.last_action = h.last_action

\* The past of the host between two steps.
LEMMA AgedRules ==
  ASSUME NEW h, Entire(h), h.raised = "no" => Bound(h),
         NEW x, x = [h EXCEPT !.gate = aged(@), !.sequence = 1]
  PROVE  Rules(x) /\ x.backend = h.backend /\ Leaves(x, h)
<1>1. PICK g : g = aged(h.gate)
  OBVIOUS
<1>2. /\ DOMAIN x = DOMAIN h /\ x.gate = g /\ x.active = h.active
      /\ x.records = h.records /\ x.phase = h.phase /\ x.asked = h.asked
      /\ x.prediction = h.prediction /\ x.backend = h.backend /\ x.queue = h.queue
      /\ x.fixed_action = h.fixed_action /\ x.last_action = h.last_action
      /\ x.closing = h.closing /\ x.failure = h.failure /\ x.raised = h.raised
  BY <1>1 DEF Entire, HostKeys, HostFields
<1>3. Elder(g, h.gate)
  BY <1>1, AgedElder DEF Entire
<1>4. Entire(x) /\ (Ends(x) <=> Ends(h)) /\ operation_of(x) = operation_of(h)
  BY <1>2, <1>3 DEF Entire, Elder, AgedReceipt, Ends, operation_of
<1>5. ASSUME Bound(h) PROVE Bound(x) /\ Rests(x)
  <2>1. Basic(x)
    BY <1>2, <1>3, <1>4, <1>5 DEF Bound, Basic, Named, Elder
  <2>2. x.active = 0 => Between(x)
    BY <1>2, <1>3, <1>4, <1>5 DEF Bound, Between, Gave, Elder
  <2>3. x.active # 0 => Active(x) /\ Rests(x)
    BY <1>2, <1>3, <1>4, <1>5 DEF Bound, Active, IsNumbered, Elder, AgedReceipt, Rests
  <2>4. x.active # 0 /\ ~Ends(x) => Asks(x) /\ Acts(x)
    BY <1>2, <1>4, <1>5 DEF Bound, Asks, Acts, Gave, Proposed
  <2>5. Ends(x) => x.phase \in Late
    BY <1>2, <1>4, <1>5 DEF Bound
  <2> QED BY <2>1, <2>2, <2>3, <2>4, <2>5 DEF Bound, Rests
<1> QED BY <1>2, <1>4, <1>5 DEF Rules, Leaves

\* What is forgotten of a released operation.
LEMMA ClosedRules ==
  ASSUME NEW h, Rules(h), NEW g, Whole(g), g.binding = h.gate.binding,
         g.next_operation_id = h.gate.next_operation_id,
         h.active # 0 => g.receipt = h.gate.receipt, NEW x, x = [h EXCEPT !.gate = g]
  PROVE  Rules(x) /\ x.backend = h.backend /\ Leaves(x, h)
<1>2. /\ DOMAIN x = DOMAIN h /\ x.gate = g /\ x.active = h.active
      /\ x.records = h.records /\ x.phase = h.phase /\ x.asked = h.asked
      /\ x.prediction = h.prediction /\ x.backend = h.backend /\ x.queue = h.queue
      /\ x.fixed_action = h.fixed_action /\ x.last_action = h.last_action
      /\ x.closing = h.closing /\ x.failure = h.failure /\ x.raised = h.raised
  BY DEF Rules, Entire, HostKeys, HostFields
<1>4. /\ Entire(x) /\ (Ends(x) <=> Ends(h))
      /\ x.active # 0 => operation_of(x) = operation_of(h)
  BY <1>2 DEF Rules, Entire, Ends, operation_of
<1>5. ASSUME Bound(h), Rests(h) PROVE Bound(x) /\ Rests(x)
  <2>1. Basic(x)
    BY <1>2, <1>4, <1>5 DEF Bound, Basic, Named
  <2>2. x.active = 0 => Between(x)
    BY <1>2, <1>4, <1>5 DEF Bound, Between, Gave
  <2>3. x.active # 0 => Active(x) /\ Rests(x)
    BY <1>2, <1>4, <1>5 DEF Bound, Active, IsNumbered, Rests
  <2>4. x.active # 0 /\ ~Ends(x) => Asks(x) /\ Acts(x)
    BY <1>2, <1>4, <1>5 DEF Bound, Asks, Acts, Gave, Proposed
  <2>5. Ends(x) => x.phase \in Late
    BY <1>2, <1>4, <1>5 DEF Bound
  <2> QED BY <2>1, <2>2, <2>3, <2>4, <2>5 DEF Bound, Rests
<1> QED BY <1>2, <1>4, <1>5 DEF Rules, Leaves

\* What is forgotten of a host that ends.
LEMMA EndingRules ==
  ASSUME NEW h, Rules(h), Ends(h), NEW r, DOMAIN r = DOMAIN h, Whole(r.gate),
         r.gate.binding = h.gate.binding,
         r.gate.next_operation_id = h.gate.next_operation_id,
         r.gate.receipt = h.gate.receipt, r.active = h.active, r.records = h.records,
         r.phase = h.phase, r.prediction = h.prediction, r.queue = h.queue,
         r.fixed_action = h.fixed_action, r.closing = h.closing, r.failure = h.failure,
         r.raised = h.raised, r.asked = <<>>, BackendKeys \subseteq DOMAIN r.backend,
         r.backend.steps \in {h.backend.steps, 0}
  PROVE  Rules(r) /\ Leaves(r, h)
<1>1. Ends(r) /\ operation_of(r) = operation_of(h) /\ Entire(r)
  BY DEF Ends, operation_of, Rules, Entire
<1>2. IsSequence(<<>>)
  <2>1. <<>> \in Seq({})
    OBVIOUS
  <2> QED BY <2>1 DEF IsSequence
<1>3. ASSUME Bound(h), Rests(h) PROVE Bound(r) /\ Rests(r)
  <2>1. Basic(r)
    BY <1>1, <1>2, <1>3 DEF Bound, Basic, Named
  <2>2. r.active = 0 => Between(r)
    BY <1>1, <1>3 DEF Bound, Between
  <2>3. r.active # 0 => Active(r) /\ Rests(r)
    BY <1>1, <1>3 DEF Bound, Active, IsNumbered, Rests
  <2> QED BY <1>1, <1>3, <2>1, <2>2, <2>3 DEF Bound, Rests
<1> QED BY <1>1, <1>3 DEF Rules, Leaves

\* forgotten.
LEMMA ForgottenRules ==
  ASSUME NEW h, Rules(h), NEW r, r = forgotten(h)
  PROVE  Rules(r) /\ Leaves(r, h)
<1>1. PICK g, x : /\ g = IF h.active = 0 /\ has_receipt(h.gate)
                           THEN [h.gate EXCEPT !.receipt = closed_receipt(@)]
                           ELSE [h.gate EXCEPT !.receipt = @]
                  /\ x = [h EXCEPT !.gate.receipt =
                            IF h.active = 0 /\ has_receipt(h.gate)
                              THEN closed_receipt(@) ELSE @]
  OBVIOUS
<1>2. /\ Whole(g) /\ g.binding = h.gate.binding
      /\ g.next_operation_id = h.gate.next_operation_id
      /\ h.active # 0 => g.receipt = h.gate.receipt
  <2>1. WholeReceipt(closed_receipt(h.gate.receipt))
    BY DEF closed_receipt, new_receipt, WholeReceipt, ReceiptKeys, Rules, Entire, Whole
  <2> QED BY <1>1, <2>1 DEF Rules, Entire, Whole, GateKeys
<1>3. PICK y : y = [h EXCEPT !.gate = g]
  OBVIOUS
<1>4. Rules(y) /\ y.backend = h.backend /\ Leaves(y, h)
  BY <1>2, <1>3, ClosedRules
<1>5. x = y
  <2>1. CASE h.active = 0 /\ has_receipt(h.gate)
    <3>1. x = [h EXCEPT !.gate.receipt = closed_receipt(@)]
      BY ONLY <1>1, <2>1
    <3>2. g = [h.gate EXCEPT !.receipt = closed_receipt(@)]
      BY ONLY <1>1, <2>1
    <3> QED BY <1>3, <3>1, <3>2 DEF Rules, Entire, HostKeys, HostFields, Whole, GateKeys
  <2>2. CASE ~(h.active = 0 /\ has_receipt(h.gate))
    <3>1. x = [h EXCEPT !.gate.receipt = @]
      BY ONLY <1>1, <2>2
    <3>2. g = [h.gate EXCEPT !.receipt = @]
      BY ONLY <1>1, <2>2
    <3> QED BY <1>3, <3>1, <3>2 DEF Rules, Entire, HostKeys, HostFields, Whole, GateKeys
  <2> QED BY <2>1, <2>2
<1>6. PICK c, b, e :
        e = [x EXCEPT !.gate.capabilities = {}, !.next_capability = 0, !.asked = <<>>,
                      !.last_action = 0, !.close_rpc = c, !.backend = b]
        /\ c = (x.close_rpc /\ h.peer_alive)
        /\ b = IF h.active = 0
                 THEN [new_backend(x.backend.profile) EXCEPT !.closed = x.backend.closed]
                 ELSE x.backend
  OBVIOUS
<1>7. Rules(x) /\ x.backend = h.backend /\ Leaves(x, h)
  BY <1>4, <1>5
<1>8. ASSUME Ends(h) PROVE Rules(e) /\ Leaves(e, x)
  <2>1. /\ DOMAIN e = DOMAIN x /\ e.active = x.active
        /\ e.records = x.records /\ e.phase = x.phase /\ e.asked = <<>>
        /\ e.prediction = x.prediction /\ e.backend = b /\ e.queue = x.queue
        /\ e.fixed_action = x.fixed_action /\ e.closing = x.closing
        /\ e.failure = x.failure /\ e.raised = x.raised
    BY <1>6, <1>7 DEF Rules, Entire, HostKeys, HostFields
  <2>2. e.gate = [x.gate EXCEPT !.capabilities = {}]
    BY <1>6, <1>7 DEF Rules, Entire, HostKeys, HostFields
  <2>3. /\ Whole(e.gate) /\ e.gate.binding = x.gate.binding
        /\ e.gate.next_operation_id = x.gate.next_operation_id
        /\ e.gate.receipt = x.gate.receipt
    BY <1>7, <2>2 DEF Rules, Entire, Whole, GateKeys
  <2>4. BackendKeys \subseteq DOMAIN b /\ b.steps \in {x.backend.steps, 0}
    BY <1>6, <1>7 DEF Rules, Entire, BackendKeys, new_backend
  <2>5. Ends(x)
    BY <1>7, <1>8 DEF Leaves
  <2> QED BY <1>7, <2>1, <2>3, <2>4, <2>5, EndingRules
<1>9. PICK k : k = IF h.closing \/ h.failure THEN e ELSE x
  OBVIOUS
<1>10. Rules(k) /\ Leaves(k, h)
  BY <1>7, <1>8, <1>9 DEF Ends, Leaves
<1>11. PICK s : s = [k EXCEPT !.grace = "off", !.killed = FALSE, !.shutdown_sent = FALSE]
  OBVIOUS
<1>12. Rules(s) /\ Leaves(s, k)
  <2>1. /\ DOMAIN s = DOMAIN k /\ s.gate = k.gate /\ s.active = k.active
        /\ s.records = k.records /\ s.phase = k.phase /\ s.asked = k.asked
        /\ s.prediction = k.prediction /\ s.backend = k.backend /\ s.queue = k.queue
        /\ s.fixed_action = k.fixed_action /\ s.last_action = k.last_action
        /\ s.closing = k.closing /\ s.failure = k.failure /\ s.raised = k.raised
        /\ BackendKeys \subseteq DOMAIN k.backend
    BY <1>10, <1>11 DEF Rules, Entire, HostKeys, HostFields
  <2>2. Bound(k) => Bound(s)
    BY <2>1, SameBound
  <2> QED BY <1>10, <2>1, <2>2 DEF Rules, Rests, Leaves, Ends, Entire
<1>13. r = IF is_reaped THEN s ELSE k
  BY ONLY <1>1, <1>6, <1>9, <1>11, r = forgotten(h) DEF forgotten
<1> QED BY <1>10, <1>12, <1>13 DEF Leaves

\* Between two calls the effects are bound to their operation.
Effects ==
  /\ Records /\ Rules(host) /\ host.backend.steps \in Nat /\ last_time \in Nat

\* A call, and what is forgotten after it.
LEMMA TurnLeaves ==
  ASSUME NEW h, Entire(h), h.raised = "no" => Bound(h), NEW f, Turns(h, f)
  PROVE  \E r : host' = r /\ Rules(r) /\ Leaves(r, h)
<1>1. PICK x : x = [h EXCEPT !.gate = aged(@), !.sequence = 1]
  OBVIOUS
<1>2. host' = forgotten(x)
  BY <1>1 DEF Turns, Becomes
<1>3. Rules(x) /\ Leaves(x, h)
  BY <1>1, AgedRules
<1>4. PICK r : r = forgotten(x)
  OBVIOUS
<1>5. Rules(r) /\ Leaves(r, x)
  BY <1>3, <1>4, ForgottenRules
<1>6. Leaves(r, h)
  BY <1>3, <1>5 DEF Leaves
<1> QED BY <1>2, <1>4, <1>5, <1>6

\* What an effect is made for, as EffectsAreAuthorized says it.
Authorizes ==
  host'.backend.steps = host.backend.steps + 1 =>
    LET action == host'.last_action
        operation == host.gate.receipt.authority.operation_id
    IN  /\ host.active # 0 /\ ~is_revoked(host.gate.receipt)
        /\ ~has_reached_deadline(host.gate.receipt, last_time)
        /\ ~host.closing /\ ~host.failure
        /\ IF host.fixed_action = 0
             THEN action = Len(host.asked) /\ host.asked[action] = operation
             ELSE \E i \in DOMAIN host.records :
                    /\ host.records[i].operation = host.asked[action]
                    /\ host.records[i].operation = operation - 1
                    /\ host.records[i].result
                    /\ host.records[i].output = "accepted"

\* The host while nothing was raised.
LEMMA HostBound ==
  ASSUME Effects, pc # "raised"
  PROVE  /\ Sound(host) /\ Bound(host) /\ Rests(host) /\ Entire(host) /\ host.raised = "no"
BY HostSound DEF Effects, Records, Rules

\* A step that makes no effect.
LEMMA QuietEffects ==
  ASSUME Effects, Records', last_time' \in Nat, NEW h, Entire(h),
         h.raised = "no" => Bound(h), h.backend.steps \in {host.backend.steps, 0},
         NEW f, Turns(h, f)
  PROVE  Effects' /\ Authorizes
<1>1. PICK r : host' = r /\ Rules(r) /\ Leaves(r, h)
  BY TurnLeaves
<1>2. r.backend.steps \in {host.backend.steps, 0} /\ host.backend.steps \in Nat
  BY <1>1 DEF Leaves, Effects
<1>3. Effects'
  BY <1>1, <1>2 DEF Effects
<1>4. host'.backend.steps # host.backend.steps + 1
  BY <1>1, <1>2
<1> QED BY <1>3, <1>4 DEF Authorizes

-----------------------------------------------------------------------------
(* One lemma per action *)

\* The client is gone.
LEMMA LosePeerEffects == ASSUME Effects, LosePeer PROVE Effects' /\ Authorizes
<1>1. PICK t, h, r :
        /\ t \in Reads(1, TRUE)
        /\ h = [host EXCEPT !.peer_alive = FALSE] /\ r = begin_close(h, t[1])
        /\ Turns(r, "commands") /\ last_time' = t[1]
  BY DEF LosePeer
<1>2. Bound(host) /\ Rests(host) /\ Entire(host)
  BY HostBound DEF LosePeer, Serves
<1>3. t[1] \in Nat
  BY <1>1, PythonHostAssumption DEF Reads, Effects
<1>4. Bound(h) /\ Rests(h) /\ h.backend = host.backend
  <2>1. /\ DOMAIN h = DOMAIN host /\ h.gate = host.gate /\ h.active = host.active
        /\ h.records = host.records /\ h.phase = host.phase /\ h.asked = host.asked
        /\ h.queue = host.queue /\ h.prediction = host.prediction
        /\ h.backend = host.backend /\ h.fixed_action = host.fixed_action
        /\ h.last_action = host.last_action /\ h.closing = host.closing
        /\ h.failure = host.failure /\ BackendKeys \subseteq DOMAIN host.backend
    BY <1>1, <1>2 DEF Entire, HostKeys, HostFields
  <2> QED BY <1>2, <2>1, SameBound DEF Rests
<1>5. PICK n : n = t[1]
  OBVIOUS
<1>6. Bound(r) /\ r.backend = host.backend
  BY <1>1, <1>3, <1>4, <1>5, BeginCloseBound
<1> QED BY <1>1, <1>3, <1>6, LosePeerKeeps, QuietEffects DEF Bound, Basic, Effects

\* close.
LEMMA CloseEffects == ASSUME Effects, Close PROVE Effects' /\ Authorizes
<1>1. PICK t, h, r :
        /\ t \in Reads(1, TRUE)
        /\ h = [host EXCEPT !.close_rpc = TRUE] /\ r = begin_close(h, t[1])
        /\ Turns(r, "commands") /\ last_time' = t[1]
  BY DEF Close
<1>2. Bound(host) /\ Rests(host) /\ Entire(host)
  BY HostBound DEF Close, Serves
<1>3. t[1] \in Nat
  BY <1>1, PythonHostAssumption DEF Reads, Effects
<1>4. Bound(h) /\ Rests(h) /\ h.backend = host.backend
  <2>1. /\ DOMAIN h = DOMAIN host /\ h.gate = host.gate /\ h.active = host.active
        /\ h.records = host.records /\ h.phase = host.phase /\ h.asked = host.asked
        /\ h.queue = host.queue /\ h.prediction = host.prediction
        /\ h.backend = host.backend /\ h.fixed_action = host.fixed_action
        /\ h.last_action = host.last_action /\ h.closing = host.closing
        /\ h.failure = host.failure /\ BackendKeys \subseteq DOMAIN host.backend
    BY <1>1, <1>2 DEF Entire, HostKeys, HostFields
  <2> QED BY <1>2, <2>1, SameBound DEF Rests
<1>5. PICK n : n = t[1]
  OBVIOUS
<1>6. Bound(r) /\ r.backend = host.backend
  BY <1>1, <1>3, <1>4, <1>5, BeginCloseBound
<1> QED BY <1>1, <1>3, <1>6, CloseKeeps, QuietEffects DEF Bound, Basic, Effects

\* cancel.
LEMMA CancelEffects == ASSUME Effects, Cancel PROVE Effects' /\ Authorizes
<1>1. PICK t, h, r :
        /\ t \in Reads(1, TRUE)
        /\ h = cancel(host, t[1]) /\ r = [h EXCEPT !.queue = <<>>]
        /\ Turns(r, "commands") /\ last_time' = t[1]
  BY DEF Cancel
<1>2. Bound(host) /\ Entire(host)
  BY HostBound DEF Cancel, Serves
<1>3. t[1] \in Nat
  BY <1>1, PythonHostAssumption DEF Reads, Effects
<1>4. Bound(h) /\ Entire(h) /\ h.backend = host.backend
  <2>1. Reports(h, host)
    BY <1>1, <1>2, CancelReports
  <2> QED BY <1>2, <2>1, ReportsBound DEF Reports, Spares
<1>5. Bound(r) /\ r.backend = host.backend
  <2>1. /\ DOMAIN r = DOMAIN h /\ r.gate = h.gate /\ r.active = h.active
        /\ r.records = h.records /\ r.phase = h.phase /\ r.asked = h.asked
        /\ r.queue = <<>> /\ r.prediction = h.prediction
        /\ r.backend = h.backend /\ r.fixed_action = h.fixed_action
        /\ r.last_action = h.last_action /\ r.closing = h.closing
        /\ r.failure = h.failure /\ BackendKeys \subseteq DOMAIN h.backend
    BY <1>1, <1>4 DEF Entire, HostKeys, HostFields
  <2> QED BY <1>4, <2>1, SameBound
<1> QED BY <1>1, <1>3, <1>5, CancelKeeps, QuietEffects DEF Bound, Basic, Effects

\* submit.
LEMMA SubmitEffects == ASSUME Effects, Submit PROVE Effects' /\ Authorizes
<1>1. PICK t, skill, deadline, q, begins, r :
        /\ t \in Reads(3, TRUE) /\ skill \in Skill /\ deadline \in Optional(Deadlines)
        /\ q = request(skill, deadline, t[1])
        /\ r = start(host, skill, q, begins, t) /\ last_time' = t[3]
        /\ Turns(r, "commands") /\ is_ready_for(host, skill) /\ admits(host.gate, q)
  BY DEF Submit
<1>2. /\ Sound(host) /\ Bound(host) /\ Entire(host) /\ host.active = 0
      /\ host.raised = "no"
  <2>1. Sound(host) /\ Bound(host) /\ Entire(host) /\ host.raised = "no"
    BY HostBound DEF Submit, Serves
  <2>2. host.phase \in Early
    BY <1>1 DEF is_ready_for, Early
  <2> QED BY <2>1, <2>2 DEF Sound
<1>3. t[1] \in Nat /\ t[3] \in Nat
  BY <1>1, PythonHostAssumption DEF Reads, Effects
<1>4. \A d \in q.deadline : d \in Int
  <2>1. \A d \in deadline : d \in Int
    BY <1>1, PythonHostAssumption DEF Optional
  <2> QED BY <1>1, <1>3, <2>1 DEF request
<1>5. /\ Entire(r) /\ r.backend.steps \in {host.backend.steps, 0}
      /\ r.raised = "no" => Bound(r)
  BY <1>1, <1>2, <1>4, StartBound
<1> QED BY <1>1, <1>3, <1>5, SubmitKeeps, QuietEffects DEF Effects

\* reset: after it a hold does not follow.
LEMMA ResetEffects == ASSUME Effects, Reset PROVE Effects' /\ Authorizes
<1>1. PICK t, b, h :
        /\ t \in Reads(1, TRUE)
        /\ h = [host EXCEPT !.backend = b, !.last_action = 0,
                            !.fixed_action = 0, !.phase = "ready"]
        /\ b = reset(host.backend) /\ last_time' = t[1]
        /\ \E fails : Turns(IF fails THEN fail_worker(host, t[1])
                            ELSE refresh_capability(h, TRUE, t[1]), "commands")
  BY DEF Reset
<1>2. Bound(host) /\ Rests(host) /\ Entire(host) /\ host.active = 0 /\ ~Ends(host)
  BY HostBound DEF Reset, Serves, Bound, Late
<1>3. PICK fails : Turns(IF fails THEN fail_worker(host, t[1])
                         ELSE refresh_capability(h, TRUE, t[1]), "commands")
  BY <1>1
<1>4. PICK able, n : able = TRUE /\ n = t[1]
  OBVIOUS
<1>5. PICK x, y : x = fail_worker(host, n) /\ y = refresh_capability(h, able, n)
  OBVIOUS
<1>6. PICK r : r = IF fails THEN x ELSE y
  OBVIOUS
<1>7. Turns(r, "commands")
  BY <1>3, <1>4, <1>5, <1>6
<1>8. n \in Nat
  BY <1>1, <1>4, PythonHostAssumption DEF Reads, Effects
<1>9. /\ Entire(x) /\ x.backend = host.backend /\ (x.raised = "no" => Bound(x))
  BY <1>2, <1>5, <1>8, FailKeeps, FailBound DEF Bound, Basic
<1>10. Bound(h) /\ Entire(h) /\ h.backend.steps = 0
  <2>1. /\ DOMAIN h = DOMAIN host /\ h.gate = host.gate /\ h.active = host.active
        /\ h.records = host.records /\ h.asked = host.asked
        /\ h.queue = host.queue /\ h.prediction = host.prediction
        /\ h.backend = b /\ h.fixed_action = 0 /\ h.phase = "ready"
        /\ h.closing = host.closing /\ h.failure = host.failure
    BY <1>1, <1>2 DEF Entire, HostKeys, HostFields
  <2>2. BackendKeys \subseteq DOMAIN b /\ b.steps = 0 /\ b.stage = "transfer_ready"
    BY <1>1, <1>2 DEF reset, Entire, BackendKeys
  <2>3. Basic(h) /\ ~Ends(h)
    BY <1>2, <2>1, <2>2 DEF Bound, Basic, Entire, Named, Ends
  <2>4. Between(h)
    BY <1>2, <2>1, <2>2 DEF Bound, Between
  <2> QED BY <1>2, <2>1, <2>2, <2>3, <2>4 DEF Bound, Basic
<1>11. Bound(y) /\ Entire(y) /\ y.backend.steps = 0
  <2>1. Reports(y, h)
    BY <1>5, <1>10, RefreshReports
  <2> QED BY <1>10, <2>1, ReportsBound DEF Reports, Spares
<1>12. /\ Entire(r) /\ r.backend.steps \in {host.backend.steps, 0}
       /\ r.raised = "no" => Bound(r)
  BY <1>6, <1>9, <1>11
<1> QED BY <1>1, <1>4, <1>7, <1>8, <1>12, ResetKeeps, QuietEffects DEF Effects

\* pump: whatever the worker wrote, nothing is effected here.
LEMMA ReadRepliesEffects == ASSUME Effects, ReadReplies PROVE Effects' /\ Authorizes
<1>1. PICK t, h, is_read :
        /\ t \in Reads(1, host.channel)
        /\ h = [host EXCEPT !.outbox = <<>>]
        /\ is_read => host.channel
        /\ last_time' = t[1]
        /\ Turns(IF is_read THEN heard(h, worker.replies, t[1])
                 ELSE IF host.channel THEN lose_worker(host, t[1])
                 ELSE host, "watch")
  BY DEF ReadReplies
<1>2. /\ Sound(host) /\ Bound(host) /\ Rests(host) /\ Entire(host)
      /\ host.raised = "no"
  BY HostBound DEF ReadReplies
<1>3. PICK n, b, s : n = t[1] /\ b = host.backend /\ s = worker.replies
  OBVIOUS
<1>4. n \in Nat
  BY <1>1, <1>3, PythonHostAssumption DEF Reads, Effects
<1>5. PICK x, y : x = heard(h, s, n) /\ y = lose_worker(host, n)
  OBVIOUS
<1>6. PICK r : r = IF is_read THEN x ELSE IF host.channel THEN y ELSE host
  OBVIOUS
<1>7. Turns(r, "watch")
  BY <1>1, <1>3, <1>5, <1>6
<1>8. Hearing(h, b)
  <2>1. /\ DOMAIN h = DOMAIN host /\ h.gate = host.gate /\ h.active = host.active
        /\ h.records = host.records /\ h.phase = host.phase /\ h.asked = host.asked
        /\ h.queue = host.queue /\ h.prediction = host.prediction
        /\ h.backend = host.backend /\ h.fixed_action = host.fixed_action
        /\ h.last_action = host.last_action /\ h.closing = host.closing
        /\ h.failure = host.failure /\ h.raised = host.raised
        /\ BackendKeys \subseteq DOMAIN host.backend
    BY <1>1, <1>2 DEF Entire, HostKeys, HostFields
  <2>2. Bound(h) /\ Rests(h) /\ Entire(h)
    BY <1>2, <2>1, SameBound DEF Rests, Entire
  <2>3. Sound(h)
    BY <1>2, <2>1 DEF Sound, Shaped, Written
  <2> QED BY <1>3, <2>1, <2>2, <2>3, SoundOk DEF Hearing
<1>9. IsSequence(s)
  BY <1>3 DEF Effects, Records
<1>10. Entire(x) /\ x.backend = b /\ (x.raised = "no" => Bound(x))
  BY <1>4, <1>5, <1>8, <1>9, HeardBound DEF Hearing
<1>11. Entire(y) /\ y.backend = b /\ (y.raised = "no" => Bound(y))
  BY <1>2, <1>3, <1>4, <1>5, LoseBound DEF Basic
<1>12. /\ Entire(r) /\ r.backend.steps \in {host.backend.steps, 0}
       /\ r.raised = "no" => Bound(r)
  BY <1>2, <1>3, <1>6, <1>10, <1>11
<1> QED BY <1>1, <1>3, <1>4, <1>7, <1>12, ReadRepliesKeeps, QuietEffects DEF Effects

\* stop_worker, of a host whatever it does.
LEMMA StopKeeps ==
  ASSUME NEW h, Basic(h), NEW r, r = stop_worker(h)
  PROVE  /\ Basic(r) /\ r.backend = h.backend /\ r.raised = h.raised
         /\ r.failure = h.failure /\ r.gate = h.gate /\ r.active = h.active
<1>1. /\ DOMAIN r = DOMAIN h /\ r.gate = h.gate /\ r.active = h.active
      /\ r.records = h.records /\ r.asked = h.asked
      /\ r.queue = h.queue /\ r.backend = h.backend /\ r.raised = h.raised
      /\ r.failure = h.failure
  BY DEF stop_worker, Basic, Entire, HostKeys, HostFields
<1> QED BY <1>1 DEF Basic, Entire, Named

\* fail_worker is not called a second time.
LEMMA FailOnce ==
  ASSUME NEW h, Basic(h), NEW t, NEW r, r = fail_worker(h, t)
  PROVE  r.failure
<1>1. PICK f : f = [h EXCEPT !.failure = TRUE]
  OBVIOUS
<1>2. Basic(f) /\ f.failure = TRUE
  BY <1>1 DEF Basic, Entire, HostKeys, HostFields, Named
<1>3. PICK b, x : b = FALSE /\ x = refresh_capability(f, b, t)
  OBVIOUS
<1>4. Reports(x, f) /\ Entire(x) /\ x.failure = TRUE
  <2>1. Reports(x, f)
    BY <1>2, <1>3, RefreshReports DEF Basic
  <2> QED BY <1>2, <2>1 DEF Reports, Spares
<1>5. PICK c : c = IF x.active = 0 THEN x ELSE cancel(x, t)
  OBVIOUS
<1>6. Entire(c) /\ c.failure = TRUE
  <2>1. Reports(c, x)
    BY <1>4, <1>5, CancelReports, ReportsSelf
  <2> QED BY <1>4, <2>1 DEF Reports, Spares
<1>7. PICK y : y = [c EXCEPT !.queue = <<>>, !.phase = "failed"]
  OBVIOUS
<1>8. y.failure = TRUE
  BY <1>6, <1>7 DEF Entire, HostKeys
<1>9. CASE h.failure
  BY <1>9 DEF fail_worker
<1>10. CASE ~h.failure
  <2>1. x = refresh_capability(f, FALSE, t)
    BY ONLY <1>3
  <2>2. r = unless_raised(x, LAMBDA v :
              [(IF v.active = 0 THEN v ELSE cancel(v, t)) EXCEPT
                 !.queue = <<>>, !.phase = "failed"])
    BY ONLY <1>1, <1>10, <2>1, r = fail_worker(h, t) DEF fail_worker
  <2>3. r = IF x.raised # "no" THEN x
            ELSE [(IF x.active = 0 THEN x ELSE cancel(x, t)) EXCEPT
                    !.queue = <<>>, !.phase = "failed"]
    BY ONLY <2>2 DEF unless_raised, then
  <2>4. r = x \/ r = y
    BY ONLY <1>5, <1>7, <2>3
  <2> QED BY <1>4, <1>8, <2>4
<1> QED BY <1>9, <1>10

\* What Watch has of the host when it polls the worker again.
Watched(h, b) ==
  /\ Basic(h) /\ h.backend = b
  /\ h.raised = "no" => Bound(h) /\ (h.failure \/ Rests(h))

\* The answer that is awaited will not come.
LEMMA ForsakenWatched ==
  ASSUME NEW b, NEW h, Watched(h, b), NEW r, r = [h EXCEPT !.prediction = {}]
  PROVE  Watched(r, b)
<1>1. /\ DOMAIN r = DOMAIN h /\ r.gate = h.gate /\ r.active = h.active
      /\ r.records = h.records /\ r.phase = h.phase /\ r.asked = h.asked
      /\ r.queue = h.queue /\ r.prediction = {}
      /\ r.backend = h.backend /\ r.fixed_action = h.fixed_action
      /\ r.last_action = h.last_action /\ r.closing = h.closing
      /\ r.failure = h.failure /\ r.raised = h.raised
      /\ BackendKeys \subseteq DOMAIN h.backend
  BY DEF Watched, Basic, Entire, HostKeys, HostFields
<1>2. Basic(r)
  BY <1>1 DEF Watched, Basic, Entire, Named
<1>3. Bound(h) => Bound(r)
  BY <1>1, SameBound
<1> QED BY <1>1, <1>2, <1>3 DEF Watched, Rests

\* The polls of the worker and of its budgets.
LEMMA WatchEffects == ASSUME Effects, Watch PROVE Effects' /\ Authorizes
<1>1. /\ Bound(host) /\ Rests(host) /\ Basic(host) /\ host.raised = "no"
  BY HostBound DEF Watch, Bound
<1>2. PICK late : \E t : t[1] \in Nat /\ last_time' = t[1] /\
        LET lost == IF host.closing THEN host ELSE fail_worker(host, t[1])
            polled == IF ~is_reaped THEN host
                      ELSE unless_raised(lost, LAMBDA x : [x EXCEPT !.prediction = {}])
            stopped == IF host.failure \/ host.closing THEN stop_worker(polled) ELSE polled
        IN  Turns(IF late THEN fail_worker(stopped, t[1]) ELSE stopped, "advance")
  <2>1. \A w : \A t \in Reads(1, w) : t[1] \in Nat
    BY <1>1, PythonHostAssumption DEF Reads, Effects
  <2> QED BY <2>1 DEF Watch
<1>3. PICK t : t[1] \in Nat /\ last_time' = t[1] /\
        LET lost == IF host.closing THEN host ELSE fail_worker(host, t[1])
            polled == IF ~is_reaped THEN host
                      ELSE unless_raised(lost, LAMBDA x : [x EXCEPT !.prediction = {}])
            stopped == IF host.failure \/ host.closing THEN stop_worker(polled) ELSE polled
        IN  Turns(IF late THEN fail_worker(stopped, t[1]) ELSE stopped, "advance")
  BY <1>2
<1>4. PICK n, b : n = t[1] /\ b = host.backend
  OBVIOUS
<1>5. n \in Nat
  BY <1>3, <1>4
<1>6. PICK f : f = fail_worker(host, n)
  OBVIOUS
<1>7. Watched(host, b)
  BY <1>1, <1>4 DEF Watched
<1>8. Watched(f, b)
  <2>1. Basic(f) /\ f.backend = b /\ f.failure
    BY <1>1, <1>4, <1>6, FailKeeps, FailOnce
  <2>2. f.raised = "no" => Bound(f)
    BY <1>1, <1>5, <1>6, FailBound
  <2> QED BY <2>1, <2>2 DEF Watched
<1>9. PICK a : a = IF host.closing THEN host ELSE f
  OBVIOUS
<1>10. PICK c : c = [a EXCEPT !.prediction = {}]
  OBVIOUS
<1>11. Watched(a, b) /\ Watched(c, b)
  BY <1>7, <1>8, <1>9, <1>10, ForsakenWatched
<1>12. PICK p : p = IF ~is_reaped THEN host ELSE IF a.raised # "no" THEN a ELSE c
  OBVIOUS
<1>13. Watched(p, b)
  BY <1>7, <1>11, <1>12
<1>14. PICK q : q = stop_worker(p)
  OBVIOUS
<1>15. Watched(q, b)
  <2>1. /\ Basic(q) /\ q.backend = p.backend /\ q.raised = p.raised
        /\ q.failure = p.failure /\ q.gate = p.gate /\ q.active = p.active
    BY <1>13, <1>14, StopKeeps DEF Watched
  <2>2. Bound(p) => Bound(q)
    BY <1>14, StopBound
  <2> QED BY <1>13, <2>1, <2>2 DEF Watched, Rests
<1>16. PICK s : s = IF host.failure \/ host.closing THEN q ELSE p
  OBVIOUS
<1>17. Watched(s, b)
  BY <1>13, <1>15, <1>16
<1>18. PICK x : x = fail_worker(s, n)
  OBVIOUS
<1>19. Entire(x) /\ x.backend = b /\ (x.raised = "no" => Bound(x))
  <2>1. Basic(x) /\ x.backend = b /\ (x.raised = "no" => s.raised = "no")
    BY <1>17, <1>18, FailKeeps DEF Watched
  <2>2. CASE s.failure
    <3>1. x = s
      BY <1>18, <2>2 DEF fail_worker
    <3> QED BY <1>17, <3>1 DEF Watched, Basic
  <2>3. CASE ~s.failure
    <3>1. x.raised = "no" => Bound(s) /\ Rests(s)
      BY <1>17, <2>1, <2>3 DEF Watched
    <3> QED BY <1>5, <1>18, <2>1, <3>1, FailBound DEF Basic
  <2> QED BY <2>2, <2>3
<1>20. PICK r : r = IF late THEN x ELSE s
  OBVIOUS
<1>21. Turns(r, "advance")
  <2>1. PICK e : e = unless_raised(a, LAMBDA v : [v EXCEPT !.prediction = {}])
    OBVIOUS
  <2>2. e = IF a.raised # "no" THEN a ELSE c
    BY ONLY <1>10, <2>1 DEF unless_raised, then
  <2>3. p = IF ~is_reaped THEN host ELSE e
    BY ONLY <1>12, <2>2
  <2> QED BY ONLY <1>3, <1>4, <1>6, <1>9, <2>1, <2>3, <1>14, <1>16, <1>18, <1>20
<1>22. /\ Entire(r) /\ r.backend.steps \in {host.backend.steps, 0}
       /\ r.raised = "no" => Bound(r)
  BY <1>4, <1>17, <1>19, <1>20 DEF Watched, Basic
<1> QED BY <1>3, <1>21, <1>22, WatchKeeps, QuietEffects DEF Effects

\* advance: the only call that makes an effect.
LEMMA AdvanceEffects == ASSUME Effects, Advance PROVE Effects' /\ Authorizes
<1>1. PICK fails, reason, t, r :
        /\ r = advance(host, fails, reason, t) /\ Turns(r, "close")
        /\ last_time' = t[5]
        /\ t[1] \in Nat /\ last_time <= t[1] /\ t[5] \in Nat /\ Tail(t)[2] \in Nat
  <2>1. PICK t, fails, reason :
          /\ t \in Reads(5, host.active # 0)
          /\ Turns(advance(host, fails, reason, t), "close") /\ last_time' = t[5]
    BY DEF Advance
  <2>2. t \in [1..5 -> last_time..LastTime]
    BY <2>1 DEF Reads
  <2>3. t[1] \in Nat /\ last_time <= t[1] /\ t[3] \in Nat /\ t[5] \in Nat
    BY <2>2 DEF Effects
  <2>4. t \in Seq(last_time..LastTime) /\ Len(t) = 5
    <3>1. PICK T, n : T = last_time..LastTime /\ n = 5
      OBVIOUS
    <3>2. t \in [1..n -> T] /\ n \in Nat
      BY <2>2, <3>1
    <3>3. t \in Seq(T) /\ Len(t) = n
      <4>1. t = [i \in 1..n |-> t[i]] /\ \A i \in 1..n : t[i] \in T
        BY <3>2
      <4>2. [i \in 1..n |-> t[i]] \in Seq(T)
        BY <3>2, <4>1
      <4>3. t \in Seq(T)
        BY ONLY <4>1, <4>2
      <4>4. DOMAIN t = 1..n /\ DOMAIN t = 1..Len(t) /\ Len(t) \in Nat
        BY <3>2, <4>3
      <4> QED BY <3>2, <4>3, <4>4
    <3> QED BY <3>1, <3>3
  <2>5. Tail(t)[2] = t[3]
    <3>1. PICK T : t \in Seq(T) /\ Len(t) = 5
      BY <2>4
    <3>2. IsSequence(t) /\ t # <<>>
      BY <3>1 DEF IsSequence
    <3>3. \A i \in DOMAIN Tail(t) : Tail(t)[i] = t[i + 1]
      BY <3>2, SequenceTail
    <3>4. Tail(t) \in Seq(T) /\ Len(Tail(t)) = 4
      BY <3>1, <3>2
    <3>5. 2 \in DOMAIN Tail(t)
      <4>1. PICK q, n : q = Tail(t) /\ n = 4
        OBVIOUS
      <4>2. q \in Seq(T) /\ Len(q) = n
        BY <3>4, <4>1
      <4>3. DOMAIN q = 1..n
        BY ONLY <4>2
      <4> QED BY <4>1, <4>3
    <3> QED BY <3>3, <3>5
  <2> QED BY <2>1, <2>3, <2>5
<1>2. /\ Sound(host) /\ Bound(host) /\ Rests(host) /\ Entire(host)
      /\ host.raised = "no" /\ host.backend.steps \in Nat /\ last_time \in Nat
  BY HostBound DEF Advance, Effects
<1>3. /\ Entire(r) /\ (r.raised = "no" => Bound(r))
      /\ r.backend.steps = host.backend.steps
         \/ (Effect(r, host) /\ Authorized(host, t[1]) /\ Acts(host))
  BY <1>1, <1>2, AdvanceBound
<1>4. CASE r.backend.steps = host.backend.steps
  BY <1>1, <1>3, <1>4, AdvanceKeeps, QuietEffects DEF Effects
<1>5. CASE Effect(r, host) /\ Authorized(host, t[1]) /\ Acts(host)
  <2>1. PICK y : host' = y /\ Rules(y) /\ Leaves(y, r)
    BY <1>1, <1>3, TurnLeaves
  <2>2. r.backend.steps = host.backend.steps + 1 /\ ~Ends(y)
        /\ y.last_action = r.last_action
    BY <1>5, <2>1 DEF Effect, Leaves
  <2>3. Effects'
    <3>1. y.backend.steps \in Nat
      BY <1>2, <2>1, <2>2 DEF Leaves
    <3> QED BY <1>1, <2>1, <3>1, AdvanceKeeps DEF Effects
  <2>4. ~has_reached_deadline(host.gate.receipt, last_time)
    <3>1. \A d \in host.gate.receipt.deadline : d \in Int
      BY <1>2, <1>5 DEF Bound, Active, Held, Authorized
    <3> QED BY <1>1, <1>2, <1>5, <3>1 DEF Authorized, has_reached_deadline
  <2>5. operation_of(host) \in Nat \ {0}
    BY <1>2, <1>5 DEF Bound, Active, IsNumbered, Authorized
  <2>6. host.fixed_action = 0 =>
          /\ y.last_action = Len(host.asked)
          /\ host.asked[y.last_action] = operation_of(host)
    BY <1>5, <2>2 DEF Effect
  <2>7. host.fixed_action # 0 =>
          \E i \in DOMAIN host.records :
            /\ host.records[i].operation = host.asked[y.last_action]
            /\ host.records[i].operation = operation_of(host) - 1
            /\ host.records[i].result
            /\ host.records[i].output = "accepted"
    <3>1. SUFFICES ASSUME host.fixed_action # 0
                   PROVE  \E i \in DOMAIN host.records :
                            /\ host.records[i].operation = host.asked[y.last_action]
                            /\ host.records[i].operation = operation_of(host) - 1
                            /\ host.records[i].result
                            /\ host.records[i].output = "accepted"
      OBVIOUS
    <3>2. y.last_action = host.fixed_action
      BY <1>5, <2>2, <3>1 DEF Effect
    <3>3. Gave(host, y.last_action, operation_of(host))
      BY <1>5, <3>1, <3>2 DEF Acts
    <3>4. PICK i \in DOMAIN host.records :
            LET z == host.records[i]
            IN  /\ z.operation = host.asked[y.last_action] /\ z.operation \in Nat
                /\ following_operation_id(z.operation) = operation_of(host)
                /\ z.result = TRUE /\ z.output = "accepted"
      BY <3>3 DEF Gave
    <3>5. host.records[i].operation = operation_of(host) - 1
      BY <2>5, <3>4 DEF following_operation_id
    <3> QED BY <3>4, <3>5
  <2>8. Authorizes
    BY <1>5, <2>1, <2>4, <2>6, <2>7 DEF Authorizes, Authorized, Ends, operation_of
  <2> QED BY <2>3, <2>8
<1> QED BY <1>3, <1>4, <1>5

\* The end of a turn.
LEMMA EndTurnEffects == ASSUME Effects, EndTurn PROVE Effects' /\ Authorizes
<1>1. PICK b, c, d : /\ b = TRUE /\ c = (host.close_rpc /\ ~(host.peer_alive /\ host.close_rpc))
                     /\ d = IF host.flush = "off" THEN "running" ELSE host.flush
  OBVIOUS
<1>2. PICK e, h : /\ e = [host EXCEPT !.backend.closed = b, !.close_rpc = c, !.flush = d]
                  /\ h = IF host.closing /\ is_reaped THEN e ELSE host
  OBVIOUS
<1>3. h = IF host.closing /\ is_reaped
            THEN [host EXCEPT
                    !.backend.closed = TRUE,
                    !.close_rpc = @ /\ ~(host.peer_alive /\ host.close_rpc),
                    !.flush = IF @ = "off" THEN "running" ELSE @]
            ELSE host
  BY ONLY <1>1, <1>2
<1>4. PICK t, f : /\ t[1] \in Nat /\ last_time' = t[1]
        /\ Turns(maintain_capability(
                IF host.closing /\ is_reaped
                  THEN [host EXCEPT
                          !.backend.closed = TRUE,
                          !.close_rpc = @ /\ ~(host.peer_alive /\ host.close_rpc),
                          !.flush = IF @ = "off" THEN "running" ELSE @]
                  ELSE host, t[1]), f)
  <2>1. \A w : \A t \in Reads(1, w) : t[1] \in Nat
    BY <1>1, PythonHostAssumption DEF Reads, Effects
  <2> QED BY <2>1 DEF EndTurn
<1>5. PICK r : r = maintain_capability(h, t[1])
  OBVIOUS
<1>6. Turns(r, f)
  BY ONLY <1>3, <1>4, <1>5
<1>7. Bound(host) /\ Entire(host)
  BY HostBound DEF EndTurn
<1>8. Bound(e) /\ Entire(e) /\ e.backend.steps = host.backend.steps
  <2>1. PICK k : k = [host.backend EXCEPT !.closed = b]
    OBVIOUS
  <2>2. /\ DOMAIN e = DOMAIN host /\ e.gate = host.gate /\ e.active = host.active
        /\ e.records = host.records /\ e.phase = host.phase /\ e.asked = host.asked
        /\ e.queue = host.queue /\ e.prediction = host.prediction
        /\ e.backend = k /\ e.fixed_action = host.fixed_action
        /\ e.last_action = host.last_action /\ e.closing = host.closing
        /\ e.failure = host.failure
    BY <1>2, <1>7, <2>1 DEF Entire, HostKeys, HostFields
  <2>3. /\ BackendKeys \subseteq DOMAIN k /\ k.profile = host.backend.profile
        /\ k.stage = host.backend.stage /\ k.skill = host.backend.skill
        /\ k.steps = host.backend.steps
    BY <1>7, <2>1 DEF Entire, BackendKeys
  <2>4. Bound(e)
    BY <1>7, <2>2, <2>3, SameBound
  <2> QED BY <2>2, <2>3, <2>4 DEF Bound, Basic
<1>9. Bound(h) /\ Entire(h) /\ h.backend.steps = host.backend.steps
  BY <1>2, <1>7, <1>8
<1>10. Bound(r) /\ Entire(r) /\ r.backend.steps = host.backend.steps
  <2>1. Reports(r, h)
    BY <1>5, <1>9, MaintainReports
  <2> QED BY <1>9, <2>1, ReportsBound DEF Reports, Spares
<1> QED BY <1>4, <1>6, <1>10, EndTurnKeeps, QuietEffects DEF Effects

\* A budget runs out.
LEMMA BudgetEffects ==
  ASSUME Effects, GraceEnds \/ FlushEnds PROVE Effects' /\ Authorizes
<1>1. PICK h : /\ h = [host EXCEPT !.grace = "over"] \/ h = [host EXCEPT !.flush = "over"]
               /\ host' = h /\ UNCHANGED last_time
  BY DEF GraceEnds, FlushEnds
<1>2. /\ DOMAIN h = DOMAIN host /\ h.gate = host.gate /\ h.active = host.active
      /\ h.records = host.records /\ h.phase = host.phase /\ h.asked = host.asked
      /\ h.queue = host.queue /\ h.prediction = host.prediction
      /\ h.backend = host.backend /\ h.fixed_action = host.fixed_action
      /\ h.last_action = host.last_action /\ h.closing = host.closing
      /\ h.failure = host.failure /\ h.raised = host.raised
      /\ BackendKeys \subseteq DOMAIN host.backend
  BY <1>1 DEF Effects, Rules, Entire, HostKeys, HostFields
<1>3. Bound(host) => Bound(h)
  BY <1>2, SameBound
<1>4. Rules(h) /\ h.backend.steps = host.backend.steps
  BY <1>2, <1>3 DEF Effects, Rules, Rests, Entire
<1> QED BY <1>1, <1>4, BudgetKeeps DEF Effects, Authorizes

\* Every step keeps this, and makes no effect without its authority.
LEMMA StepEffects == Effects /\ [Next]_vars => Effects' /\ (Authorizes \/ UNCHANGED vars)
<1> SUFFICES ASSUME Effects, [Next]_vars PROVE Effects' /\ (Authorizes \/ UNCHANGED vars)
  OBVIOUS
<1>1. CASE UNCHANGED vars
  <2>1. Records'
    BY StepRecords DEF Effects
  <2> QED BY <1>1, <2>1 DEF vars, Effects
<1>2. CASE Commands
  BY <1>2, SubmitEffects, CancelEffects, ResetEffects, CloseEffects, LosePeerEffects
     DEF Commands
<1>3. CASE Loop
  BY <1>3, ReadRepliesEffects, WatchEffects, AdvanceEffects, EndTurnEffects DEF Loop
<1>4. CASE GraceEnds \/ FlushEnds
  BY <1>4, BudgetEffects
<1>5. CASE Worker
  <2>1. UNCHANGED <<host, pc, last_time>>
    BY <1>5 DEF Worker, Greet, Receive, Answer, Leave, ExitWorker, Misbehave
  <2>2. Records'
    BY <1>5, WorkerKeeps DEF Effects
  <2> QED BY <2>1, <2>2 DEF Effects, Authorizes
<1> QED BY <1>1, <1>2, <1>3, <1>4, <1>5 DEF Next

\* The host begins without an operation, and nothing is asked.
LEMMA InitEffects == Init => Effects
<1> SUFFICES ASSUME Init PROVE Effects
  OBVIOUS
<1>1. PICK p : host = new_host(p)
  BY DEF Init
<1>2. PICK b : b = new_backend(p)
  OBVIOUS
<1>3. /\ HostKeys \subseteq DOMAIN host /\ host.gate = initial_gate
      /\ host.records = <<>> /\ host.active = 0 /\ host.raised = "no"
      /\ host.phase = "starting" /\ host.closing = FALSE /\ host.failure = FALSE
      /\ host.asked = <<>> /\ host.queue = <<>> /\ host.prediction = {}
      /\ host.fixed_action = 0 /\ host.backend = b
  BY <1>1, <1>2 DEF new_host, HostKeys, HostFields
<1>4. BackendKeys \subseteq DOMAIN b /\ b.steps = 0 /\ b.stage = "transfer_ready"
  BY <1>2 DEF new_backend, BackendKeys
<1>5. Whole(initial_gate) /\ initial_gate.next_operation_id = 1
  BY DEF initial_gate, NoReceipt, NoAuthority, new_receipt, Whole, WholeReceipt,
         GateKeys, ReceiptKeys, AuthorityKeys
<1>6. IsSequence(<<>>) /\ DOMAIN <<>> = {}
  <2>1. <<>> \in Seq({})
    OBVIOUS
  <2> QED BY <2>1 DEF IsSequence
<1>7. Entire(host) /\ Basic(host)
  BY <1>3, <1>4, <1>5, <1>6 DEF Entire, Basic, Named
<1>8. Between(host) /\ ~Ends(host)
  BY <1>3, <1>4 DEF Between, Ends
<1>9. Rules(host)
  BY <1>3, <1>7, <1>8 DEF Rules, Bound, Rests
<1>10. last_time \in Nat
  BY PythonHostAssumption DEF Init
<1> QED BY <1>3, <1>4, <1>9, <1>10, InitRecords DEF Effects

\* An effect of the backend is only ever made for the active operation, while it is
\* not revoked, its deadline has not passed and the host neither closes nor failed,
\* with a candidate the worker gave for it, or for a hold with one of the transfer
\* before it whose result was delivered (advance of _host.py).
THEOREM EffectsAreAlwaysAuthorized == Spec => EffectsAreAuthorized
<1>1. Authorizes \/ UNCHANGED vars <=> [host'.backend.steps = host.backend.steps + 1 =>
       LET action == host'.last_action
           operation == host.gate.receipt.authority.operation_id
       IN  /\ host.active # 0 /\ ~is_revoked(host.gate.receipt)
           /\ ~has_reached_deadline(host.gate.receipt, last_time)
           /\ ~host.closing /\ ~host.failure
           /\ IF host.fixed_action = 0
                THEN action = Len(host.asked) /\ host.asked[action] = operation
                ELSE \E i \in DOMAIN host.records :
                       /\ host.records[i].operation = host.asked[action]
                       /\ host.records[i].operation = operation - 1
                       /\ host.records[i].result
                       /\ host.records[i].output = "accepted"]_vars
  BY DEF Authorizes
<1> QED BY <1>1, InitEffects, StepEffects, PTL DEF Spec, EffectsAreAuthorized
=============================================================================
