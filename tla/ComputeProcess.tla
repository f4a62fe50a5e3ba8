--------------------------- MODULE ComputeProcess ---------------------------
(***************************************************************************)
(* ComputeProcess of src/compute/compute_process.cpp, which owns one child  *)
(* process and the two channels to it, and the child itself, the program of *)
(* src/compute/compute_worker.cpp.                                          *)
(*                                                                         *)
(* The operators work on any record s with the fields process (the members  *)
(* of Impl) and child (the worker, the frames in the event pipe and the     *)
(* command in the control socket), so that a host can make several calls in *)
(* one step.  The worker runs between the calls, and between the two halves *)
(* of a poll.  A frame is written and read as a whole: it is smaller than   *)
(* PIPE_BUF.  Iterations are counted in batches; the sums are left out, they *)
(* are the subject of WorkerSum.  Error numbers are reduced to whether there *)
(* was an error.                                                            *)
(***************************************************************************)
EXTENDS Integers, Sequences

CONSTANTS
  Batches,       \* iterations_, in batches of kBatchIterations
  Grace,         \* stop_grace_ms_
  FramesPerPoll, \* kMaximumFramesPerPoll
  PipeCapacity   \* the frames the event pipe holds

ASSUME ProcessAssumption ==
  /\ Batches \in Nat \ {0} /\ Grace \in Nat
  /\ FramesPerPoll \in Nat \ {0} /\ PipeCapacity \in Nat \ {0}

FrameKind == {"ready", "progress", "stop_acknowledged", "stop_ignored",
              "completed", "cancelled"}
Frame == [kind : FrameKind, iterations : 0..Batches + 1, dropped : 0..Batches + 1]

\* How the child ended: exit code 0, 20, 21 (or another), or a signal.
Exit == {"completed", "cancelled", "failed", "killed"}

new_process ==
  [launched |-> FALSE, started |-> FALSE, malformed |-> FALSE,
   event_eof |-> FALSE, channels_closed |-> FALSE, stop_requested_at |-> {},
   stop_delivered |-> FALSE, stop_acknowledged |-> FALSE,
   stop_ignored |-> FALSE, termination_requested |-> FALSE,
   termination_error |-> FALSE, ownership_lost |-> FALSE, io_error |-> FALSE,
   exit_status |-> {}, progress |-> 0, dropped |-> 0, terminal |-> "none",
   terminal_iterations |-> 0, is_owned |-> FALSE, is_open |-> FALSE,
   last_iterations |-> 0, termination_pending |-> FALSE,
   channel_cleanup_unknown |-> FALSE]

no_child ==
  [status |-> "absent", at |-> "start", completed |-> 0, dropped |-> 0,
   exit |-> {}, pipe |-> <<>>, command |-> FALSE, killed |-> FALSE]

stop_requested(p) == p.stop_requested_at # {}

-----------------------------------------------------------------------------
(* The worker: one step of run(), for the child c *)

frame(c, kind) == [kind |-> kind, iterations |-> c.completed, dropped |-> c.dropped]

has_room(c) == Len(c.pipe) < PipeCapacity

\* The exit closes both ends the worker holds; the zombie waits for waitpid.
exited(c, exit) == [c EXCEPT !.status = "exited", !.exit = {exit}]

sent(c, kind) == [c EXCEPT !.pipe = Append(@, frame(c, kind))]

\* A required frame, and where the worker goes on.
send_required(c) ==
  CASE c.at = "start" -> [sent(c, "ready") EXCEPT !.at = "loop"]
    [] c.at = "stop" -> [sent(c, "stop_acknowledged") EXCEPT !.at = "cancel"]
    [] c.at = "cancel" -> [sent(c, "cancelled") EXCEPT !.at = "cancelled"]
    [] c.at = "complete" -> [sent(c, "completed") EXCEPT !.at = "completed"]

\* The command is read before a batch; progress is dropped when there is no room.
compute_batch(c) ==
  LET done == [c EXCEPT !.completed = @ + 1,
                        !.at = IF c.completed + 1 = Batches THEN "complete" ELSE @]
  IN  IF c.command THEN [c EXCEPT !.command = FALSE, !.at = "stop"]
      ELSE IF has_room(c) THEN sent(done, "progress")
      ELSE [done EXCEPT !.dropped = @ + 1]

\* What the worker does next; it waits while there is no room for a frame that
\* is required, at most for kRequiredFrameDeadline.
worker_steps(c) ==
  IF c.at = "loop" THEN {compute_batch(c)}
  ELSE IF c.at \in {"completed", "cancelled"} THEN {exited(c, c.at)}
  ELSE IF has_room(c) THEN {send_required(c)}
  ELSE {}

gives_up(c) ==
  IF worker_steps(c) = {} THEN {exited(c, "failed")} ELSE {}

-----------------------------------------------------------------------------
(* Calls of the owner *)

\* launch: whether posix_spawn succeeded, and whether the ends of the channels
\* that the parent does not keep were closed.
launch(s, spawned, unclean) ==
  IF s.process.launched \/ stop_requested(s.process) THEN s
  ELSE IF spawned
    THEN [s EXCEPT
            !.process = [@ EXCEPT !.launched = TRUE, !.is_owned = TRUE,
                                  !.is_open = TRUE, !.io_error = unclean,
                                  !.channel_cleanup_unknown = unclean],
            !.child = [no_child EXCEPT !.status = "alive"]]
    ELSE [s EXCEPT !.process = [@ EXCEPT !.io_error = unclean,
                                         !.channel_cleanup_unknown = unclean]]

\* send fails when the worker no longer holds its end.
request_stop(s, now) ==
  LET p == s.process
      owned == p.is_owned /\ p.exit_status = {}
      sends == owned /\ p.is_open
      delivered == sends /\ s.child.status = "alive"
  IN  IF stop_requested(p) THEN s
      ELSE [s EXCEPT !.process.stop_requested_at = {now},
                     !.process.stop_delivered = delivered,
                     !.process.termination_pending =
                        IF sends THEN @ \/ ~delivered ELSE owned,
                     !.child.command = @ \/ delivered]

\* consume: what a frame must satisfy after the ones before it, and what it does.
is_ordered(p, f) ==
  /\ p.terminal = "none"
  /\ p.last_iterations <= f.iterations /\ f.iterations <= Batches
  /\ p.dropped <= f.dropped /\ f.dropped <= Batches

\* Mutant: a completion that crosses a stop is refused.
MutantNoLateCompletion(p, f) ==
  CASE f.kind = "ready" -> ~p.started /\ f.iterations = 0 /\ f.dropped = 0
    [] f.kind = "progress" ->
         p.started /\ ~p.stop_acknowledged /\ p.last_iterations < f.iterations
    [] f.kind \in {"stop_acknowledged", "stop_ignored"} ->
         /\ p.started /\ stop_requested(p)
         /\ ~p.stop_acknowledged /\ ~p.stop_ignored
    [] f.kind = "completed" ->
         p.started /\ ~stop_requested(p) /\ f.iterations = Batches
    [] f.kind = "cancelled" -> p.started /\ stop_requested(p) /\ p.stop_acknowledged

is_expected(p, f) ==
  CASE f.kind = "ready" -> ~p.started /\ f.iterations = 0 /\ f.dropped = 0
    [] f.kind = "progress" ->
         p.started /\ ~p.stop_acknowledged /\ p.last_iterations < f.iterations
    [] f.kind \in {"stop_acknowledged", "stop_ignored"} ->
         /\ p.started /\ stop_requested(p)
         /\ ~p.stop_acknowledged /\ ~p.stop_ignored
    [] f.kind = "completed" ->
         p.started /\ ~p.stop_acknowledged /\ f.iterations = Batches
    [] f.kind = "cancelled" -> p.started /\ stop_requested(p) /\ p.stop_acknowledged

taken(p, f) ==
  CASE f.kind = "ready" -> [p EXCEPT !.started = TRUE]
    [] f.kind = "progress" -> [p EXCEPT !.progress = f.iterations]
    [] f.kind = "stop_acknowledged" -> [p EXCEPT !.stop_acknowledged = TRUE]
    [] f.kind = "stop_ignored" -> [p EXCEPT !.stop_ignored = TRUE]
    [] f.kind \in {"completed", "cancelled"} ->
         [p EXCEPT !.terminal = f.kind, !.terminal_iterations = f.iterations]

consume(p, f) ==
  IF p.malformed THEN p
  ELSE IF is_ordered(p, f) /\ is_expected(p, f)
    THEN [taken(p, f) EXCEPT !.last_iterations = f.iterations, !.dropped = f.dropped]
    ELSE [p EXCEPT !.malformed = TRUE]

\* The frames, read one after the other.
consumed(p, frames) ==
  LET read[n \in 0..Len(frames)] ==
        IF n = 0 THEN p ELSE consume(read[n - 1], frames[n])
  IN  read[Len(frames)]

\* drain_events: the end is seen only by a read after the last frame.
drain_events(s, fails) ==
  LET count == IF Len(s.child.pipe) < FramesPerPoll THEN Len(s.child.pipe)
               ELSE FramesPerPoll
      read == consumed(s.process, SubSeq(s.child.pipe, 1, count))
      at_end == count < FramesPerPoll /\ s.child.status # "alive"
      ended == [read EXCEPT !.event_eof = TRUE,
                            !.malformed = @ \/ read.terminal = "none"]
  IN  IF ~s.process.is_open \/ s.process.event_eof THEN s
      ELSE [s EXCEPT
              !.child.pipe = SubSeq(@, count + 1, Len(@)),
              !.process = IF fails THEN [read EXCEPT !.io_error = TRUE]
                          ELSE IF at_end THEN ended
                          ELSE read]

\* collect_exit: another part of the program may have reaped the child.
collect_exit(s) ==
  IF ~s.process.is_owned \/ s.process.exit_status # {} THEN s
  ELSE CASE s.child.status = "exited" ->
              [s EXCEPT !.process.is_owned = FALSE,
                        !.process.exit_status = s.child.exit,
                        !.child.status = "reaped"]
         [] s.child.status = "stolen" ->
              [s EXCEPT !.process.is_owned = FALSE,
                        !.process.ownership_lost = TRUE]
         [] OTHER -> s

\* Mutant: the worker is given no time.
MutantNoGrace(p, now) == stop_requested(p)

grace_has_passed(p, now) ==
  \E t \in p.stop_requested_at : t <= now /\ now - t >= Grace

\* Mutant: a worker that acknowledged the stop is trusted to end.
MutantTrustAcknowledgement(p, now) ==
  \/ p.termination_pending \/ p.malformed \/ p.io_error
  \/ /\ stop_requested(p) /\ p.exit_status = {} /\ ~p.stop_acknowledged
     /\ ~p.stop_delivered \/ grace_has_passed(p, now)

should_terminate(p, now) ==
  \/ p.termination_pending \/ p.malformed \/ p.io_error
  \/ /\ stop_requested(p) /\ p.exit_status = {}
     /\ ~p.stop_delivered \/ grace_has_passed(p, now)

request_termination_once(s, fails) ==
  LET p == s.process
  IN  IF \/ ~p.termination_pending \/ p.termination_requested
         \/ ~p.is_owned \/ p.exit_status # {} \/ p.ownership_lost
        THEN s
        ELSE [s EXCEPT !.process.termination_requested = TRUE,
                       !.process.termination_error = fails,
                       !.child.killed = ~fails]

\* A poll is begun, and finished after the worker may have gone on.
polls(p) == p.launched /\ ~p.ownership_lost /\ ~p.channels_closed

begin_poll(s, fails) == IF polls(s.process) THEN drain_events(s, fails) ELSE s

finish_poll(s, now, fails) ==
  LET c == collect_exit(s)
      decided == [c EXCEPT !.process.termination_pending =
                              should_terminate(c.process, now)]
  IN  IF polls(s.process) THEN request_termination_once(decided, fails) ELSE s

can_close(p) ==
  /\ ~p.channels_closed
  /\ p.exit_status # {} /\ p.event_eof
  /\ ~p.ownership_lost /\ ~p.channel_cleanup_unknown

close_channels(s, fails) ==
  IF ~can_close(s.process) THEN s
  ELSE [s EXCEPT !.process.is_open = FALSE, !.process.channels_closed = ~fails,
                 !.process.io_error = @ \/ fails,
                 !.process.channel_cleanup_unknown = @ \/ fails]
=============================================================================
