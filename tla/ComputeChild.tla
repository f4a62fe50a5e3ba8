---------------------------- MODULE ComputeChild ----------------------------
(***************************************************************************)
(* One ComputeProcess and its child.  The owner calls in any order, the      *)
(* child runs between the calls, and the clock passes.  The child is the     *)
(* worker of this repository or another program that writes any frames.      *)
(***************************************************************************)
EXTENDS ComputeProcess

CONSTANTS
  LastNow,       \* bound: the clock stops there
  ForeignFrames, \* what another program may write, {} for none
  SystemFaults   \* the system faults that may happen

ASSUME ChildAssumption ==
  /\ LastNow \in Nat /\ ForeignFrames \subseteq Frame
  /\ SystemFaults \subseteq {"crash", "steal", "read", "kill", "close"}

VARIABLES
  process,  \* the members of Impl
  child,    \* the worker and the channels
  now,      \* steady_clock
  owner     \* "idle", "polling", "gone" or "terminated"

child_vars == <<process, child, now, owner>>

ChildInit == process = new_process /\ child = no_child /\ now = 0 /\ owner = "idle"

State == [process |-> process, child |-> child]

ChildBecomes(s) == process' = s.process /\ child' = s.child

\* Whether a system call fails.
MayFail(fault) == IF fault \in SystemFaults THEN BOOLEAN ELSE {FALSE}

Launch ==
  \E spawned \in BOOLEAN, unclean \in MayFail("close"), foreign \in BOOLEAN :
  \E s \in {launch(State, spawned, unclean)} :
    /\ owner = "idle" /\ process = new_process
    /\ foreign => spawned /\ ForeignFrames # {}
    /\ ChildBecomes(IF foreign THEN [s EXCEPT !.child.at = "foreign"] ELSE s)
    /\ UNCHANGED <<now, owner>>

\* The bound on the clock leaves room for the grace.
RequestStop ==
  /\ owner = "idle" /\ now + Grace <= LastNow
  /\ ChildBecomes(request_stop(State, now))
  /\ UNCHANGED <<now, owner>>

BeginPoll ==
  /\ owner = "idle" /\ polls(process)
  /\ \E fails \in MayFail("read") : ChildBecomes(begin_poll(State, fails))
  /\ owner' = "polling"
  /\ UNCHANGED now

FinishPoll ==
  /\ owner = "polling"
  /\ \E fails \in MayFail("kill") : ChildBecomes(finish_poll(State, now, fails))
  /\ owner' = "idle"
  /\ UNCHANGED now

CloseChannels ==
  /\ owner = "idle" /\ can_close(process)
  /\ \E fails \in MayFail("close") : ChildBecomes(close_channels(State, fails))
  /\ UNCHANGED <<now, owner>>

\* The destructor kills what it still owns and waits for it, or terminates the
\* program: a child must not outlive its owner unnoticed.
Destroy ==
  /\ owner = "idle"
  /\ owner' = IF process.ownership_lost \/ process.channel_cleanup_unknown
                 \/ child.status = "stolen"
                THEN "terminated" ELSE "gone"
  /\ child' = IF process.is_owned /\ child.status \in {"alive", "exited"}
                THEN [child EXCEPT !.status = "reaped",
                        !.exit = IF child.status = "exited" THEN @ ELSE {"killed"}]
                ELSE child
  /\ process' = IF owner' = "gone" THEN [process EXCEPT !.is_owned = FALSE,
                                           !.is_open = FALSE,
                                           !.exit_status = child'.exit]
                ELSE process
  /\ UNCHANGED now

Alive == child.status = "alive"

Work ==
  /\ Alive /\ child.at # "foreign"
  /\ child' \in worker_steps(child)
  /\ UNCHANGED <<process, now, owner>>

GiveUp ==
  /\ Alive /\ child.at # "foreign"
  /\ child' \in gives_up(child)
  /\ UNCHANGED <<process, now, owner>>

\* Another program writes what it wants and exits as it wants.
Foreign ==
  /\ Alive /\ child.at = "foreign"
  /\ \/ /\ has_room(child)
        /\ \E f \in ForeignFrames : child' = [child EXCEPT !.pipe = Append(@, f)]
     \/ \E exit \in Exit \ {"killed"} : child' = exited(child, exit)
  /\ UNCHANGED <<process, now, owner>>

Die ==
  /\ Alive /\ (child.killed \/ "crash" \in SystemFaults)
  /\ child' = exited(child, "killed")
  /\ UNCHANGED <<process, now, owner>>

\* Someone else waits for any child.
Steal ==
  /\ child.status = "exited" /\ "steal" \in SystemFaults
  /\ child' = [child EXCEPT !.status = "stolen"]
  /\ UNCHANGED <<process, now, owner>>

Tick ==
  /\ now < LastNow
  /\ now' = now + 1
  /\ UNCHANGED <<process, child, owner>>

ChildNext ==
  \/ Launch \/ RequestStop \/ BeginPoll \/ FinishPoll \/ CloseChannels \/ Destroy
  \/ Work \/ GiveUp \/ Foreign \/ Die \/ Steal \/ Tick

\* The owner goes on polling and tries to close after its polls; the kernel
\* delivers SIGKILL.
ChildFairness ==
  /\ WF_child_vars(BeginPoll) /\ WF_child_vars(FinishPoll) /\ SF_child_vars(CloseChannels)
  /\ WF_child_vars(Tick) /\ WF_child_vars(child.killed /\ Die)

ChildSpec == ChildInit /\ [][ChildNext]_child_vars /\ ChildFairness

-----------------------------------------------------------------------------
(* Properties *)

\* What the owner has recorded of the worker when it closes the channels is how
\* the worker ended: no frame was lost between the last read, the exit and the
\* end of the pipe, none was refused, and an early end left none that is final.
RecordIsComplete ==
  (process.channels_closed /\ child.at # "foreign") =>
    /\ \A e \in process.exit_status \ {"failed", "killed"} : process.terminal = e
    /\ process.malformed <=> process.terminal = "none"

\* Whatever another program writes, the record tells one story: one ending, of
\* all iterations and without an acknowledged stop, or of a stop that was both
\* requested and acknowledged; and nothing is taken after the ending.
RecordIsConsistent ==
  /\ process.terminal = "completed" =>
       ~process.stop_acknowledged /\ process.terminal_iterations = Batches
  /\ process.terminal = "cancelled" =>
       process.stop_acknowledged /\ stop_requested(process)
  /\ process.terminal # "none" =>
       process.started /\ process.progress <= process.terminal_iterations
  /\ ~(process.stop_acknowledged /\ process.stop_ignored)

\* The record can be relied on, with the worker of this repository and with
\* another program in its place (consume, poll).
RecordIsSound == RecordIsComplete /\ RecordIsConsistent

\* SIGKILL is sent once, only to a child that was not waited for, and only when
\* its grace has passed, it could not be told to stop, or it broke the protocol.
KillIsJustified ==
  [][process'.termination_requested # process.termination_requested =>
       /\ child.status \in {"alive", "exited"}
       /\ \/ process.malformed \/ process.io_error
          \/ stop_requested(process) /\ ~process.stop_delivered
          \/ \E t \in process.stop_requested_at : t + Grace <= now]_child_vars

\* A stop ends every child, also one that ignores it: the channels are closed
\* in the end, or a system call failed that the owner cannot do without.
StopEnds ==
  (process.launched /\ stop_requested(process)) ~>
    \/ process.channels_closed \/ process.ownership_lost
    \/ process.io_error \/ process.termination_error
    \/ owner \in {"gone", "terminated"}
=============================================================================
