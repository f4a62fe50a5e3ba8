-------------------------- MODULE PermissionOwner --------------------------
(***************************************************************************)
(* The owner of the finite-permission profile (nav2_session/_permission.py  *)
(* over _owner.py and _scoped.py), composed with the drive in permission    *)
(* mode.  The owner is one thread: its program waits in a loop of ticks, a  *)
(* tick takes at most one callback and may renew.  Time passes between any  *)
(* two steps, also between the last check of a grant and its stamp.         *)
(* Requests and answers take any time; the calls of one service follow one  *)
(* another, except the close request of an abort.                           *)
(*                                                                         *)
(* Visits are numbered by their generation, 1 is A and 2 is B, and so are   *)
(* their operations.  The gate only says whether the authority is current;  *)
(* it is lost by its deadline, a cancellation, the end of the client, an    *)
(* invalid observation or the exit of the context of B, and the next check  *)
(* finds out.  The native stack is external: it sends any command of an     *)
(* operation its producer was bound to, at any time.  The owner starts once *)
(* the drive has applied the zero of its boot.                              *)
(***************************************************************************)
EXTENDS ScopedDrive

CONSTANTS
  ScopeOf,  \* the scopes of producer-context.json
  Period    \* PERIOD_NS

Visit == 1..2

ASSUME OwnerAssumption ==
  /\ Modes = {"permission"} /\ ~ClockRegresses
  /\ ScopeOf \in [Visit -> Scope] /\ ScopeOf[1] # ScopeOf[2]
  /\ LastGeneration > 2 /\ LastOperation >= 2
  /\ Period \in 1..Lifetime

VARIABLES
  pc,        \* what the program of the owner waits for, or is about to do
  visit,     \* the visit it is about
  authority, \* of the operation of the visit: "none", "current" or "lost"
  bound,     \* the visits whose operation the producer was bound to
  lane,      \* context: what the owner knows of the scope of the visit
  due,       \* permission_due
  fault,     \* permission_fault is set
  error,     \* why the owner stopped
  opening,   \* the call of open
  renewal,   \* permission_future and permission_issued
  closing,   \* the call of close
  abandoned, \* the close request of an abort is in flight
  ack,       \* motion_scope_ack, of depth 1
  lost_at,   \* history: when the authority was lost
  stopped_at \* history: when the owner stopped

drive == vars
program == <<pc, visit, authority, bound, lane, due, fault, error>>
calls == <<opening, renewal, closing, abandoned>>
history == <<lost_at, stopped_at>>
system == <<drive, program, calls, ack, history>>

identity(v) == [scope |-> ScopeOf[v], generation |-> v, operation_id |-> v]

NoCall == [state |-> "none", visit |-> 0, issued |-> 0,
           accepted |-> FALSE, deadline |-> 0]

send == [NoCall EXCEPT !.state = "sent", !.visit = visit, !.issued = now]

answer(call, accepted) ==
  [call EXCEPT !.state = "answered", !.accepted = accepted,
               !.deadline = permission'.deadline]

NoFact == [id |-> NoIdentity, deadline |-> 0, at |-> 0, reason |-> "none"]

\* granted: it is permission_context; first and last: the initial and the last
\* permission deadline; open: it is current, the outlet that may be open.
NoLane == [open |-> FALSE, granted |-> FALSE, first |-> 0, last |-> 0,
           close_at |-> 0, drive_ack |-> NoFact]

OwnerInit ==
  /\ mode \in Modes /\ permission = initial_permission
  /\ sealed = TRUE /\ applied = TRUE /\ current = NoIdentity
  /\ target = Zero /\ instr = Still /\ wheels = Still
  /\ writing = 0 /\ acknowledged = {} /\ now = 0
  /\ pc = "idle" /\ visit = 1 /\ authority = "none" /\ bound = {}
  /\ lane = NoLane /\ due = 0 /\ fault = FALSE /\ error = "none"
  /\ opening = NoCall /\ renewal = NoCall /\ closing = NoCall
  /\ abandoned = FALSE /\ ack = NoFact
  /\ lost_at = 0 /\ stopped_at = 0

-----------------------------------------------------------------------------
(* The end of the owner *)

is_current == authority = "current"

lose ==
  /\ authority' = IF is_current THEN "lost" ELSE authority
  /\ lost_at' = IF is_current THEN now ELSE lost_at

Lose ==
  /\ is_current /\ pc # "stopped" /\ lose
  /\ UNCHANGED <<drive, pc, visit, bound, lane, due, fault, error, calls, ack,
                 stopped_at>>

stop(reason) ==
  /\ pc' = "stopped" /\ error' = reason /\ stopped_at' = now
  /\ lane' = NoLane /\ due' = 0 /\ fault' = FALSE
  /\ UNCHANGED <<drive, visit, bound, opening, renewal, closing, ack>>

\* The authority is cancelled and, when its service is there, the outlet of the
\* visit is asked to close; no answer is waited for.
abort(reason) ==
  /\ stop(reason) /\ lose
  /\ abandoned' \in {FALSE, lane.open}

\* A wait ends with its budget, an invalid observation, a signal, a failure of
\* the native stack or, after the last visit, the end of the client.
GiveUp == pc # "stopped" /\ abort("wait")

\* The process is killed.
Crash ==
  /\ pc # "stopped" /\ stop("crash")
  /\ UNCHANGED <<authority, abandoned, lost_at>>

-----------------------------------------------------------------------------
(* open_scope *)

Admit ==
  /\ pc = "idle"
  /\ pc' = "draining" /\ authority' = "current"
  /\ UNCHANGED <<drive, visit, bound, lane, due, fault, error, calls, ack,
                 history>>

\* The renewal that was in flight when its scope was closed.
TakeClosedRenewal ==
  /\ pc = "draining" /\ renewal.state = "answered"
  /\ IF renewal.accepted /\ renewal.deadline # renewal.issued + Lifetime
       THEN abort("closed renewal")
       ELSE /\ renewal' = NoCall
            /\ UNCHANGED <<drive, program, opening, closing, abandoned, ack,
                           history>>

\* Mutant: the successor is opened without that answer.
MutantDrained == TRUE

drained == renewal.state = "none"

\* The operation is dispatched and its binding written for the producer.
Bind ==
  /\ pc = "draining" /\ drained
  /\ IF is_current
       THEN /\ pc' = "bound" /\ bound' = bound \cup {visit}
            /\ lane' = [NoLane EXCEPT !.open = TRUE]
            /\ UNCHANGED <<drive, visit, authority, due, fault, error, calls,
                           ack, history>>
       ELSE abort("authority")

\* prerequisites, when the service is there
CheckOpening ==
  /\ pc = "bound"
  /\ IF is_current
       THEN /\ pc' = "opening"
            /\ UNCHANGED <<drive, visit, authority, bound, lane, due, fault,
                           error, calls, ack, history>>
       ELSE abort("authority")

\* Bound: stamps end a lifetime before the clock does.
stampable == now > 0 /\ now + Lifetime <= LastStamp

SendOpen ==
  /\ pc = "opening" /\ opening.state = "none" /\ stampable
  /\ opening' = send
  /\ UNCHANGED <<drive, program, renewal, closing, abandoned, ack, history>>

TakeOpened ==
  /\ pc = "opening" /\ opening.state = "answered"
  /\ IF /\ opening.accepted /\ opening.deadline = opening.issued + Lifetime
        /\ now < opening.deadline
       THEN /\ pc' = "driving"
            /\ lane' = [lane EXCEPT !.granted = TRUE, !.last = opening.deadline,
                                    !.first = opening.deadline]
            /\ due' = opening.issued + Period
            /\ opening' = NoCall
            /\ UNCHANGED <<drive, visit, authority, bound, fault, error,
                           renewal, closing, abandoned, ack, history>>
       ELSE abort("opening")

-----------------------------------------------------------------------------
(* tick *)

Waits == {"idle", "draining", "bound", "opening", "driving", "closing",
          "settling", "completed"}

is_answered == lane.granted /\ renewal.state = "answered"

tick_error ==
  IF authority = "lost" THEN "authority"
  ELSE IF fault THEN "fault"
  ELSE IF /\ is_answered
          /\ \/ ~renewal.accepted \/ renewal.deadline <= now
             \/ renewal.deadline # renewal.issued + Lifetime
    THEN "renewal"
  ELSE "none"

\* The loop of a wait: what it finds wrong ends the owner; otherwise an answer
\* is taken and, when it is time and none is in flight, prerequisites checked.
OwnerTick ==
  /\ pc \in Waits
  /\ IF tick_error # "none" THEN abort(tick_error)
     ELSE /\ lane.granted /\ renewal.state # "sent"
          /\ is_answered \/ due <= now
          /\ renewal' = NoCall
          /\ pc' = IF due <= now THEN "renewing" ELSE pc
          /\ UNCHANGED <<drive, visit, authority, bound, lane, due, fault,
                         error, opening, closing, abandoned, ack, history>>

SendRenewal ==
  /\ pc = "renewing" /\ stampable
  /\ renewal' = send
  /\ due' = now + Period
  /\ lane' = [lane EXCEPT !.last = now + Lifetime]
  /\ pc' = "driving"
  /\ UNCHANGED <<drive, visit, authority, bound, fault, error, opening, closing,
                 abandoned, ack, history>>

\* An acknowledgement of an earlier visit would be compared with the one that is
\* retained; none arrives.
ack_error ==
  IF \A v \in bound : ack.id # identity(v) THEN "identity"
  ELSE IF ack.id # identity(visit) \/ ~lane.open THEN "repeated"
  ELSE IF lane.first = 0 THEN "unopened"
  ELSE IF ack.deadline \notin lane.first..lane.last THEN "fact"
  ELSE IF ack.reason = "permission_expired"
    THEN IF ack.at < ack.deadline THEN "early" ELSE "none"
  ELSE IF lane.close_at \in 1..ack.at THEN "none" ELSE "uncorrelated"

\* drive_ack
TakeAck ==
  /\ pc \in Waits /\ ack # NoFact
  /\ IF ack_error # "none" THEN abort(ack_error)
     ELSE /\ ack' = NoFact
          /\ IF ack.reason = "normal_close"
               THEN lane' = [lane EXCEPT !.drive_ack = ack] /\ UNCHANGED fault
               ELSE fault' = TRUE /\ UNCHANGED lane
          /\ UNCHANGED <<drive, pc, visit, authority, bound, due, error, calls,
                         history>>

-----------------------------------------------------------------------------
(* close_visit *)

\* The robot has arrived.  CloseClient ends the renewals; one may be in flight.
SendClose ==
  /\ pc = "driving"
  /\ pc' = "closing" /\ closing' = send
  /\ lane' = [lane EXCEPT !.granted = FALSE, !.close_at = now]
  /\ UNCHANGED <<drive, visit, authority, bound, due, fault, error, opening,
                 renewal, abandoned, ack, history>>

TakeClosed ==
  /\ pc = "closing" /\ closing.state = "answered"
  /\ IF closing.accepted
       THEN /\ pc' = "settling" /\ closing' = NoCall
            /\ UNCHANGED <<drive, visit, authority, bound, lane, due, fault,
                           error, opening, renewal, abandoned, ack, history>>
       ELSE abort("close")

\* Mutant: an answered close is taken for the application of zero.
MutantConfirmed == TRUE

confirmed == lane.drive_ack # NoFact

\* A is settled and released when B is ready; B stays unresolved.
Settle ==
  /\ pc = "settling" /\ confirmed
  /\ visit = 1 => is_current
  /\ IF visit = 1
       THEN pc' = "idle" /\ visit' = 2 /\ authority' = "none"
       ELSE pc' = "completed" /\ UNCHANGED <<visit, authority>>
  /\ lane' = NoLane
  /\ UNCHANGED <<drive, bound, due, fault, error, calls, ack, history>>

-----------------------------------------------------------------------------
(* The drive *)

checked == observe_time(permission, now)

ServeOpen ==
  /\ opening.state = "sent"
  /\ LET v == opening.visit
     IN  /\ open_permit(ScopeOf[v], v - 1, v, opening.issued)
         /\ opening' = answer(opening, opens(checked, identity(v), v - 1,
                                             opening.issued, now, applied))
  /\ UNCHANGED <<program, renewal, closing, abandoned, ack, history>>

ServeRenewal ==
  /\ renewal.state = "sent"
  /\ LET id == identity(renewal.visit)
     IN  /\ renew_permit(id, renewal.issued)
         /\ renewal' = answer(renewal, renews(checked, id, renewal.issued, now))
  /\ UNCHANGED <<program, opening, closing, abandoned, ack, history>>

ServeClose ==
  /\ closing.state = "sent"
  /\ close_permit(identity(closing.visit))
  /\ closing' = answer(closing, closes(checked, identity(closing.visit)))
  /\ UNCHANGED <<program, opening, renewal, abandoned, ack, history>>

ServeAbandoned ==
  /\ abandoned
  /\ close_permit(identity(visit))
  /\ abandoned' = FALSE
  /\ UNCHANGED <<program, opening, renewal, closing, ack, history>>

Native ==
  /\ \E v \in bound, twist \in {"zero", "moving"} :
       permitted_command(identity(v), twist)
  /\ UNCHANGED <<program, calls, ack, history>>

\* What an update that applies zero publishes; without a step back of the clock
\* the state of the permission tells the reason of the closure.
publish ==
  /\ ack' = IF applied' /\ ~applied /\ current.generation # 0
              THEN [id |-> current, at |-> now,
                    deadline |-> permission'.deadline,
                    reason |-> IF permission'.state = "fault"
                                 THEN "permission_expired" ELSE "normal_close"]
              ELSE ack
  /\ UNCHANGED <<program, calls, history>>

Physics == Update /\ publish

Time == Tick /\ UNCHANGED <<program, calls, ack, history>>

-----------------------------------------------------------------------------
Open ==
  \/ Admit \/ TakeClosedRenewal \/ Bind
  \/ CheckOpening \/ SendOpen \/ TakeOpened

Close == SendClose \/ TakeClosed \/ Settle

Serve == ServeOpen \/ ServeRenewal \/ ServeClose \/ ServeAbandoned

OwnerNext ==
  \/ Open \/ Close \/ OwnerTick \/ SendRenewal \/ TakeAck
  \/ Lose \/ GiveUp \/ Crash
  \/ Serve \/ Native \/ Physics \/ Time

OwnerSpec == OwnerInit /\ [][OwnerNext]_system

-----------------------------------------------------------------------------
(* Properties *)

\* A grant ends one lifetime after its issue, wherever its request was delayed:
\* an owner that has stopped sets no wheel in motion once a lifetime has passed.
\* An authority that was lost may be renewed on once more, by a check before the
\* loss that is stamped after it, and this only while the previous grant lasts;
\* only an opening that was stamped late itself moves the robot later than that.
GrantsEnd ==
  [][StartsMotion =>
       /\ pc = "stopped" => now < stopped_at + Lifetime
       /\ authority = "lost" =>
            \/ now < lost_at + 2 * Lifetime - Period
            \/ lost_at < permission.opened]_system

\* What the owner settles is at rest: from the release of A until B is opened
\* the drive is sealed and its wheels stand, and so they do for ever after B.
SettledIsAtRest ==
  \A v \in Visit :
    (visit > v \/ (pc = "completed" /\ visit = v)) /\ current.generation <= v =>
      sealed /\ applied /\ wheels = Still /\ v \in acknowledged

\* The owner takes no fact of its own drive for a foreign or contradictory one,
\* whatever was in flight when a scope was closed, and it gives a grant up only
\* when a deadline has really passed.
NoFalseAlarm ==
  [][error' # error =>
       /\ error' \notin {"closed renewal", "identity", "repeated", "fact",
                         "early", "uncorrelated", "close"}
       /\ error' = "opening" => opening.issued + Lifetime <= now
       /\ error' \in {"renewal", "fault", "unopened"} =>
            permission.state = "fault" \/ permission.deadline <= now]_system
=============================================================================
