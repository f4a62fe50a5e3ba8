# robot-harness: TLA+ models, model checks and proofs

robot-harness decides who may move a robot, and when one piece of work may follow
another. A *gate* admits one operation at a time into an effect domain, hands out an
authority for it, and releases the domain only when evidence shows that the work, its
output and its cleanup are closed. *Hosts* feed the gate from real executors (a worker
and a sink, child processes, a recovery daemon, a Python worker, a navigation stack). At
the other end a *drive* writes wheel speeds only under a permission that its owner keeps
renewing.

The modules here are translated from the source and keep its names. TLC checks them on
small instances; TLAPS proves the central results for every value of the constants.
`PROJECT.json` lists every component with its status, every run, the lines each definition
models and every hazard with the line where it bites.

## 1. Inventory

| Component | State | Operations | What is hard | What makes it correct |
|---|---|---|---|---|
| `AuthorityGate` (`src/core`) | startup facts, binding phase, candidate, one receipt, capabilities | 17 state-changing calls of one writer | evidence late, repeated, out of order, contradictory or of an earlier binding; deadlines and revocations racing dispatch and delivery | facts are kept, results lie within the authority, release and rebinding follow evidence |
| `MotionPermission`, `ScopedDiffDrive` (`ros2/simulation/native_drive`) | permission and deadline, seal, target, ramp, wheels | open, renew, close, command; physics update | two threads, a deadline inside an update, delayed requests, wheels that refuse a write | only current commands move wheels; a lapse and an acknowledged seal are final |
| Navigation owner of the permission profile (`nav2_session`) | scope of a visit, one renewal in flight, drive facts | open, renew, close, settle, abort, crash | answers of a closed scope, stamps older than they look | a grant ends; what is settled is at rest; no false alarm |
| `SampleExecutionHost` (`src/sample`) | staged callbacks, prepared request, adapter | submit, dispatch, process, cancel, rebind, replay, shutdown | every call polls first and may withdraw the binding; results are replayed | sink, stops and gate agree; no operation is lost |
| `ComputeExecutionHost`, `ComputeProcess`, worker (`src/compute`) | child, pipes, frames, stop grace, latched evidence error | initialize, submit, dispatch, cancel, poll, shutdown | exit, end of file, final frame and SIGKILL in any order | the record is how the child ended; settlement follows cleanup; shutdown ends |
| Recovery owner and client (`src/compute/recovery_*`) | session epoch, one-use clear token, operation of the owner | hello, query, activate, submit, stop, result | a client that crashes while its work runs; stale snapshots | sessions never overlap; no result is lost, sent twice or taken for another |
| Python host, coordinator, worker (`bindings/python`) | phase, active record, prediction in flight, records | submit, cancel, reset, close, worker messages | close, failure, step limit and an outstanding prediction in one turn | effects are authorized, records true, the host ends in order |
| Observation watches, navigation observation node (`nav2_observation`) | last samples, windows, closure facts, goal handle | dispatch, goal callbacks, closure, quiet windows, resumption, hand-over | facts in any order, a gap hidden by a restored stream, repeated frames | an operation is settled only when nothing of it is left |
| Python binding, fixture and MuJoCo backend | | | see section 6 | |
| Python session, navigation requests, MCP bridge, channel transport, producers, tooling, examples | | | not modelled, section 6 | |

How they interact. A host owns one gate and calls it from one thread; it turns native
callbacks, frames and messages into evidence records and native stops into requests to
its executor. The navigation owner holds a gate operation while it keeps a drive
permission open; the drive answers with the acknowledgement that zero has been applied,
which becomes settlement evidence.

## 2. Modules

| Module | What it is | Composed from |
|---|---|---|
| `AuthorityGate` | the gate as operators on its state record, one per call | |
| `GateSystem` | one action per call, any caller, any evidence | `AuthorityGate` |
| `OperationDomain` | abstract: one operation holds the domain, is revoked, delivered once, released | |
| `MotionPermission` | the permission as operators on its state record | |
| `ScopedDrive` | the drive, its three modes, its two threads and the clock | `MotionPermission` |
| `PermissionOwner` | the owner of the permission and the services between it and the drive | `ScopedDrive` |
| `SampleHost` | the sample host with its adapter and sink | `AuthorityGate` |
| `ComputeProcess` | one child process, its pipes and the worker, as operators | |
| `ComputeChild` | one process under calls in any order, with another program in place of the worker | `ComputeProcess` |
| `ComputeHost` | the compute host | `AuthorityGate`, `ComputeProcess` |
| `WorkerSum` | what the worker computes and its closed form | |
| `RecoverySession` | owner, clients, channels | `AuthorityGate`, `ComputeProcess` |
| `PythonHost` | the loop, the coordinator, the backend and the worker | `AuthorityGate` |
| `ObservationWatches` | runtime watch, obstacle watch, motion window and closure facts, as operators | |
| `NavigationHandoff` | the navigation observation node, the native stack, the drive and the robot around it | `AuthorityGate`, `ObservationWatches` |
| `Calls` | `then`, which hands the result of one call to the next | |
| `GateSystem_proofs`, `PermissionOwner_proofs` (with those of `ScopedDrive`), `SampleHost_proofs`, `ComputeHost_proofs`, `Workers_proofs` (those of `ComputeChild`, `WorkerSum` and `PythonHost`), `RecoverySession_proofs`, `NavigationHandoff_proofs` | theorems | |
| `GateProcess_proofs` | lemmas about the calls of the gate and about the calls on a process and its child, which the theorems of the components that keep one or both rest on | `AuthorityGate`, `ComputeProcess` |
| `MC*` | instances for TLC | |

Definitions whose name starts with `Mutant` are plausible mistakes in the definition that
follows them. No specification uses them; each shows that a property would notice the
mistake. Components that several others call (gate, permission, process, watches) are
operators on a record, because a host makes several calls in one step of its own.

**Gate.** A call that is refused, or repeats what is known, returns the record unchanged.
`std::optional` members are sets with at most one element; maximum times are sets of
times, because the code only compares with the maximum; the flags `observed_native_*` are
the presence of the record of that kind; operation 0 and generation 0 mark an absent
receipt and candidate. `GateSystem` lets its writer make any call at any time in `Clock`
with any record in `Offered` and any authority that was ever issued.

**Drive.** One action per service and subscription. `OnUpdate` is split where it reads the
clock, once at its start and once before each wheel; `writing` is the next wheel and stands
for the lock. A speed is zero or not, together with the generations whose commands went into
it, the ramp's instruction included. The clock moves by `Tick` and backwards by `Regress`.
`acknowledged` records the `motion_scope_applied` messages.

**Permission owner.** `pc` is the loop the owner waits in; a tick takes at most one callback and
may renew; time passes between any two steps, also between a check and its stamp. Calls to
the drive take any time and may fail. The delivery of an answer is merged with its serving,
and `close_requested` with the close call; facts of a finished visit are not retained; the
drive has applied the zero of its boot; the clock does not step back. The quiet window and
the native closure, which only lengthen a wait here, are in `NavigationHandoff`.

**Sample host.** Every public call is an action; it reads the clock when it polls and again
when it acts. `process_all` is one step per iteration. Values of requests and results, and
the counters of the fixture, are left out.

**Compute.** `poll` is two steps with the worker running in between. A frame is written and
read as a whole; iterations are counted in batches; the sums are the subject of `WorkerSum`;
error numbers are reduced to whether there was one. Reads, spawns, closes and kills may fail,
the child may crash, or be waited for by somebody else. `ComputeHost` numbers all its records
by one counter; between calls the records the gate holds are renumbered, which keeps every
comparison a later call makes.

**Recovery.** One step of the owner is one `poll`, one of a client is one call. At most one
system call fails in a step. A client that is closed keeps only its session, gate and
result. The owner polls a host only after its channel is attached. A crashed worker makes the owner
fault, because an end of file without a final frame is malformed, and the final value
`kCancelled` is never reached, because only a disconnect stops. A stolen child is left to
`ComputeChild` and `ComputeHost`.

**Python host.** A turn of the loop is a step for each thing it looks at; the worker runs,
answers and exits between any two of them. The client is the environment: any command, or the end
of the connection, at any turn. Refused requests are only answered. The pacing of the steps is
left out and budgets run out at any time. The records the gate holds are aged to the earliest
numbers and times. The model ends with the loop. The run starts the handoff backend.

**Navigation.** `pc` is the wait the program is in; its callbacks run one at a time in it, and
what it does between two waits is one step. Every wait may time out at any moment. A stamp is
reduced to whether it is newer than the last, whether it lies after the boundary and how old it
is. Evidence carries time 0 (the times are the subject of `GateSystem`), except a
dispatch at the expiry of the capability. The fault modes of the program are losses of
the environment: at most one of the faults in `Fault` happens, and anything may get lost besides.
Whether the streams were seen within the last second is a free choice. Child facts are
delivered while the owner waits for them (their topics retain them), windows that are not read
again are forgotten, scans with an old stamp come after the boundary only. Left out: startup
up to the admission of the first operation, the probes of the native stack, and the
build without settlement, whose owner never settles.

## 3. Runs

| Run | Distinct states | Properties | Instance |
|---|---|---|---|
| `gate_execution` | 64,922 | `DispositionIsFresh`, `RevokedWorkIsStopped`, `ResultWithinAuthority`, `ReleasedIsClosed`, `FactsAreKept`, `ImplementsDomain` | from construction: startup, capabilities, one operation; times 0 and 1, one deadline, reports whose times and sequences disagree in both directions |
| `gate_rebind` | 92,369 | `ReadinessFollowsOldWork`, `AdmissionIsSerialized` | from a running operation: withdrawal, a candidate that is poisoned, abandoned or committed, a second operation, identities used up |
| `drive` | 141,360 | `OnlyCurrentCommands`, `AcknowledgedIsOver`, `LapseIsFinal`, `LapseComesToRest`, `SealedComesToRest` | three modes, two scopes, two generations, lifetime 2, stamps to 4, two ramped wheels, a clock that steps back |
| `owner` | 1,207,459 | `SettledIsAtRest`, `GrantsEnd`, `NoFalseAlarm` | two visits, lifetime 3, period 1, stamps to 6, one wheel |
| `host_execution` | 251,061 | `OperationIsCarried`, `StopsAgree` | one operation, deadline, three cancellation modes, synchronous or deferred provider |
| `host_replay` | 168,151 | `SinkAgreesWithGate`, `DeliveredWithinAuthority` | two operations, one rebinding, one replay at any point |
| `compute_process` | 702,501 | `RecordIsSound`, `KillIsJustified`, `StopEnds` | two batches, grace 1, pipe of two frames, a foreign program, crash, theft, failing read and close |
| `compute_host` | 538,380 | `ReportsAreAccepted`, `ImplementsDomain` | two operations, two generations, a missing executable, a failing close |
| `compute_shutdown` | 197,974 | `SettledIsClosed`, `ShutdownEnds` | one operation, five faults |
| `recovery` | 718,471 | `SessionsDoNotOverlap`, `OrphanIsStopped`, `ResultIsTrue`, `EveryResultIsAccounted` | two clients, three sessions, a crash of worker or host, failing spawn, close, executable |
| `python_host` | 235,826 | `EffectsAreAuthorized`, `RecordsAreTrue`, `EndsInOrder`, `CloseEnds` | a transfer of three steps in chunks of two, a hold of one; six faults |
| `navigation` | 304,608 | `StopsReachTheGoal`, `RetainedIsHarmless`, `SettlementIsEarned`, `OutputIsObserved`, `ResumeIsClear` | eleven cases of the program; windows of two frames and two samples, budgets of one and two ticks |

What each shows is in the comment of its properties and in `PROJECT.json`.

*Why the bounds are enough.* The guards of the gate compare two times, and each sees them
equal, ordered and reversed; `gate_execution` offers sequences that agree and disagree with
their times. Generations and operations end at their maximum within an instance, so that
exhaustion happens. A permission of lifetime 2 or 3 has a time inside it, at its end and
after it; two wheels are one pair, and a deadline falls before, between and after the two
writes. The owner needs lifetime 3 and period 1 to renew twice within one lifetime. Two operations
are enough for everything about one operation and the next. Two clients are one crash and one
successor; the third session exhausts the epochs. A chunk of two and a transfer of three
steps make the second prediction arrive within an operation. Windows of two frames tell apart
one frame, one frame twice and two frames.

*Deadlock* is checked except where the program really stops: `compute_process` and
`recovery` when owner and clients are gone, `python_host` when its loop has ended, `navigation`
when the program has.

*Fairness.* The drive: `SF(BeginUpdate({}))`, the physics thread keeps calling the update
and the joints do not refuse zero for ever (it is broadcast at each world iteration, and
`SetParam("vel")` fails only on a joint without that parameter); `WF(WriteWheel)`, an update that
has started finishes. `ComputeChild`: `WF` of the two halves of a poll, of the clock and of the
death of a killed child, `SF` of a close that succeeds sooner or later. `ComputeHost`: the host is
polled once a shutdown has begun (`poll` is what `shutdown` loops over), the worker, the clock
and a killed child proceed. `PythonHost`: the loop reaches its next place, its budgets
run out, and a worker with a closed channel or a signal it cannot ignore exits; the worker
need never answer. The gate, the sample host, the two owners, recovery and navigation promise no
progress and have no fairness: they wait for evidence or for their environment.

*Found by the runs.*

- The obvious bound on motion after a lost authority, one lifetime, is not what the owner
  gives. A check just before the loss may be stamped after it, so the bound is
  `lost_at + 2 * Lifetime - Period`, and an opening that was itself stamped after the
  loss needs an exemption (`GrantsEnd`).
- `_host.py`: with a close pending and a prediction outstanding, a worker that exits between
  two polls of one turn makes `stop_worker` close the backend before `finish`. With the
  handoff backend `finish` then writes to a trace that is closed, and the host ends by an
  exception. `EndsInOrder` names it (`raised = "recording"`) and allows no other. With the
  client gone as well, the host returns with the operation unsettled. No document says
  otherwise, so this is not listed as a finding.

## 4. Proofs

All theorems hold for every value of the constants that the named assumptions allow:
`NumberAssumption`, `BindingAssumption`, `EnvironmentAssumption` for the gate (times and sequences
are natural numbers, the configured binding is valid, reports are well typed; *which*
reports, and when, is free), `PermissionAssumption` and `DriveAssumption` for the drive (a
positive lifetime within the stamps, at least one wheel), `OwnerAssumption` for the
owner (permission mode, two scopes, a period within the lifetime, a clock that does not step back),
`HostAssumption`, `NameAssumption` and `ControlAssumption` for the sample host (times from zero, room for the
sequences and native identities it uses, worker, adapter and sink reporting under different names,
controls of the fixture),
`ComputeHostAssumption` and `ComputeConfigAssumption` for the compute host (a positive validity, the
observer's name, which is a constant of the code, and work of at least one unit, which the
constructor demands),
`ProcessAssumption` and `ChildAssumption` for the process (some work, some room in the pipe, at least
one frame per poll, frames of the protocol's kinds from another program), `SessionAssumption` for
recovery (a positive lifetime of evidence, numbers wide enough for the run), `WatchAssumption` and the
`OwnerAssumption` of `NavigationHandoff` for navigation (positive budgets, windows of at least one frame, numbers and identities
wide enough for two operations).

**The gate** (`GateSystem_proofs`). One type lemma per operator, then
`TypeCorrect`. The invariant `IInv` joins the state properties with

- `EvidenceAgrees` and `OutcomeAgrees`: the fields of a receipt say what its evidence says;
  `ReleasedIsClosed` follows from these and `FactsAreKept` needs them (a field guards the evidence);
- `DispatchAgrees`: `claim_dispatch` does not refresh the disposition, and this is why it
  stays fresh all the same;
- `OwnerAgrees`: a revocation by withdrawal belongs to a binding that is no longer active, so
  `withdraw_binding` never overwrites one;
- `NumbersAgree`: identities grow, which makes them unique;
- `CandidateFollows`: a candidate is prepared after the old scope was seen idle, and its
  readiness was observed after that, which gives `ReadinessFollowsOldWork` at the commit.

Lemmas `...OK` take what a call changes of a receipt and show that the receipt's part of the
invariant and its facts are kept; lemmas `...Step` show that an action makes that change, admits,
withdraws or touches only the binding; `StepKinds` says that there is nothing else.

**The gate implements the domain** (`GateSystem_proofs`). `GateImplementsDomain`: initial
states map to initial states, and by the same four kinds of steps every call is one step of
`OperationDomain` or a stutter. The mapping reads owner, revocation and delivery off the receipt;
the domain is blocked exactly while the retained outcome is contradictory.

**The drive** (`PermissionOwner_proofs`). The invariant adds `SealedIsQuiet` to the state
properties: a sealed drive holds no target and is not in the middle of an update. Without it an
update that has begun could write after the seal. `LapseIsFinal` also uses
`MotionIsPermitted`: a wheel is set in motion only by a write that follows a check of the
permission against the clock.

**The owner** (`PermissionOwner_proofs`). `SettlementIsAtRest`, `GrantsAreFinite` and
`AlarmsAreTrue` hold for every lifetime, period, range of stamps and number of wheels. `OwnerInv` adds
to the invariant of the drive that acknowledgements stay (`Acknowledged`), that there is one
call at a time whose visit is the owner's (`OneCall`), that no stamp lies ahead of the
clock (`Stamps`), that a renewal follows the last one by a period (`Periods`), and that the
deadline at the drive is one lifetime after the last stamp that can have reached it (`LastGrant`): that
last part bounds motion after the owner is gone. `AlarmsAreTrue` needs the further invariant
`RunInv`, which ties the drive's state to what the owner waits for, so that every fact
that arrives is an expected one.

**The sample host** (`SampleHost_proofs`). A call of the host is a chain of steps that pass the host's
record on, so the invariant `IInv` is two predicates, `Sound` and `Carried`, on that record and the time last read, and it
holds between the steps of a call, not only between calls. One lemma per step says what it keeps
(observe the time, apply a control, withdraw, emit, report, dispatch), one per public call
composes them. `Sound` says that

- work in the adapter is that of the current operation, which was submitted and has not ended
  (`WorkOK`), and no end of it is staged yet (`StagedOK`); before the dispatch nothing but a
  replayed result is staged;
- the sink has each result once, and that of the current operation exactly when the receipt says
  `accepted` (`SinkOK`), which is `SinkAgreesWithGate`;
- the same of the stop requests (`StopsOK`). It is kept apart from `Base`, because within a
  call a revocation comes before the stop request it is for.

`DeliveryIsAlwaysWithinAuthority` adds what a single step may append to the sink (`Delivers`): only
`report_result` appends, after it has read the clock and asked the gate.

`OperationIsAlwaysCarried` needs more than that something is staged: the gate must take every call that
is left. `Carried` says so of an operation whose settlement the fixture did not drop.

- `Expects(g, kind, n)` says of a receipt which call, with which number, the gate takes next. It
  unfolds to the evidence the gate compares: which calls were reported, that no record of the source has the
  number `n` (`Below`), and for `Awaits` that no record is younger than the call (`Until`).
- `Trail(list, a, b)`: from `b + 1` on, `list` holds consecutive calls of `a` as the adapter makes
  them (`Successor`); before there is nothing of `a` but replayed results, which may stand in front at any time.
- The operation is prepared and the gate expects a non-submission (`IsPrepared`), or the work
  is in the adapter and its acceptance was reported or is staged last (`IsWorking`), or what is
  staged starts with what the gate awaits and ends in the settlement (`IsReporting`), or it is settled and
  released with no call of it open (`IsOver`).
- `InForce`: an operation that is not settled is that of the binding, and a binding that is withdrawn has
  revoked it. Without it a late report could be refused for its binding.

A step that only the gate notices (a deadline, a cancellation, a withdrawal, an answer to a stop) leaves a gate that is
`Ahead`: it still takes every call it took before, so `Carried` is kept whatever is staged (`Quiet`).
`discard_prepared` and `finish` stage a whole list of calls behind what is there (`Opens`, `EmitLeads`), and
`process_next` takes one off (`LedTaken`). A replayed result is the hard case. In front of a worker's
own result it is taken in its place, the gate answers the second one by doing nothing, and
the settlement is still the next call (`Succeeded`, `ResultTaken`); of an older operation
it is ignored (`OtherIgnored`).

**The process** (`GateProcess_proofs`, `Workers_proofs`). One lemma per call says what it may
change (`SameRecord`, `SameOwnership`, `SameFrames`) and what it then knows. For
`RecordIsAlwaysSound` the invariant relates the record to what is still in the pipe:

- `Lifecycle`: which of launched, owned, exited and closed go together, on both sides;
- `Ordered`: the frames in the pipe continue the record one by one, in the order in which the
  worker sends them, with a stop that was asked for before it is acknowledged;
- `InStep`: the worker of this repository stands where the last of these frames puts it, and its
  exit is the one that frame announces; with another program there is no such relation, and the
  record may become malformed but never inconsistent;
- `Justified`: SIGKILL was asked for a reason that is still true.

The loop of `drain_events` is a function on the number of frames read; that it keeps an
invariant of one `consume` is proved with the least number that would not.

**The compute host** (`ComputeHost_proofs`). `ReportsAreAlwaysAccepted` and `SettledIsAlwaysClosed`,
then `HostImplementsDomain`, for every clock, validity and system fault. The first two relate three records that one call
changes together, and neither is inductive. The invariant is `IInv`, that is `Base` and `Operation`, which TLC
checked on the configurations of both runs before they were proved. `Base` holds within a call too:

- `Held`: no record of the gate has a larger number or a later time than the host has counted, so
  the next report is never older than what it meets;
- `Fresh`: the disposition is what the fields call for. The host settles by it;
- `Phases`: a candidate exists only within `rebind`, which begins and ends one in a single call;
- `Lived`: the child as the owner and as the kernel see it.

`Operation` is where the operation stands: `Nothing`, `Prepared`, `Pending`, `Ended`, `Closed` or
`Failed` (the launch failed and its cleanup is unknown). Each says which reports are still to come, and
that is what makes the gate accept them: `Pending` has told no outcome; in `Ended` the outcome is the way
the child ended (`Agrees`), its output is told, and only the settlement, the answer to a stop
and an event that the worker reported late are left. A call of the
host is a chain of reports, controls and operations on the process, and each link is a lemma: a report is
`Reporting` (one more record, and which fields it sets), a control is `Controlled` (revoked, told to
stop, perhaps settled undispatched), a poll `Told`, a change of binding `Rebound`. The
call's lemma ends in `Stays` (the operation is where it was) or names where it
went. `CallEnds` leads from the last link to `IInv`, where the records
are numbered anew. The reports of the old scope that a
rebinding makes have numbers above all of the candidate, and
`begin_rebind` and the commit find in them what they need.

`HostImplementsDomain` reads the abstract domain off the gate and off the result the host has stored.
Every step is one of two kinds (`StepServes`): it `Keeps` the operation, whose authority may be
revoked, whose result may be stored while the authority lasts, or whose end may be seen; or it
`Admits` the next one. A call is again a chain: of links that leave
authority and result alone (`Calm`), that may revoke (`Minds`), and of the one that may do both, in
this order (`Yields`). These need the fields of the records by name only, not their types. From
`Operation` comes that only a settled operation is released, that none is blocked (the host never
reports a contradiction), and that a result is stored while the operation is
pending only. `Numbered`, the second conjunct of `DInv`, says that the next identity follows that of
the owner until the identities are used up.

**Recovery** (`RecoverySession_proofs`). All four state properties, for any number of hosts. Each call
of the owner is a lemma `...Step`: from a state that is `Sound` it leads to a `Sound` state that
`Advances`. `Sound` is `Live` (what the owner knows of its child), `Quiet` (`OrphanIsStopped` before
the collection), `Accounts`, `History` (the operations that were launched are told apart by session
and number) and `Honest`: every message to a client that is queued, held back or in a channel is
`Fair`, which means that what it says of the state is so. `Advances` says which facts last: sessions that
are over stay clean, and operations that were decided stay decided, with the same end. That is why a
message can be late without becoming false, and why a client may believe it: `Host` joins `Known`
(the client's gate says of its operation what became of it; a ready client has no child of an earlier session beside it) with
the fact that a client which waits for an answer has no terminal evidence yet, so that the gate takes the first
report and not a later one. The gate's calls enter by lemmas on the receipt alone (`...Keeps`,
`NativeTells`).

**Navigation** (`NavigationHandoff_proofs`). All five properties. A callback is a chain of calls that pass
the owner's record on, so as for the sample host the invariant `IInv` is a predicate `Sound` on the
record, the world and the history, and one lemma per call says what it keeps. `Solid` is the part
that holds between the calls as well:

- `GateSound`: the gate is at the operation the closure is for, so that no report meant for A
  reaches B; a stop is requested by a revocation only;
- `Duty`: revoked, pending work has been asked to stop, and a goal that has a handle has been sent
  the stop; it is why neither order of revocation and acceptance loses one
  (`StopsAlwaysReachTheGoal`);
- `DriveSound`: the drive never runs ahead of the closure, and a seal of the current generation was
  requested. The acknowledgement of A that its topic retains therefore differs in generation
  (`RetainedIsAlwaysHarmless`);
- `FactsSound`: what the closure was told of workers, tree and drive is so in the world. It needs
  `RefusedUnsent` and `Placed` (how often a goal was sent, wherever the owner waits), because
  facts about a task of A must not be taken for facts about B.

`Sound` adds `RestSound` (from the first quiet window on the drive is sealed, and a robot that was seen at
rest stays so), which with `FactsSound` gives `SettlementIsAlwaysEarned`; `GapSound` (a gap is
known to the watch until the goal has ended), which gives `OutputIsAlwaysObserved`; and
`CorridorSound` (a suffix of good scans in the window is no longer than the count that the history keeps), which
gives `ResumeIsAlwaysClear`. `Numbered` bounds the sequence numbers of the reports by the goals, answers and results
there were: the gate accepts numbers of its width only, and without the bound a refused report
could stand for anything. `NextSound` shows that each step keeps `IInv` and is one of four kinds:
it keeps settlement, output and goal (`Kept`), sends, settles or delivers.

**The worker's sum** (`Workers_proofs`). `SumHolds`: every frame carries the sum that host and
recovery client compute in closed form, for every number of iterations; `SumNeverWraps`: neither
wraps. They rest on a cubic polynomial invariant per period. No run checks `WorkerSum`.

**The Python host** (`Workers_proofs`). `RecordsAreAlwaysTrue`: what a finished record says is what the
gate knows, for every number of records, chunk, deadline and backend, whatever the worker or a
program in its place answers. No assumption on the constants is used. A call may raise in the middle,
so the invariant `Records` has two strengths. A host is `Kept` at any time, also after an
exception: no record that says "finished" is wrong. It is `Sound` as long as nothing was raised: the
active record is the one that is still running and has no result yet, all others are finished, and a host that
is starting or ready has no active operation, which is why `submit` never loses one.

Most calls are `Calm`: they change the gate, may raise, leave the records alone and never make
the host ready. The rest is `finish`, in four steps that may each raise. `dispose_result` stages
the result, and it stays in the record exactly if the gate accepted the output (`Disposed`); when
the deadline passes in between, it is retracted before the gate is told so. `settle` copies what the gate
says, which is "released" because settlement was accepted (`SettlementForms`). `release` ends the
operation. The messages of one `pump` are again an induction with the least number that fails.

`EffectsAreAlwaysAuthorized`: which operation an effect is made for. `advance` never compares an
operation number: it uses the first candidate that waits, or the fixed action of a hold. That
these belong to the active operation is a fact about all the calls before, and the invariant
`Effects` joins `Records` with it:

- `Active`: the receipt and the record of the active operation have the same number, the one
  before `next_operation_id`; and a host that ends, `closing` or failed, has revoked it. So
  neither a worker that fails nor a `close` in the middle of a poll leaves a way to an effect.
- `Asks`: what was asked last was asked for that operation, and only its answer is awaited or
  waits. It needs `Between`: nothing is awaited or waits once an operation has ended, which
  holds because `finish` drops what waits and raises while something is awaited.
- `Acts` and `Between`: the handoff backend is ready for a hold only after a transfer whose result
  was delivered, and then `last_action` is still its last candidate and no operation was admitted
  in between; `reset` forgets both.
- `Rests`: the times the gate keeps are not after the next one read, also after a step has forgotten the
  past, so the control of `advance` is refused for a reason of the operation and not of the clock.

After an exception nothing of this is claimed but the shape: no action makes an effect then. The
part of a poll that serves the worker's messages is Horn-like: each call preserves `Bound` if it
does not raise, and a raised call skips the rest (`unless_raised`). The theorem needs the assumptions
on the constants, that times are naturals and chunks and steps are bounded.

*Proved, and in no run:* `PhasesAgree`, `IdentitiesAreFresh`, `OldReceiptIsReadOnly`,
`UnknownOutcomeBlocks`, `DispatchedWithinAuthority`, `CapabilitiesAreCurrent` and
`OperationIdsAreUnique` of the gate; `PermissionAgrees`, `AppliedIsStopped`,
`GenerationsBeginAtRest` and `FaultIsFinal` of the drive; the type invariants of both. They were
model-checked before they were proved.

*Only model-checked:* all liveness (TLAPS does not prove it under fairness here), and
`EndsInOrder` of the Python host. It says which exceptions are possible, so its proof would have to
show of every other report to the gate that it is accepted; the invariant `Effects`
is what it would start from.

*One formula, two readers.* `binding_times` of `AuthorityGate` has parentheses around its `UNION`, because
without them the provers take the operands to its right into it and TLC does not.

## 5. Plan

Done, in this order: gate, drive, their invariants and theorems; `OperationDomain` and its
refinement; `SampleHost`; the compute modules; `RecoverySession`; `PermissionOwner` with its
theorems; `PythonHost`; the watches and `NavigationHandoff`; the theorems about the process,
about recovery, about the sample host, about navigation, about the compute host and about the
records and the effects of the Python host. Left: the revision and failure
profiles of the navigation owner, whose owners keep more native state than the permission
profile, and an inductive invariant of the Python host for `EndsInOrder`.

## 6. Not modelled

- *Channel transport, documentation tools, simulation tooling*: framing, scripts, rendering and
  physics; no protocol state.
- *Python session, navigation requests, MCP bridge, examples*: clients. They make one call
  and wait for its answer; the host modules let their environment make every call at any time.
- *Producer bridge and native workers*: in the modules that receive what they send they are an
  environment that may lose, delay and reorder it.
- *Navigation observations*: predicates over sensor data.
- *Python binding, fixture and MuJoCo backend* are modelled as far as their control reaches the
  host; conversions, physics, rendering and recording are left out. The fixture backend is a
  profile of `PythonHost` that the run does not start.
- Of the *navigation owner*, the revision and failure profiles.
- Allocation failures inside the gate (the code allocates before it changes the live phase), an
  unavailable monotonic clock of the drive (`permit_now_ns` throws) and, in the instances, a
  failing clock of the recovery owner.
