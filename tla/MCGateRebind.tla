---------------------------- MODULE MCGateRebind ----------------------------
(***************************************************************************)
(* The binding is withdrawn and rebound around an operation of the first    *)
(* binding, from the state in which the worker has accepted that operation. *)
(* As in the recovery client, one observer reports native events,           *)
(* settlement and the idle state of the scope.                              *)
(***************************************************************************)
EXTENDS MCGate

MCOffered ==
  {Rec("owner", 0, 2), Rec("owner", 0, 3), Rec("owner", 1, 4),
   Rec("worker", 0, 2), Rec("sink", 0, 2)}

\* The gate of a started host, whose three startup facts were observed at 0.
Startup(c) == [concern |-> c, binding |-> InitialBinding, value |-> TRUE,
               record |-> Rec(observer_of(c), StartedAt, 1)]

StartedGate ==
  observe_startup(observe_startup(observe_startup(
    initial_gate, Startup("idle")), Startup("worker")), Startup("sink"))

AdmittedGate ==
  admit(StartedGate,
        [requested_at |-> StartedAt, deadline |-> {}, requirements |-> {}])

RunningGate ==
  LET authority == AdmittedGate.receipt.authority
  IN  observe_native(
        claim_dispatch(AdmittedGate, authority, StartedAt),
        [authority |-> authority, native_identity |-> "n1",
         kind |-> "accepted", record |-> Rec(NativeSource, StartedAt, 1)])

RunningInit ==
  /\ gate = RunningGate
  /\ issued = {RunningGate.receipt.authority}
  /\ identities = {InitialBinding}

RunningSpec == RunningInit /\ [][Next]_vars
=============================================================================
