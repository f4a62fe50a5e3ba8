-------------------------- MODULE SampleHost_proofs --------------------------
(***************************************************************************)
(* Theorems about the sample host, for every clock, set of deadlines, number *)
(* of operations and choice of fixture controls: its sink and its stop       *)
(* requests agree with the gate, a result is delivered only within the       *)
(* authority it was produced for, and no operation is lost between the        *)
(* prepared request, the adapter, the staged callbacks and the gate.          *)
(***************************************************************************)
EXTENDS SampleHost, GateProcess_proofs

-----------------------------------------------------------------------------
(* Types *)

EventKind == NativeKind \cup {"not_submitted", "no_output", "settled", "result"}

\* An authority that was admitted.
Issued == {a \in Authority : a.operation_id # 0}

Event == [kind : EventKind, authority : Issued, sequence : 1..5, observed_at : Time]

Callback == [kind : {"result"}, authority : Issued, sequence : 1..5]

Work == [authority : Issued, is_cancelled : BOOLEAN]

Adapter ==
  [mode : CompletionMode, worker_ready : BOOLEAN, sink_ready : BOOLEAN,
   closed : BOOLEAN, reject_next : BOOLEAN, fail_next : BOOLEAN,
   cancellation : CancellationMode, reporting : BOOLEAN, replay : BOOLEAN,
   retained : SUBSET Callback, pending : SUBSET Work]

HostRecord ==
  [gate : Gate, adapter : Adapter, staged : Seq(Event), current : SUBSET Issued,
   prepared : SUBSET Issued, results : Seq(Issued), stops : Seq(Issued),
   muted : SUBSET Nat]

-----------------------------------------------------------------------------
(* The inductive invariant, of the record a call passes between its steps at *)
(* the time it last read                                                     *)

\* The operation of a is not newer than that of the gate.
Old(a, g) == a.operation_id <= g.receipt.authority.operation_id

Distinct(list) == \A i, j \in DOMAIN list : list[i] = list[j] => i = j

Holds(list, a) == \E i \in DOMAIN list : list[i] = a

\* The sink has each result once, and that of the current operation when the gate
\* says so.
SinkOK(list, g) ==
  /\ Distinct(list) /\ \A i \in DOMAIN list : Old(list[i], g)
  /\ has_receipt(g) =>
       (g.receipt.output = "accepted" <=> Holds(list, g.receipt.authority))

\* The same of the stop requests.
StopsOK(list, g) ==
  /\ Distinct(list) /\ \A i \in DOMAIN list : Old(list[i], g)
  /\ has_receipt(g) =>
       (g.receipt.stop_requested_at # {} <=> Holds(list, g.receipt.authority))

\* Work in the adapter is that of the current operation, submitted and not ended.
WorkOK(a, g) ==
  \A w \in a.pending : /\ w.authority = g.receipt.authority
                       /\ g.receipt.dispatch = "submitted"
                       /\ g.receipt.outcome = "pending"

\* No staged event of the current operation is of another kind.
Only(kinds, h) ==
  \A i \in DOMAIN h.staged :
    h.staged[i].authority = h.gate.receipt.authority => h.staged[i].kind \in kinds

\* Staged events are of this operation or older ones.  While its work runs no end
\* of it is staged; before it is dispatched, nothing but a replayed result.
StagedOK(h, t) ==
  /\ \A i \in DOMAIN h.staged :
       Old(h.staged[i].authority, h.gate) /\ h.staged[i].observed_at <= t
  /\ h.adapter.pending # {} => Only({"accepted", "result"}, h)
  /\ h.prepared # {} => h.adapter.pending = {} /\ Only({"result"}, h)

\* Everything but the stop requests, which follow the revocation they are for.
Base(h, t) ==
  /\ h \in HostRecord /\ t \in Time /\ GateOK(h.gate, t)
  /\ has_receipt(h.gate) => h.current = {h.gate.receipt.authority}
  /\ SinkOK(h.results, h.gate) /\ WorkOK(h.adapter, h.gate) /\ StagedOK(h, t)
  /\ \A a \in h.prepared : Old(a, h.gate)
  /\ \A c \in h.adapter.retained : Old(c.authority, h.gate)

Sound(h, t) == Base(h, t) /\ StopsOK(h.stops, h.gate)
-----------------------------------------------------------------------------
(* Parts *)

LEMMA TimeIs ==
  /\ Time = 0..LastTime /\ LastTime \in Nat /\ Time \subseteq Nat
  /\ 0 \in Time /\ Clock \subseteq Time /\ StartedAt = 0
BY HostAssumption, NumberAssumption

LEMMA IssuedIs ==
  /\ Issued \subseteq Authority
  /\ \A a \in Authority : /\ a.operation_id \in Nat /\ a.operation_id <= LastOperationId
                          /\ a.admitted_at \in Time /\ a.binding \in Binding
BY NumberAssumption DEF Issued, Authority

\* What only the gate differs in.
LEMMA GateFields ==
  ASSUME NEW h \in HostRecord, NEW g \in Gate, NEW r, r = [h EXCEPT !.gate = g]
  PROVE  /\ r \in HostRecord /\ r.gate = g /\ r.adapter = h.adapter
         /\ r.staged = h.staged /\ r.current = h.current /\ r.prepared = h.prepared
         /\ r.results = h.results /\ r.stops = h.stops /\ r.muted = h.muted
BY DEF HostRecord

\* What only the adapter differs in.
LEMMA AdapterFields ==
  ASSUME NEW h \in HostRecord, NEW a \in Adapter, NEW r, r = [h EXCEPT !.adapter = a]
  PROVE  /\ r \in HostRecord /\ r.adapter = a /\ r.gate = h.gate
         /\ r.staged = h.staged /\ r.current = h.current /\ r.prepared = h.prepared
         /\ r.results = h.results /\ r.stops = h.stops /\ r.muted = h.muted
BY DEF HostRecord

\* One more entry in a list that did not hold it.
LEMMA Appended ==
  ASSUME NEW S, NEW list \in Seq(S), NEW a \in S, Distinct(list), ~Holds(list, a)
  PROVE  /\ Append(list, a) \in Seq(S) /\ Distinct(Append(list, a))
         /\ \A b : Holds(Append(list, a), b) <=> Holds(list, b) \/ b = a
         /\ \A g : (\A i \in DOMAIN list : Old(list[i], g)) /\ Old(a, g)
              => \A i \in DOMAIN Append(list, a) : Old(Append(list, a)[i], g)
<1> DEFINE more == Append(list, a)
           n == Len(list)
<1>1. /\ n \in Nat /\ DOMAIN list = 1..n /\ more \in Seq(S) /\ DOMAIN more = 1..n + 1
      /\ \A i \in 1..n : more[i] = list[i]
      /\ more[n + 1] = a
  OBVIOUS
<1> HIDE DEF more, n
<1>2. \A i \in 1..n + 1 : i \in 1..n \/ i = n + 1
  BY <1>1
<1>3. \A i \in 1..n : i \in 1..n + 1 /\ i # n + 1
  BY <1>1
<1>4. n + 1 \in 1..n + 1
  BY <1>1
<1>5. Distinct(more)
  <2> SUFFICES ASSUME NEW i \in DOMAIN more, NEW j \in DOMAIN more, more[i] = more[j]
               PROVE  i = j
    BY DEF Distinct
  <2> QED BY <1>1, <1>2 DEF Distinct, Holds
<1>6. \A b : Holds(more, b) <=> Holds(list, b) \/ b = a
  BY <1>1, <1>2, <1>3, <1>4 DEF Holds
<1>7. ASSUME NEW g, \A i \in DOMAIN list : Old(list[i], g), Old(a, g)
      PROVE  \A i \in DOMAIN more : Old(more[i], g)
  BY <1>1, <1>2, <1>7
<1> QED BY <1>1, <1>5, <1>6, <1>7 DEF more

-----------------------------------------------------------------------------
(* A report, and other calls of the gate *)

\* What no call but a delivery and a rebinding changes.
Same(r, h) ==
  /\ r.results = h.results /\ r.gate.binding = h.gate.binding
  /\ r.gate.receipt.authority = h.gate.receipt.authority
  /\ r.gate.receipt.deadline = h.gate.receipt.deadline
  /\ r.gate.phase \in {h.gate.phase, "withdrawn"}

LEMMA SameOn ==
  ASSUME NEW h, NEW r, NEW q, Same(r, h), Same(q, r) PROVE Same(q, h)
BY DEF Same

LEMMA SoundLater ==
  ASSUME NEW h, NEW t, NEW u \in Time, t <= u, Sound(h, t)
  PROVE  Sound(h, u)
<1>1. t \in Nat /\ u \in Nat /\ GateOK(h.gate, t)
  BY TimeIs DEF Sound, Base
<1>2. GateOK(h.gate, u)
  BY <1>1, TimedLater
<1>3. \A i \in DOMAIN h.staged : h.staged[i].observed_at \in Nat
  <2> DEFINE L == h.staged
  <2>1. L \in Seq(Event)
    BY DEF Sound, Base, HostRecord
  <2> HIDE DEF L
  <2>2. \A i \in DOMAIN L : L[i] \in Event
    BY <2>1
  <2> QED BY <2>2, TimeIs DEF L, Event
<1>4. StagedOK(h, u)
  BY <1>1, <1>3 DEF Sound, Base, StagedOK
<1> QED BY <1>2, <1>4 DEF Sound, Base

\* A report to the gate that does not end the work the adapter has.
LEMMA ReportSound ==
  ASSUME NEW h, NEW t, Sound(h, t), NEW g, OnlyReported(g, h.gate, t),
         g.receipt.output = "accepted" <=> h.gate.receipt.output = "accepted",
         h.adapter.pending # {} => SameWork(g, h.gate),
         NEW r, r = [h EXCEPT !.gate = g]
  PROVE  Sound(r, t) /\ Same(r, h) /\ r.gate = g
<1>1. h \in HostRecord /\ g \in Gate
  BY DEF Sound, Base, OnlyReported, GateOK
<1>2. /\ r \in HostRecord /\ r.gate = g /\ r.adapter = h.adapter
      /\ r.staged = h.staged /\ r.current = h.current /\ r.prepared = h.prepared
      /\ r.results = h.results /\ r.stops = h.stops
  BY <1>1, GateFields
<1>3. /\ g.receipt.authority = h.gate.receipt.authority
      /\ g.receipt.deadline = h.gate.receipt.deadline /\ g.binding = h.gate.binding
      /\ g.phase = h.gate.phase
      /\ g.receipt.stop_requested_at = h.gate.receipt.stop_requested_at
      /\ has_receipt(g) <=> has_receipt(h.gate)
      /\ \A a : Old(a, g) <=> Old(a, h.gate)
  BY DEF OnlyReported, SameSubject, has_receipt, Old
<1>4. SinkOK(r.results, r.gate) /\ StopsOK(r.stops, r.gate)
  BY <1>2, <1>3 DEF Sound, Base, SinkOK, StopsOK
<1>5. WorkOK(r.adapter, r.gate)
  BY <1>2, <1>3 DEF Sound, Base, WorkOK, SameWork
<1>6. StagedOK(r, t)
  BY <1>2, <1>3 DEF Sound, Base, StagedOK, Only
<1>7. GateOK(r.gate, t) /\ t \in Time
  BY <1>2 DEF Sound, Base, OnlyReported
<1>8. Base(r, t)
  BY <1>2, <1>3, <1>4, <1>5, <1>6, <1>7 DEF Sound, Base
<1> QED BY <1>2, <1>3, <1>4, <1>8 DEF Sound, Same

\* A call that leaves the receipt alone.
LEMMA SameReceiptSound ==
  ASSUME NEW h, NEW t, Sound(h, t), NEW g \in Gate, SameReceipt(g, h.gate),
         NEW r, r = [h EXCEPT !.gate = g]
  PROVE  Sound(r, t) /\ r.results = h.results /\ r.gate = g
<1>1. h \in HostRecord /\ GateOK(g, t)
  BY SameReceiptOK DEF Sound, Base
<1>2. /\ r \in HostRecord /\ r.gate = g /\ r.adapter = h.adapter
      /\ r.staged = h.staged /\ r.current = h.current /\ r.prepared = h.prepared
      /\ r.results = h.results /\ r.stops = h.stops
  BY <1>1, GateFields
<1>3. /\ g.receipt = h.gate.receipt
      /\ has_receipt(g) <=> has_receipt(h.gate)
      /\ \A a : Old(a, g) <=> Old(a, h.gate)
  BY DEF SameReceipt, has_receipt, Old
<1>4. SinkOK(r.results, r.gate) /\ StopsOK(r.stops, r.gate)
  BY <1>2, <1>3 DEF Sound, Base, SinkOK, StopsOK
<1>5. WorkOK(r.adapter, r.gate) /\ StagedOK(r, t)
  BY <1>2, <1>3 DEF Sound, Base, WorkOK, StagedOK, Only
<1>6. Base(r, t)
  BY <1>1, <1>2, <1>3, <1>4, <1>5 DEF Sound, Base
<1> QED BY <1>2, <1>4, <1>6 DEF Sound
-----------------------------------------------------------------------------
(* The callbacks of the adapter *)

\* What a call about the adapter leaves alone.
AdapterOnly(r, h) ==
  /\ r.gate = h.gate /\ r.results = h.results /\ r.stops = h.stops
  /\ r.current = h.current /\ r.prepared = h.prepared

Call == EventKind \X (1..5)

\* The kinds of a list of callbacks.
KindsIn(kinds, calls) == \A i \in DOMAIN calls : calls[i][1] \in kinds

\* Callbacks of an operation that has nothing prepared and no work in the adapter
\* are staged behind the others.
LEMMA EmitBase ==
  ASSUME NEW h, NEW t, Base(h, t), h.prepared = {}, h.adapter.pending = {},
         NEW a \in Issued, Old(a, h.gate), NEW calls \in Seq(Call), calls # <<>>,
         NEW r, r = emit(h, a, calls, t)
  PROVE  /\ Base(r, t) /\ AdapterOnly(r, h)
         /\ r.adapter = [h.adapter EXCEPT !.retained = r.adapter.retained]
         /\ \A kinds : Only(kinds, h) /\ KindsIn(kinds, calls) => Only(kinds, r)
<1> DEFINE heard == IF h.adapter.reporting \/ Last(calls)[1] # "settled" THEN calls
                    ELSE Front(calls)
           callback(c) == [kind |-> c[1], authority |-> a, sequence |-> c[2]]
           event(c) == [kind |-> c[1], authority |-> a, sequence |-> c[2],
                        observed_at |-> t]
           events == [i \in DOMAIN heard |-> event(heard[i])]
           produced == {callback(c) : c \in {d \in Range(heard) : d[1] = "result"}}
           keeps == h.adapter.replay /\ h.adapter.retained = {}
           staged1 == h.staged \o events
           retained1 == IF keeps THEN produced ELSE h.adapter.retained
           muted1 == IF heard = calls THEN h.muted
                     ELSE h.muted \cup {a.operation_id}
<1>1. r = [h EXCEPT !.staged = staged1, !.adapter.retained = retained1,
                    !.muted = muted1]
  BY DEF emit
<1>2. h \in HostRecord /\ t \in Time /\ a.operation_id \in Nat
  BY IssuedIs DEF Base
<1>3. /\ heard \in Seq(Call)
      /\ \A i \in DOMAIN heard : i \in DOMAIN calls /\ heard[i] = calls[i]
  <2>1. Len(calls) \in Nat /\ Len(calls) # 0
    OBVIOUS
  <2>2. CASE h.adapter.reporting \/ Last(calls)[1] # "settled"
    BY <2>2
  <2>3. CASE ~(h.adapter.reporting \/ Last(calls)[1] # "settled")
    <3>1. heard = SubSeq(calls, 1, Len(calls) - 1)
      BY <2>3 DEF Front
    <3> HIDE DEF heard
    <3> QED BY <2>1, <3>1
  <2> QED BY <2>2, <2>3
<1> HIDE DEF heard
<1>4. \A i \in DOMAIN heard : heard[i] \in Call
  BY <1>3
<1>5. \A c \in Call : event(c) \in Event /\ event(c).authority = a
                      /\ event(c).observed_at = t /\ event(c).kind = c[1]
  BY <1>2 DEF Call, Event
<1>6. \A c \in Call : c[1] = "result" => callback(c) \in Callback /\ callback(c).authority = a
  BY DEF Call, Callback
<1> HIDE DEF event, callback
<1>7. /\ events \in Seq(Event) /\ DOMAIN events = DOMAIN heard
      /\ \A i \in DOMAIN heard : events[i] = event(heard[i])
  <2>1. DOMAIN heard = 1..Len(heard) /\ Len(heard) \in Nat
    BY <1>3
  <2> HIDE DEF Event
  <2>2. events \in [1..Len(heard) -> Event]
    BY <1>4, <1>5, <2>1
  <2>3. events \in Seq(Event)
    <3> HIDE DEF events
    <3> QED BY <2>1, <2>2
  <2> QED BY <2>3
<1>8. produced \in SUBSET Callback /\ \A c \in produced : c.authority = a
  <2>1. Range(heard) \subseteq Call
    BY <1>4 DEF Range
  <2> QED BY <1>6, <2>1
<1>9. h.adapter \in Adapter /\ h.staged \in Seq(Event) /\ h.muted \in SUBSET Nat
  BY <1>2 DEF HostRecord
<1>10. /\ retained1 \in SUBSET Callback
       /\ \A c \in retained1 : Old(c.authority, h.gate)
  <2> HIDE DEF produced
  <2>1. h.adapter.retained \in SUBSET Callback
    BY <1>9 DEF Adapter
  <2> QED BY <1>8, <2>1 DEF Base
<1>11. muted1 \in SUBSET Nat
  BY <1>2, <1>9
<1> DEFINE L == h.staged
<1>12. /\ staged1 \in Seq(Event)
       /\ \A i \in DOMAIN staged1 :
            \/ \E j \in DOMAIN h.staged : staged1[i] = h.staged[j]
            \/ \E j \in DOMAIN events : staged1[i] = events[j]
  <2>1. L \in Seq(Event) /\ events \in Seq(Event)
    BY <1>7, <1>9
  <2> HIDE DEF L, events, Event
  <2>2. /\ L \o events \in Seq(Event)
        /\ Len(L \o events) = Len(L) + Len(events)
        /\ Len(L) \in Nat /\ Len(events) \in Nat
        /\ DOMAIN L = 1..Len(L) /\ DOMAIN events = 1..Len(events)
        /\ DOMAIN (L \o events) = 1..Len(L) + Len(events)
    BY <2>1
  <2>3. ASSUME NEW i \in 1..Len(L) + Len(events)
        PROVE  \/ \E j \in 1..Len(L) : (L \o events)[i] = L[j]
               \/ \E j \in 1..Len(events) : (L \o events)[i] = events[j]
    <3>1. CASE i <= Len(L)
      BY <2>1, <2>2, <2>3, <3>1
    <3>2. CASE i > Len(L)
      <4>1. i - Len(L) \in 1..Len(events) /\ (L \o events)[i] = events[i - Len(L)]
        BY <2>1, <2>2, <2>3, <3>2
      <4> QED BY <4>1
    <3> QED BY <2>2, <3>1, <3>2
  <2> QED BY <2>2, <2>3 DEF L
<1> HIDE DEF staged1, retained1, muted1, L
<1>13. /\ r \in HostRecord /\ AdapterOnly(r, h)
       /\ r.adapter = [h.adapter EXCEPT !.retained = retained1]
       /\ r.staged = staged1
  <2>1. [h.adapter EXCEPT !.retained = retained1] \in Adapter
    BY <1>9, <1>10 DEF Adapter
  <2>2. r = [h EXCEPT !.staged = staged1,
               !.adapter = [h.adapter EXCEPT !.retained = retained1],
               !.muted = muted1]
    BY <1>1, <1>2 DEF HostRecord
  <2> DEFINE b == [h.adapter EXCEPT !.retained = retained1]
  <2> HIDE DEF b
  <2>3. b \in Adapter /\ r = [h EXCEPT !.staged = staged1, !.adapter = b, !.muted = muted1]
    BY <2>1, <2>2 DEF b
  <2>4. /\ r \in HostRecord /\ AdapterOnly(r, h) /\ r.adapter = b /\ r.staged = staged1
    BY <1>2, <1>11, <1>12, <2>3 DEF HostRecord, AdapterOnly
  <2> QED BY <2>4 DEF b
<1>14. r.adapter.retained = retained1 /\ r.adapter.pending = {}
  BY <1>9, <1>13 DEF Adapter
<1>15. \A i \in DOMAIN events : /\ events[i].authority = a /\ events[i].observed_at = t
                                /\ events[i].kind = heard[i][1]
  BY <1>4, <1>5, <1>7
<1> HIDE DEF events
<1>16. t <= t
  BY <1>2, TimeIs
<1>17. StagedOK(r, t)
  <2>1. \A i \in DOMAIN r.staged :
          Old(r.staged[i].authority, r.gate) /\ r.staged[i].observed_at <= t
    BY <1>12, <1>13, <1>15, <1>16 DEF Base, StagedOK, AdapterOnly
  <2> QED BY <1>13, <1>14, <2>1 DEF StagedOK, AdapterOnly
<1>18. Base(r, t)
  BY <1>2, <1>10, <1>13, <1>14, <1>17 DEF Base, AdapterOnly, WorkOK
<1>19. ASSUME NEW kinds, Only(kinds, h), KindsIn(kinds, calls)
       PROVE  Only(kinds, r)
  <2>1. \A i \in DOMAIN events : events[i].kind \in kinds
    BY <1>3, <1>7, <1>15, <1>19 DEF KindsIn
  <2> QED BY <1>12, <1>13, <1>19, <2>1 DEF Only, AdapterOnly
<1> QED BY <1>13, <1>14, <1>18, <1>19
-----------------------------------------------------------------------------
(* Controls that reach the prepared request or the native work *)

\* What a look at the clock and a control leave alone.
Calm(r, h) ==
  /\ Same(r, h)
  /\ h.prepared = {} => r.prepared = {} /\ r.staged = h.staged
  /\ h.adapter.pending = {} => r.adapter.pending = {}

LEMMA CalmOn ==
  ASSUME NEW h, NEW r, NEW q, Calm(r, h), Calm(q, r) PROVE Calm(q, h)
BY DEF Calm, Same

\* The lists of callbacks.
LEMMA CallLists ==
  /\ not_executed_calls \in Seq(Call) /\ not_executed_calls # <<>>
  /\ rejected_calls \in Seq(Call) /\ rejected_calls # <<>>
  /\ accepted_calls \in Seq(Call) /\ accepted_calls # <<>>
  /\ cancelled_calls \in Seq(Call) /\ cancelled_calls # <<>>
  /\ failed_calls \in Seq(Call) /\ failed_calls # <<>>
  /\ succeeded_calls \in Seq(Call) /\ succeeded_calls # <<>>
  /\ KindsIn({"accepted"}, accepted_calls)
<1> DEFINE c(k, n) == <<k, n>>
<1>1. \A k \in EventKind, n \in 1..5 : c(k, n) \in Call
  BY DEF Call
<1>2. /\ {"accepted", "rejected", "started", "succeeded", "failed", "cancelled",
          "not_submitted", "no_output", "settled", "result"} \subseteq EventKind
      /\ 1 \in 1..5 /\ 2 \in 1..5 /\ 3 \in 1..5 /\ 4 \in 1..5 /\ 5 \in 1..5
  BY DEF EventKind, NativeKind
<1>3. /\ not_executed_calls = <<c("not_submitted", 1), c("no_output", 2), c("settled", 3)>>
      /\ rejected_calls = <<c("rejected", 1), c("no_output", 1), c("settled", 2)>>
      /\ accepted_calls = <<c("accepted", 1)>>
      /\ cancelled_calls = <<c("cancelled", 2), c("no_output", 1), c("settled", 2)>>
      /\ failed_calls = <<c("started", 2), c("failed", 3), c("no_output", 1),
                          c("settled", 2)>>
      /\ succeeded_calls = <<c("started", 2), c("succeeded", 3), c("result", 4),
                             c("settled", 5)>>
  BY DEF not_executed_calls, rejected_calls, accepted_calls, cancelled_calls,
         failed_calls, succeeded_calls
<1>4. KindsIn({"accepted"}, accepted_calls)
  BY DEF KindsIn, accepted_calls
<1> HIDE DEF c
<1>5. not_executed_calls \in Seq(Call) /\ not_executed_calls # <<>>
  BY <1>1, <1>2, <1>3
<1>6. rejected_calls \in Seq(Call) /\ rejected_calls # <<>>
  BY <1>1, <1>2, <1>3
<1>7. accepted_calls \in Seq(Call) /\ accepted_calls # <<>>
  BY <1>1, <1>2, <1>3
<1>8. cancelled_calls \in Seq(Call) /\ cancelled_calls # <<>>
  BY <1>1, <1>2, <1>3
<1>9. failed_calls \in Seq(Call) /\ failed_calls # <<>>
  BY <1>1, <1>2, <1>3
<1>10. succeeded_calls \in Seq(Call) /\ succeeded_calls # <<>>
  BY <1>1, <1>2, <1>3
<1> QED BY <1>4, <1>5, <1>6, <1>7, <1>8, <1>9, <1>10

\* The prepared request is discarded: it is reported, and nothing else changes.
LEMMA DiscardBase ==
  ASSUME NEW h, NEW t, Base(h, t), NEW r, r = discard_prepared(h, t)
  PROVE  /\ Base(r, t) /\ r.gate = h.gate /\ r.results = h.results
         /\ r.stops = h.stops /\ r.prepared = {}
         /\ r.adapter.pending = h.adapter.pending
         /\ h.prepared = {} => r = h
<1>1. CASE h.prepared = {}
  BY <1>1 DEF discard_prepared
<1>2. CASE h.prepared # {}
  <2> DEFINE x == [h EXCEPT !.prepared = {}]
             a == CHOOSE p \in h.prepared : TRUE
  <2>1. h \in HostRecord /\ a \in h.prepared /\ a \in Issued /\ Old(a, h.gate)
    BY <1>2 DEF Base, HostRecord
  <2>2. /\ x \in HostRecord /\ x.gate = h.gate /\ x.adapter = h.adapter
        /\ x.staged = h.staged /\ x.current = h.current /\ x.prepared = {}
        /\ x.results = h.results /\ x.stops = h.stops
    BY <2>1 DEF HostRecord
  <2>3. r = emit(x, a, not_executed_calls, t)
    BY <1>2 DEF discard_prepared, then
  <2> HIDE DEF x, a
  <2>4. x.adapter.pending = {}
    BY <1>2, <2>2 DEF Base, StagedOK
  <2>5. StagedOK(x, t)
    BY <2>2, <2>4 DEF Base, StagedOK
  <2>6. Base(x, t)
    BY <2>2, <2>5 DEF Base
  <2>7. Old(a, x.gate)
    BY <2>1, <2>2
  <2>8. /\ Base(r, t) /\ AdapterOnly(r, x)
        /\ r.adapter = [x.adapter EXCEPT !.retained = r.adapter.retained]
    <3> DEFINE calls == not_executed_calls
    <3>1. calls \in Seq(Call) /\ calls # <<>> /\ r = emit(x, a, calls, t)
      BY <2>3, CallLists
    <3>2. a \in Issued /\ Base(x, t) /\ x.prepared = {} /\ x.adapter.pending = {}
          /\ Old(a, x.gate)
      BY <2>1, <2>2, <2>4, <2>6, <2>7
    <3> HIDE DEF calls
    <3> QED BY <3>1, <3>2, EmitBase
  <2>9. r.adapter.pending = x.adapter.pending
    BY <2>2, <2>8 DEF HostRecord, Adapter
  <2> QED BY <1>2, <2>2, <2>8, <2>9 DEF AdapterOnly
<1> QED BY <1>1, <1>2
\* What the adapter does when it is asked to stop, and what it answers.
LEMMA StopAnswer ==
  ASSUME NEW a \in Adapter, NEW authority
  PROVE  /\ stopped(a, authority) \in Adapter
         /\ stopped(a, authority).retained = a.retained
         /\ \A v \in stopped(a, authority).pending :
              \E w \in a.pending : v.authority = w.authority
         /\ stop_answer(a, authority) \subseteq StopResponse
<1> DEFINE told == {[w EXCEPT !.is_cancelled = TRUE] : w \in a.pending}
<1>1. a.pending \in SUBSET Work
  BY DEF Adapter
<1>2. told \in SUBSET Work
  BY <1>1 DEF Work
<1>3. \A v \in told : \E w \in a.pending : v.authority = w.authority
  BY <1>1 DEF Work
<1>4. stop_answer(a, authority) \subseteq StopResponse
  <2>1. CASE ~is_work_of(a, authority)
    BY <2>1 DEF stop_answer, StopResponse
  <2>2. CASE is_work_of(a, authority)
    <3>1. a.cancellation \in CancellationMode
      BY DEF Adapter
    <3> QED BY <2>2, <3>1 DEF stop_answer, StopResponse, CancellationMode
  <2> QED BY <2>1, <2>2
<1>5. CASE is_work_of(a, authority) /\ a.cancellation = "cooperative"
  <2>1. stopped(a, authority) = [a EXCEPT !.pending = told]
    BY <1>5 DEF stopped
  <2> HIDE DEF told
  <2>2. /\ stopped(a, authority) \in Adapter
        /\ stopped(a, authority).retained = a.retained
        /\ stopped(a, authority).pending = told
    BY <1>2, <2>1 DEF Adapter
  <2> QED BY <1>3, <1>4, <2>2
<1>6. CASE ~(is_work_of(a, authority) /\ a.cancellation = "cooperative")
  BY <1>4, <1>6 DEF stopped
<1> QED BY <1>5, <1>6

\* The native work is asked to stop, when the gate, revoked at t, wants it stopped.
LEMMA StopSound ==
  ASSUME NEW h, NEW t, Base(h, t), NEW g, has_receipt(g), StopsOK(h.stops, g),
         Revoked(h.gate, g, t), should_request_native_stop(g.receipt),
         NEW r, r = request_native_stop(h, g.receipt.authority, t)
  PROVE  Sound(r, t) /\ Calm(r, h) /\ is_revoked(r.gate.receipt)
<1> DEFINE a == g.receipt.authority
           b == stopped(h.adapter, a)
           more == Append(h.stops, a)
           record1 == record(StopSource, t, 1)
           k == CHOOSE x \in stop_answer(h.adapter, a) : TRUE
           g1 == observe_stop_acknowledgement(h.gate,
                   [authority |-> a, acknowledgement |-> k, record |-> record1])
           g2 == IF stop_answer(h.adapter, a) = {} THEN h.gate ELSE g1
<1>1. /\ h \in HostRecord /\ h.adapter \in Adapter /\ t \in Time /\ GateOK(h.gate, t)
      /\ h.gate \in Gate /\ h.gate.receipt.authority = a /\ t <= t
  BY TimeIs DEF Base, HostRecord, Revoked, GateOK
<1>2. /\ b \in Adapter /\ b.retained = h.adapter.retained
      /\ \A v \in b.pending : \E w \in h.adapter.pending : v.authority = w.authority
      /\ stop_answer(h.adapter, a) \subseteq StopResponse
  BY <1>1, StopAnswer
<1>3. OnlyReported(g2, h.gate, t) /\ SameWork(g2, h.gate) /\ SameOutput(g2, h.gate)
  <2>1. CASE stop_answer(h.adapter, a) = {}
    BY <1>1, <2>1, NoReport DEF SameWork, SameOutput
  <2>2. CASE stop_answer(h.adapter, a) # {}
    <3>1. k \in StopResponse
      BY <1>2, <2>2
    <3>2. record1 \in EvidenceRecord /\ record1.observed_at = t
      BY <1>1, HostAssumption DEF record, EvidenceRecord, Source
    <3>3. record1.observed_at <= t
      BY <1>1, <3>2
    <3> HIDE DEF k, record1
    <3>4. OnlyReported(g1, h.gate, t) /\ SameWork(g1, h.gate) /\ SameOutput(g1, h.gate)
      BY <1>1, <3>1, <3>2, <3>3, StopReport
    <3> HIDE DEF g1
    <3> QED BY <2>2, <3>4
  <2> QED BY <2>1, <2>2
<1>4. r = [h EXCEPT !.adapter = b, !.stops = more, !.gate = g2]
  <2>1. r = [[h EXCEPT !.adapter = b, !.stops = more]
               EXCEPT !.gate = IF stop_answer(h.adapter, a) = {} THEN @ ELSE
                 observe_stop_acknowledgement(@,
                   [authority |-> a, acknowledgement |-> k, record |-> record1])]
    BY DEF request_native_stop
  <2>2. [h EXCEPT !.adapter = b, !.stops = more].gate = h.gate
    BY <1>1 DEF HostRecord
  <2> HIDE DEF b, more, record1, k
  <2> QED BY <2>1, <2>2
<1>5. a \in Issued
  <2>1. h.gate.receipt \in Receipt
    BY <1>1 DEF Gate
  <2>2. h.gate.receipt.authority \in Authority
    BY <2>1 DEF Receipt
  <2> QED BY <1>1, <2>2 DEF has_receipt, Issued
<1>6. /\ more \in Seq(Issued) /\ Distinct(more) /\ Holds(more, a)
      /\ \A i \in DOMAIN more : Old(more[i], g)
  <2> DEFINE L == h.stops
  <2>1. L \in Seq(Issued) /\ Distinct(L) /\ ~Holds(L, a)
        /\ \A i \in DOMAIN L : Old(L[i], g)
    BY <1>1 DEF HostRecord, StopsOK, should_request_native_stop
  <2>2. a.operation_id \in Nat
    BY <1>5, IssuedIs
  <2>3. Old(a, g)
    BY <2>2 DEF Old
  <2> HIDE DEF L, a
  <2>4. /\ Append(L, a) \in Seq(Issued) /\ Distinct(Append(L, a))
        /\ \A c : Holds(Append(L, a), c) <=> Holds(L, c) \/ c = a
        /\ \A q : (\A i \in DOMAIN L : Old(L[i], q)) /\ Old(a, q)
             => \A i \in DOMAIN Append(L, a) : Old(Append(L, a)[i], q)
    BY <1>5, <2>1, Appended
  <2>5. \A i \in DOMAIN Append(L, a) : Old(Append(L, a)[i], g)
    BY <2>1, <2>3, <2>4
  <2> QED BY <2>4, <2>5 DEF L
<1>7. g2 \in Gate
  BY <1>3 DEF OnlyReported, GateOK
<1> HIDE DEF a, b, more, g2
<1>8. /\ r \in HostRecord /\ r.adapter = b /\ r.stops = more /\ r.gate = g2
      /\ r.staged = h.staged /\ r.current = h.current /\ r.prepared = h.prepared
      /\ r.results = h.results
  BY <1>1, <1>2, <1>4, <1>6, <1>7 DEF HostRecord
<1>9. /\ r.gate.receipt.authority = a /\ h.gate.receipt.authority = a
      /\ has_receipt(r.gate) /\ has_receipt(h.gate)
      /\ \A c : Old(c, r.gate) <=> Old(c, h.gate)
      /\ \A c : Old(c, r.gate) <=> Old(c, g)
      /\ r.gate.receipt.stop_requested_at = {t}
      /\ is_revoked(r.gate.receipt) /\ r.gate.phase = h.gate.phase
  BY <1>1, <1>3, <1>8 DEF OnlyReported, SameSubject, has_receipt, Old, Revoked, a, is_revoked
<1>10. StopsOK(r.stops, r.gate)
  BY <1>6, <1>8, <1>9 DEF StopsOK
<1>11. WorkOK(r.adapter, r.gate)
  BY <1>2, <1>3, <1>8, <1>9 DEF Base, WorkOK, SameWork
<1>12. StagedOK(r, t)
  BY <1>2, <1>8, <1>9 DEF Base, StagedOK, Only
<1>13. SinkOK(r.results, r.gate)
  BY <1>3, <1>8, <1>9 DEF Base, SinkOK, SameOutput
<1>14. Base(r, t)
  BY <1>1, <1>2, <1>3, <1>8, <1>9, <1>11, <1>12, <1>13 DEF Base, OnlyReported
<1>15. Calm(r, h)
  BY <1>2, <1>3, <1>8, <1>9 DEF Calm, Same, OnlyReported, SameSubject
<1> QED BY <1>9, <1>10, <1>14, <1>15 DEF Sound

\* apply_control, after the gate was revoked at t.
LEMMA ControlSound ==
  ASSUME NEW h, NEW t, Base(h, t), NEW g, has_receipt(g), StopsOK(h.stops, g),
         Revoked(h.gate, g, t), NEW a, a = g.receipt.authority,
         NEW stop, stop <=> should_request_native_stop(g.receipt),
         NEW r, r = apply_control(h, a, stop, t)
  PROVE  Sound(r, t) /\ Calm(r, h) /\ is_revoked(r.gate.receipt)
<1> DEFINE x == IF \E p \in h.prepared : p.operation_id = a.operation_id
                  THEN discard_prepared(h, t) ELSE h
           q == request_native_stop(x, a, t)
<1>1. r = IF stop THEN q ELSE x
  BY DEF apply_control, then
<1>2. /\ Base(x, t) /\ x.gate = h.gate /\ x.results = h.results /\ x.stops = h.stops
      /\ x.adapter.pending = h.adapter.pending
      /\ h.prepared = {} => x = h
  BY DiscardBase
<1> HIDE DEF x
<1>3. Calm(x, h)
  BY <1>2 DEF Calm, Same
<1>4. CASE stop
  <2>1. q = request_native_stop(x, g.receipt.authority, t)
    OBVIOUS
  <2> HIDE DEF q
  <2>2. Sound(q, t) /\ Calm(q, x) /\ is_revoked(q.gate.receipt)
    BY <1>2, <1>4, <2>1, StopSound
  <2> QED BY <1>1, <1>3, <1>4, <2>2, CalmOn
<1>5. CASE ~stop
  <2>1. StopsOK(x.stops, x.gate)
    BY <1>2, <1>5 DEF StopsOK, Revoked, has_receipt, Old
  <2> QED BY <1>1, <1>2, <1>3, <1>5, <2>1 DEF Sound, Revoked
<1> QED BY <1>4, <1>5
\* The host with a gate that was just revoked: only the stop requests lag behind.
LEMMA RevokedBase ==
  ASSUME NEW h, NEW t, Base(h, t), NEW g, Revoked(g, h.gate, t),
         g.phase \in {h.gate.phase, "withdrawn"},
         NEW r, r = [h EXCEPT !.gate = g]
  PROVE  /\ Base(r, t) /\ Calm(r, h) /\ r.gate = g /\ r.stops = h.stops
         /\ r.adapter = h.adapter /\ r.prepared = h.prepared
<1>1. h \in HostRecord /\ g \in Gate
  BY DEF Base, Revoked, GateOK
<1>2. /\ r \in HostRecord /\ r.gate = g /\ r.adapter = h.adapter
      /\ r.staged = h.staged /\ r.current = h.current /\ r.prepared = h.prepared
      /\ r.results = h.results /\ r.stops = h.stops
  BY <1>1, GateFields
<1>3. /\ g.receipt.authority = h.gate.receipt.authority
      /\ has_receipt(g) <=> has_receipt(h.gate)
      /\ \A a : Old(a, g) <=> Old(a, h.gate)
  BY DEF Revoked, has_receipt, Old
<1>4. SinkOK(r.results, r.gate) /\ WorkOK(r.adapter, r.gate) /\ StagedOK(r, t)
  BY <1>2, <1>3 DEF Base, SinkOK, WorkOK, StagedOK, Only, Revoked, SameWork, SameOutput
<1>5. Base(r, t)
  BY <1>2, <1>3, <1>4 DEF Base, Revoked
<1> QED BY <1>2, <1>5 DEF Calm, Same, Revoked

\* A look at the clock: a deadline that is reached revokes the operation.
LEMMA TimeSound ==
  ASSUME NEW h, NEW t, Sound(h, t), NEW r, r = observe_host_time(h, t)
  PROVE  /\ Sound(r, t) /\ Calm(r, h)
         /\ \A a : can_deliver_result(r.gate, a) => ~has_reached_deadline(r.gate.receipt, t)
<1> DEFINE expires == {a \in h.current : applies_expiry(h.gate, a, t)}
           stop == should_request_native_stop(h.gate.receipt)
           b == CHOOSE y \in expires : TRUE
           x == [h EXCEPT !.gate = observe_time(@, b, t)]
<1>1. Base(h, t) /\ GateOK(h.gate, t) /\ t \in Time /\ h \in HostRecord
  BY DEF Sound, Base
<1>2. CASE expires = {}
  <2>1. r = h
    BY <1>2 DEF observe_host_time
  <2>2. ASSUME NEW a, can_deliver_result(h.gate, a)
        PROVE  ~has_reached_deadline(h.gate.receipt, t)
    <3>1. /\ current_authority_matches(h.gate, a) /\ ~is_revoked(h.gate.receipt)
          /\ h.gate.receipt.output = "pending"
      BY <2>2 DEF can_deliver_result
    <3>2. a \in h.current
      BY <1>1, <3>1 DEF Base, current_authority_matches
    <3>3. ~applies_expiry(h.gate, a, t)
      BY <1>2, <3>2
    <3> QED BY <1>1, <3>1, <3>3, ExpiryIsFound
  <2> QED BY <2>1, <2>2 DEF Calm, Same
<1>3. CASE expires # {}
  <2>1. b \in h.current /\ applies_expiry(h.gate, b, t)
    BY <1>3
  <2>2. b = h.gate.receipt.authority /\ has_receipt(h.gate)
    BY <2>1 DEF applies_expiry, is_controllable, current_authority_matches
  <2>3. r = apply_control(x, b, stop, t)
    BY <1>3 DEF observe_host_time, then
  <2> DEFINE g == observe_time(h.gate, b, t)
  <2>4. x = [h EXCEPT !.gate = g]
    OBVIOUS
  <2>5. b \in Issued
    BY <1>1, <2>1 DEF HostRecord
  <2> HIDE DEF b, x, g
  <2>6. Revoked(g, h.gate, t) /\ g.phase = h.gate.phase
    BY <1>1, <2>1, ExpiryRevokes DEF g
  <2>7. Base(x, t) /\ Calm(x, h) /\ x.gate = g /\ x.stops = h.stops
    BY <1>1, <2>4, <2>6, RevokedBase
  <2>8. StopsOK(x.stops, h.gate) /\ Revoked(x.gate, h.gate, t)
    BY <2>6, <2>7 DEF Sound
  <2>9. stop <=> should_request_native_stop(h.gate.receipt)
    OBVIOUS
  <2> HIDE DEF stop
  <2>10. Sound(r, t) /\ Calm(r, x) /\ is_revoked(r.gate.receipt)
    BY <2>2, <2>3, <2>7, <2>8, <2>9, ControlSound
  <2>11. Calm(r, h)
    BY <2>7, <2>10, CalmOn
  <2> QED BY <2>10, <2>11 DEF can_deliver_result
<1> QED BY <1>2, <1>3

\* The withdrawal of a binding by its owner, or because readiness was lost.
LEMMA WithdrawSound ==
  ASSUME NEW h, NEW t, Sound(h, t), NEW b, NEW r, r = withdraw_host_binding(h, b, t)
  PROVE  Sound(r, t) /\ Calm(r, h)
<1> DEFINE g == withdraw_binding(h.gate, b, t)
           x == [h EXCEPT !.gate = g]
           y == discard_prepared(x, t)
           a == h.gate.receipt.authority
           stop == withdraws_current(h.gate) /\ should_request_native_stop(h.gate.receipt)
<1>1. Base(h, t) /\ GateOK(h.gate, t) /\ t \in Time /\ h \in HostRecord
      /\ StopsOK(h.stops, h.gate)
  BY DEF Sound, Base
<1>2. CASE ~withdraws_binding(h.gate, b, t)
  BY <1>2 DEF withdraw_host_binding, Calm, Same
<1>3. CASE withdraws_binding(h.gate, b, t)
  <2>1. r = IF stop THEN apply_control(y, a, TRUE, t) ELSE y
    <3> DEFINE z == then(x, LAMBDA q : discard_prepared(q, t))
    <3>1. r = then(z, LAMBDA q : IF stop THEN apply_control(q, a, TRUE, t) ELSE q)
      BY <1>3 DEF withdraw_host_binding
    <3> HIDE DEF x, stop, a
    <3>2. z = y
      BY DEF then
    <3> HIDE DEF y, z
    <3> QED BY <3>1, <3>2 DEF then
  <2>2. /\ GateOK(g, t) /\ g.phase = "withdrawn" /\ g.binding = h.gate.binding
        /\ IF withdraws_current(h.gate) THEN Revoked(g, h.gate, t)
           ELSE /\ g.receipt = h.gate.receipt
                /\ g.next_operation_id = h.gate.next_operation_id
    BY <1>1, <1>3, WithdrawRevokes
  <2> HIDE DEF g
  <2>3. x = [h EXCEPT !.gate = g]
    OBVIOUS
  <2>4. y = discard_prepared(x, t)
    OBVIOUS
  <2> HIDE DEF x, y
  <2>5. CASE withdraws_current(h.gate)
    <3>1. Base(x, t) /\ Calm(x, h) /\ x.gate = g /\ x.stops = h.stops
      BY <1>1, <2>2, <2>3, <2>5, RevokedBase
    <3>2. /\ Base(y, t) /\ y.gate = x.gate /\ y.results = x.results
          /\ y.stops = x.stops /\ y.prepared = {}
          /\ y.adapter.pending = x.adapter.pending
          /\ x.prepared = {} => y = x
      BY <3>1, <2>4, DiscardBase
    <3>3. Calm(y, x)
      BY <3>2 DEF Calm, Same
    <3>4. Calm(y, h)
      BY <3>1, <3>3, CalmOn
    <3>5. StopsOK(y.stops, h.gate) /\ Revoked(y.gate, h.gate, t)
      BY <1>1, <2>2, <2>5, <3>1, <3>2
    <3>6. CASE stop
      <4>1. has_receipt(h.gate)
        BY <3>6 DEF withdraws_current, current_authority_matches
      <4>2. r = apply_control(y, a, TRUE, t) /\ a = h.gate.receipt.authority
        BY <2>1, <3>6
      <4>3. TRUE <=> should_request_native_stop(h.gate.receipt)
        BY <3>6
      <4> HIDE DEF a
      <4>4. Sound(r, t) /\ Calm(r, y)
        BY <3>2, <3>5, <4>1, <4>2, <4>3, ControlSound
      <4> QED BY <3>4, <4>4, CalmOn
    <3>7. CASE ~stop
      <4>1. StopsOK(y.stops, y.gate)
        BY <2>5, <3>5, <3>7 DEF StopsOK, Revoked, has_receipt, Old
      <4> QED BY <2>1, <3>2, <3>4, <3>7, <4>1 DEF Sound
    <3> QED BY <3>6, <3>7
  <2>6. CASE ~withdraws_current(h.gate)
    <3>1. g \in Gate /\ SameReceipt(g, h.gate)
      BY <2>2, <2>6 DEF GateOK, SameReceipt
    <3>2. Sound(x, t) /\ x.results = h.results /\ x.gate = g
      BY <1>1, <2>3, <3>1, SameReceiptSound
    <3>3. x.adapter = h.adapter /\ x.staged = h.staged /\ x.prepared = h.prepared
      BY <1>1, <2>3, <3>1, GateFields
    <3>4. Base(x, t) /\ StopsOK(x.stops, x.gate)
      BY <3>2 DEF Sound
    <3>5. /\ Base(y, t) /\ y.gate = x.gate /\ y.results = x.results
          /\ y.stops = x.stops /\ y.prepared = {}
          /\ y.adapter.pending = x.adapter.pending
          /\ x.prepared = {} => y = x
      BY <3>4, <2>4, DiscardBase
    <3>6. Calm(y, h)
      BY <2>2, <3>1, <3>2, <3>3, <3>5 DEF Calm, Same, SameReceipt
    <3> QED BY <2>1, <2>6, <3>4, <3>5, <3>6 DEF Sound
  <2> QED BY <2>5, <2>6
<1> QED BY <1>2, <1>3

\* Before it acts a call looks at the readiness and at the clock.
LEMMA PollSound ==
  ASSUME NEW h, NEW t, Sound(h, t), NEW r, r = poll(h, t)
  PROVE  Sound(r, t) /\ Calm(r, h)
<1> DEFINE unready == /\ h.gate.init = "ready"
                      /\ ~(worker_ready(h.adapter) /\ sink_ready(h.adapter))
           w == withdraw_host_binding(h, h.gate.binding, t)
           x == IF unready THEN w ELSE h
<1>1. r = observe_host_time(x, t)
  BY DEF poll, then
<1> HIDE DEF unready
<1>2. Sound(w, t) /\ Calm(w, h)
  BY WithdrawSound
<1> HIDE DEF w
<1>3. Sound(x, t) /\ Calm(x, h)
  BY <1>2 DEF Calm, Same
<1> HIDE DEF x
<1>4. Sound(r, t) /\ Calm(r, x)
  BY <1>1, <1>3, TimeSound
<1> QED BY <1>3, <1>4, CalmOn
-----------------------------------------------------------------------------
(* Staged events *)

\* What one call adds to the sink: nothing, or the result of the operation that is
\* current and whose deadline is not reached, neither of them revoked.
Delivers(r, h, t) ==
  \/ r.results = h.results
  \/ /\ r.results = Append(h.results, h.gate.receipt.authority)
     /\ h.gate.receipt.authority.binding = h.gate.binding
     /\ ~is_revoked(r.gate.receipt)
     /\ ~has_reached_deadline(h.gate.receipt, t)
     /\ h.gate.phase \notin {"withdrawn", "preparing"}

LEMMA SameDelivers ==
  ASSUME NEW h, NEW r, NEW q, NEW t, Same(r, h), Delivers(q, r, t)
  PROVE  Delivers(q, h, t)
BY DEF Same, Delivers, has_reached_deadline

\* The record of a report is one the gate can read.
LEMMA RecordIs ==
  ASSUME NEW t \in Time, NEW n \in 1..5,
         NEW s \in {NativeSource, SettlementSource, ResultSinkObserver, StopSource}
  PROVE  /\ record(s, t, n) \in EvidenceRecord /\ record(s, t, n).observed_at = t
         /\ record(s, t, n).source = s /\ record(s, t, n).sequence # 0
BY HostAssumption DEF record, EvidenceRecord, Source

\* What the gate makes of a report of what the worker did, or that it did nothing.
LEMMA EvidenceReported ==
  ASSUME NEW g, NEW t, GateOK(g, t), NEW e \in Event, e.observed_at <= t,
         e.kind \notin {"result", "settled"}, NEW q, q = report_evidence(g, e)
  PROVE  /\ OnlyReported(q, g, t)
         /\ q.receipt.output = "accepted" <=> g.receipt.output = "accepted"
         /\ /\ g.receipt.outcome = "pending"
            /\ e.authority = g.receipt.authority => e.kind = "accepted"
            => SameWork(q, g)
<1> DEFINE a == e.authority
           settled == record(SettlementSource, e.observed_at, e.sequence)
           native == record(NativeSource, e.observed_at, e.sequence)
<1>1. /\ a \in Issued /\ e.observed_at \in Time /\ e.sequence \in 1..5
      /\ e.kind \in NativeKind \/ e.kind \in {"not_submitted", "no_output"}
      /\ NativeKind \cap {"not_submitted", "no_output"} = {}
  BY DEF Event, EventKind, NativeKind
<1>2. /\ settled \in EvidenceRecord /\ settled.observed_at <= t
      /\ native \in EvidenceRecord /\ native.observed_at <= t
  BY <1>1, RecordIs
<1>3. a.operation_id \in NativeIdentity
  BY <1>1, HostAssumption DEF Issued, Authority
<1> HIDE DEF settled, native
<1>4. CASE a # g.receipt.authority
  <2>1. q = g
    BY <1>1, <1>4 DEF report_evidence, observe_non_submission, accepts_non_submission,
       observe_output_not_delivered, accepts_non_delivery, observe_native,
       accepts_native, current_authority_matches
  <2> QED BY <2>1, NoReport DEF SameWork
<1>5. CASE a = g.receipt.authority /\ e.kind = "not_submitted"
  <2>1. q = observe_non_submission(g, [authority |-> a, record |-> settled])
    BY <1>1, <1>5 DEF report_evidence, settled
  <2>2. OnlyReported(q, g, t) /\ SameOutput(q, g)
    BY <1>2, <2>1, NonSubmissionReport
  <2> QED BY <1>5, <2>2 DEF SameOutput
<1>6. CASE a = g.receipt.authority /\ e.kind = "no_output"
  <2> DEFINE why == "no_output"
  <2>1. q = observe_output_not_delivered(g,
              [authority |-> a, reason |-> why, record |-> settled])
    BY <1>1, <1>6 DEF report_evidence, settled
  <2>2. why \in NonDeliveryReason
    BY DEF NonDeliveryReason
  <2> HIDE DEF why
  <2>3. /\ OnlyReported(q, g, t) /\ SameWork(q, g)
        /\ q.receipt.output = "accepted" <=> g.receipt.output = "accepted"
    BY <1>2, <2>1, <2>2, NonDeliveryReport
  <2> QED BY <2>3
<1>7. CASE a = g.receipt.authority /\ e.kind \in NativeKind
  <2> DEFINE id == a.operation_id
             k == e.kind
  <2>1. q = observe_native(g, [authority |-> a, kind |-> k, native_identity |-> id,
                               record |-> native])
    BY <1>1, <1>7 DEF report_evidence, native
  <2>2. k \in NativeKind /\ id \in NativeIdentity
    BY <1>3, <1>7
  <2> HIDE DEF k, id
  <2>3. /\ OnlyReported(q, g, t) /\ SameOutput(q, g)
        /\ q.receipt.dispatch = g.receipt.dispatch
        /\ k = "accepted" /\ g.receipt.outcome = "pending"
             => q.receipt.outcome = "pending"
    BY <1>2, <2>1, <2>2, NativeReport
  <2> QED BY <1>7, <2>3 DEF SameOutput, SameWork, k
<1> QED BY <1>1, <1>4, <1>5, <1>6, <1>7

\* A report of what the worker did, or that it did nothing.
LEMMA EvidenceSound ==
  ASSUME NEW h, NEW t, Sound(h, t), NEW e \in Event, e.observed_at <= t,
         e.kind \notin {"result", "settled"},
         h.adapter.pending # {} =>
           (e.authority = h.gate.receipt.authority => e.kind = "accepted"),
         NEW r, r = [h EXCEPT !.gate = report_evidence(@, e)]
  PROVE  Sound(r, t) /\ Same(r, h)
<1> DEFINE g == h.gate
           q == report_evidence(g, e)
<1>1. GateOK(g, t) /\ Base(h, t) /\ h \in HostRecord
  BY DEF Sound, Base
<1>2. r = [h EXCEPT !.gate = q]
  OBVIOUS
<1> HIDE DEF q
<1>3. /\ OnlyReported(q, g, t)
      /\ q.receipt.output = "accepted" <=> g.receipt.output = "accepted"
      /\ h.adapter.pending # {} => SameWork(q, g)
  <2>1. h.adapter.pending # {} => g.receipt.outcome = "pending"
    BY <1>1 DEF Base, WorkOK
  <2> QED BY <1>1, <2>1, EvidenceReported DEF q
<1> QED BY <1>2, <1>3, ReportSound

\* A settlement: the clock is read before.
LEMMA SettlementSound ==
  ASSUME NEW h, NEW t, Sound(h, t), NEW e \in Event, NEW r, r = report_settlement(h, e, t)
  PROVE  Sound(r, t) /\ Same(r, h)
<1> DEFINE due == observe_host_time(h, t)
           record1 == record(SettlementSource, t, e.sequence)
           g == observe_settlement(due.gate,
                  [authority |-> e.authority, permits_same_domain_admission |-> TRUE,
                   record |-> record1])
<1>1. r = [due EXCEPT !.gate = g]
  BY DEF report_settlement, then
<1>2. e.sequence \in 1..5 /\ t \in Time /\ t <= t
  BY TimeIs DEF Event, Sound, Base
<1>3. record1 \in EvidenceRecord /\ record1.observed_at <= t
  BY <1>2, RecordIs
<1>4. Sound(due, t) /\ Same(due, h)
  BY TimeSound DEF Calm
<1>5. GateOK(due.gate, t)
  BY <1>4 DEF Sound, Base
<1> HIDE DEF due, record1
<1>6. OnlyReported(g, due.gate, t) /\ SameWork(g, due.gate) /\ SameOutput(g, due.gate)
  BY <1>3, <1>5, SettlementReport
<1>7. g.receipt.output = "accepted" <=> due.gate.receipt.output = "accepted"
  BY <1>6 DEF SameOutput
<1> HIDE DEF g
<1>8. Sound(r, t) /\ Same(r, due)
  BY <1>1, <1>4, <1>6, <1>7, ReportSound
<1> QED BY <1>4, <1>8, SameOn
\* The sink takes a result that may be delivered, and the gate is told.
LEMMA DeliverySound ==
  ASSUME NEW h, NEW t, Sound(h, t), NEW a, can_deliver_result(h.gate, a),
         ~has_reached_deadline(h.gate.receipt, t),
         NEW r, r = [h EXCEPT !.results = Append(h.results, a),
                       !.gate = observe_output_accepted(h.gate,
                          [authority |-> a, record |-> record(ResultSinkObserver, t, 1)])]
  PROVE  Sound(r, t) /\ Delivers(r, h, t)
<1> DEFINE g == h.gate
           record1 == record(ResultSinkObserver, t, 1)
           q == observe_output_accepted(g, [authority |-> a, record |-> record1])
           more == Append(h.results, a)
<1>1. /\ h \in HostRecord /\ t \in Time /\ t \in Nat /\ GateOK(g, t) /\ g \in Gate
      /\ SinkOK(h.results, g) /\ StopsOK(h.stops, g)
  BY TimeIs DEF Sound, Base, GateOK
<1>2. /\ has_receipt(g) /\ a = g.receipt.authority /\ a.binding = g.binding
      /\ g.phase \notin {"withdrawn", "preparing"} /\ ~is_revoked(g.receipt)
      /\ g.receipt.output = "pending"
  BY DEF can_deliver_result, current_authority_matches
<1>3. /\ record1 \in EvidenceRecord /\ record1.observed_at = t
      /\ record1.source = ResultSinkObserver /\ record1.sequence # 0
  BY <1>1, RecordIs
<1> HIDE DEF record1
<1>4. OnlyReported(q, g, t) /\ SameWork(q, g) /\ q.receipt.output = "accepted"
  BY <1>1, <1>3, OutputReport
<1>5. r = [h EXCEPT !.results = more, !.gate = q]
  BY DEF record1
<1>6. a \in Issued /\ a.operation_id \in Nat
  <2>1. g.receipt \in Receipt
    BY <1>1 DEF Gate
  <2>2. g.receipt.authority \in Authority
    BY <2>1 DEF Receipt
  <2> QED BY <1>2, <2>2, IssuedIs DEF has_receipt, Issued
<1>7. /\ more \in Seq(Issued) /\ Distinct(more) /\ Holds(more, a)
      /\ \A i \in DOMAIN more : Old(more[i], g)
  <2> DEFINE L == h.results
  <2>1. L \in Seq(Issued) /\ Distinct(L) /\ ~Holds(L, a)
        /\ \A i \in DOMAIN L : Old(L[i], g)
    BY <1>1, <1>2 DEF HostRecord, SinkOK
  <2>2. Old(a, g)
    BY <1>2, <1>6 DEF Old
  <2> HIDE DEF L
  <2>3. /\ Append(L, a) \in Seq(Issued) /\ Distinct(Append(L, a))
        /\ \A c : Holds(Append(L, a), c) <=> Holds(L, c) \/ c = a
        /\ \A p : (\A i \in DOMAIN L : Old(L[i], p)) /\ Old(a, p)
             => \A i \in DOMAIN Append(L, a) : Old(Append(L, a)[i], p)
    BY <1>6, <2>1, Appended
  <2>4. \A i \in DOMAIN Append(L, a) : Old(Append(L, a)[i], g)
    BY <2>1, <2>2, <2>3
  <2> QED BY <2>3, <2>4 DEF L
<1>8. q \in Gate
  BY <1>4 DEF OnlyReported, GateOK
<1> HIDE DEF g, q, more
<1>9. /\ r \in HostRecord /\ r.adapter = h.adapter /\ r.stops = h.stops /\ r.gate = q
      /\ r.staged = h.staged /\ r.current = h.current /\ r.prepared = h.prepared
      /\ r.results = more
  BY <1>1, <1>5, <1>7, <1>8 DEF HostRecord
<1>10. /\ q.receipt.authority = a /\ g.receipt.authority = a /\ h.gate = g
       /\ has_receipt(q) /\ has_receipt(g)
       /\ \A c : Old(c, q) <=> Old(c, g)
       /\ q.receipt.stop_requested_at = g.receipt.stop_requested_at
       /\ ~is_revoked(q.receipt)
  BY <1>2, <1>4 DEF OnlyReported, SameSubject, has_receipt, Old, g, is_revoked
<1>11. SinkOK(r.results, r.gate) /\ StopsOK(r.stops, r.gate)
  BY <1>1, <1>4, <1>7, <1>9, <1>10 DEF SinkOK, StopsOK
<1>12. WorkOK(r.adapter, r.gate) /\ StagedOK(r, t)
  BY <1>4, <1>9, <1>10 DEF Sound, Base, WorkOK, StagedOK, SameWork, Only
<1>13. Base(r, t)
  BY <1>1, <1>4, <1>9, <1>10, <1>11, <1>12 DEF Sound, Base, OnlyReported
<1>14. Delivers(r, h, t)
  BY <1>2, <1>9, <1>10 DEF Delivers, more, g
<1> QED BY <1>11, <1>13, <1>14 DEF Sound

\* A result: the clock is read, the gate is asked, and then the sink.
LEMMA ResultSound ==
  ASSUME NEW h, NEW t, Sound(h, t), NEW a, NEW r, r = report_result(h, a, t)
  PROVE  Sound(r, t) /\ Delivers(r, h, t)
<1> DEFINE due == observe_host_time(h, t)
           record1 == record(ResultSinkObserver, t, 1)
           q(why) == observe_output_not_delivered(due.gate,
                       [authority |-> a, reason |-> why, record |-> record1])
           lost(why) == [due EXCEPT !.gate = q(why)]
           delivered == [due EXCEPT !.results = Append(due.results, a),
                          !.gate = observe_output_accepted(due.gate,
                             [authority |-> a, record |-> record1])]
<1>1. r = IF ~can_deliver_result(due.gate, a) THEN lost("authority_revoked")
          ELSE IF ~sink_ready(due.adapter) THEN lost("sink_rejected")
          ELSE delivered
  BY DEF report_result, then, permits_result
<1>2. t \in Time /\ t <= t /\ 1 \in 1..5
  BY TimeIs DEF Sound, Base
<1>3. record1 \in EvidenceRecord /\ record1.observed_at <= t
  BY <1>2, RecordIs
<1>4. /\ Sound(due, t) /\ Same(due, h)
      /\ \A b : can_deliver_result(due.gate, b)
                  => ~has_reached_deadline(due.gate.receipt, t)
  BY TimeSound DEF Calm
<1>5. GateOK(due.gate, t)
  BY <1>4 DEF Sound, Base
<1> HIDE DEF due
<1>6. ASSUME NEW why \in NonDeliveryReason
      PROVE  Sound(lost(why), t) /\ Delivers(lost(why), h, t)
  <2> HIDE DEF record1
  <2>1. /\ OnlyReported(q(why), due.gate, t) /\ SameWork(q(why), due.gate)
        /\ q(why).receipt.output = "accepted" <=> due.gate.receipt.output = "accepted"
    BY <1>3, <1>5, NonDeliveryReport
  <2> HIDE DEF q
  <2>2. Sound(lost(why), t) /\ Same(lost(why), due)
    BY <1>4, <2>1, ReportSound
  <2> QED BY <1>4, <2>2 DEF Delivers, Same
<1>7. CASE ~can_deliver_result(due.gate, a)
  <2> HIDE DEF lost
  <2>1. "authority_revoked" \in NonDeliveryReason
    BY DEF NonDeliveryReason
  <2> QED BY <1>1, <1>6, <1>7, <2>1
<1>8. CASE can_deliver_result(due.gate, a) /\ ~sink_ready(due.adapter)
  <2> HIDE DEF lost
  <2>1. "sink_rejected" \in NonDeliveryReason
    BY DEF NonDeliveryReason
  <2> QED BY <1>1, <1>6, <1>8, <2>1
<1>9. CASE can_deliver_result(due.gate, a) /\ sink_ready(due.adapter)
  <2>1. r = delivered /\ ~has_reached_deadline(due.gate.receipt, t)
    BY <1>1, <1>4, <1>9
  <2>2. Sound(r, t) /\ Delivers(r, due, t)
    BY <1>4, <1>9, <2>1, DeliverySound
  <2> QED BY <1>4, <2>2, SameDelivers
<1> QED BY <1>7, <1>8, <1>9

\* What is staged is one of the calls of an authority, read at a time that is past.
LEMMA StagedIs ==
  ASSUME NEW h, NEW t, Sound(h, t), NEW i \in DOMAIN h.staged
  PROVE  /\ h.staged[i] \in Event /\ h.staged[i].observed_at <= t
         /\ Old(h.staged[i].authority, h.gate)
<1> DEFINE L == h.staged
<1>1. L \in Seq(Event) /\ i \in DOMAIN L
  BY DEF Sound, Base, HostRecord
<1> HIDE DEF L, Event
<1>2. L[i] \in Event
  BY <1>1
<1> QED BY <1>2 DEF L, Sound, Base, StagedOK

\* The first staged event is taken out.
LEMMA PopSound ==
  ASSUME NEW h, NEW t, Sound(h, t), h.staged # <<>>,
         NEW r, r = [h EXCEPT !.staged = Tail(@)]
  PROVE  /\ Sound(r, t) /\ Same(r, h) /\ r.gate = h.gate
         /\ Head(h.staged) \in Event /\ Head(h.staged).observed_at <= t
         /\ r.adapter.pending # {} =>
              (Head(h.staged).authority = r.gate.receipt.authority
                 => Head(h.staged).kind \in {"accepted", "result"})
<1> DEFINE L == h.staged
           rest == Tail(L)
<1>1. h \in HostRecord /\ L \in Seq(Event) /\ L # <<>>
  BY DEF Sound, Base, HostRecord
<1>2. /\ 1 \in DOMAIN L /\ Head(L) = L[1]
      /\ rest \in Seq(Event)
      /\ \A i \in DOMAIN rest : \E j \in DOMAIN L : rest[i] = L[j]
  <2> HIDE DEF L, Event
  <2>1. /\ Len(L) \in Nat /\ Len(L) # 0 /\ DOMAIN L = 1..Len(L) /\ Head(L) = L[1]
        /\ rest \in Seq(Event) /\ DOMAIN rest = 1..Len(L) - 1
        /\ \A i \in 1..Len(L) - 1 : rest[i] = L[i + 1]
    BY <1>1
  <2>2. \A i \in 1..Len(L) - 1 : i + 1 \in 1..Len(L)
    BY <2>1
  <2> HIDE DEF rest
  <2> QED BY <2>1, <2>2
<1>3. L[1] \in Event /\ L[1].observed_at <= t
  BY <1>2, StagedIs
<1> HIDE DEF rest
<1>4. /\ r \in HostRecord /\ r.staged = rest /\ r.gate = h.gate /\ r.adapter = h.adapter
      /\ r.current = h.current /\ r.prepared = h.prepared
      /\ r.results = h.results /\ r.stops = h.stops
  BY <1>1, <1>2 DEF HostRecord, rest
<1>5. StagedOK(r, t)
  BY <1>2, <1>4 DEF Sound, Base, StagedOK, Only
<1>6. Sound(r, t)
  BY <1>4, <1>5 DEF Sound, Base
<1>7. r.adapter.pending # {} =>
        (L[1].authority = r.gate.receipt.authority => L[1].kind \in {"accepted", "result"})
  BY <1>2, <1>4 DEF Sound, Base, StagedOK, Only
<1> QED BY <1>2, <1>3, <1>4, <1>6, <1>7 DEF Same

\* One staged event is reported.
LEMMA ProcessSound ==
  ASSUME NEW h, NEW t, Sound(h, t), NEW u \in Time, t <= u,
         NEW r, r = process_next(h, t, u)
  PROVE  Sound(r, u) /\ Delivers(r, h, u)
<1> DEFINE p == poll(h, t)
           x == [p EXCEPT !.staged = Tail(@)]
           e == Head(p.staged)
<1>1. r = IF p.staged = <<>> THEN p ELSE report(x, e, u)
  BY DEF process_next, then
<1>2. Sound(p, t) /\ Same(p, h)
  BY PollSound DEF Calm
<1> HIDE DEF p
<1>3. Sound(p, u)
  BY <1>2, SoundLater
<1>4. CASE p.staged = <<>>
  BY <1>1, <1>2, <1>3, <1>4 DEF Delivers, Same
<1>5. CASE p.staged # <<>>
  <2>1. /\ Sound(x, u) /\ Same(x, p) /\ e \in Event /\ e.observed_at <= u
        /\ x.adapter.pending # {} =>
             (e.authority = x.gate.receipt.authority
                => e.kind \in {"accepted", "result"})
    BY <1>3, <1>5, PopSound
  <2>2. r = report(x, e, u)
    BY <1>1, <1>5
  <2> HIDE DEF x, e
  <2>3. Sound(r, u) /\ Delivers(r, x, u)
    <3>1. CASE e.kind = "result"
      <4>1. r = report_result(x, e.authority, u)
        BY <2>2, <3>1 DEF report
      <4> QED BY <2>1, <4>1, ResultSound
    <3>2. CASE e.kind = "settled"
      <4>1. r = report_settlement(x, e, u)
        BY <2>2, <3>2 DEF report
      <4> QED BY <2>1, <4>1, SettlementSound DEF Same, Delivers
    <3>3. CASE e.kind \notin {"result", "settled"}
      <4>1. r = [x EXCEPT !.gate = report_evidence(@, e)]
        BY <2>2, <3>3 DEF report
      <4>2. x.adapter.pending # {} =>
              (e.authority = x.gate.receipt.authority => e.kind = "accepted")
        BY <2>1, <3>3
      <4> QED BY <2>1, <3>3, <4>1, <4>2, EvidenceSound DEF Same, Delivers
    <3> QED BY <3>1, <3>2, <3>3
  <2>4. Delivers(r, p, u)
    BY <2>1, <2>3, SameDelivers
  <2> QED BY <1>2, <2>3, <2>4, SameDelivers
<1> QED BY <1>4, <1>5
-----------------------------------------------------------------------------
(* The adapter at work *)

\* The adapter changes, and at most loses its work.
LEMMA AdapterSound ==
  ASSUME NEW h, NEW t, Sound(h, t), NEW b \in Adapter,
         b.retained \subseteq h.adapter.retained,
         b.pending \in {{}, h.adapter.pending},
         NEW r, r = [h EXCEPT !.adapter = b]
  PROVE  /\ Sound(r, t) /\ Same(r, h) /\ r.gate = h.gate /\ r.adapter = b
         /\ r.staged = h.staged /\ r.prepared = h.prepared
<1>1. h \in HostRecord
  BY DEF Sound, Base
<1>2. /\ r \in HostRecord /\ r.adapter = b /\ r.gate = h.gate
      /\ r.staged = h.staged /\ r.current = h.current /\ r.prepared = h.prepared
      /\ r.results = h.results /\ r.stops = h.stops
  BY <1>1, AdapterFields
<1>3. WorkOK(r.adapter, r.gate)
  BY <1>2 DEF Sound, Base, WorkOK
<1>4. StagedOK(r, t)
  BY <1>2 DEF Sound, Base, StagedOK, Only
<1> QED BY <1>2, <1>3, <1>4 DEF Sound, Base, Same

\* Callbacks are staged.
LEMMA EmitSound ==
  ASSUME NEW h, NEW t, Sound(h, t), h.prepared = {}, h.adapter.pending = {},
         NEW a \in Issued, Old(a, h.gate), NEW calls \in Seq(Call), calls # <<>>,
         NEW r, r = emit(h, a, calls, t)
  PROVE  /\ Sound(r, t) /\ Same(r, h) /\ r.gate = h.gate
         /\ r.prepared = {} /\ r.adapter.pending = {}
         /\ \A kinds : Only(kinds, h) /\ KindsIn(kinds, calls) => Only(kinds, r)
<1>1. Base(h, t) /\ StopsOK(h.stops, h.gate) /\ h \in HostRecord
  BY DEF Sound, Base
<1>2. /\ Base(r, t) /\ AdapterOnly(r, h)
      /\ r.adapter = [h.adapter EXCEPT !.retained = r.adapter.retained]
      /\ \A kinds : Only(kinds, h) /\ KindsIn(kinds, calls) => Only(kinds, r)
  BY <1>1, EmitBase
<1>3. r.adapter.pending = {}
  BY <1>1, <1>2 DEF HostRecord, Adapter
<1> QED BY <1>1, <1>2, <1>3 DEF Sound, AdapterOnly, Same

\* The work ends: cancelled, failed or succeeded.
LEMMA FinishSound ==
  ASSUME NEW h, NEW t, Sound(h, t), h.prepared = {}, h.adapter.pending = {},
         NEW work, work.authority \in Issued, Old(work.authority, h.gate),
         NEW r, r = finish(h, work, t)
  PROVE  Sound(r, t) /\ Same(r, h) /\ r.adapter.pending = {}
<1> DEFINE a == work.authority
           b == [h.adapter EXCEPT !.fail_next = FALSE]
           x == [h EXCEPT !.adapter = b]
<1>1. CASE work.is_cancelled
  <2>1. r = emit(h, a, cancelled_calls, t)
    BY <1>1 DEF finish
  <2> DEFINE calls == cancelled_calls
  <2>2. calls \in Seq(Call) /\ calls # <<>> /\ r = emit(h, a, calls, t)
    BY <2>1, CallLists
  <2> HIDE DEF calls
  <2> QED BY <2>2, EmitSound
<1>2. CASE ~work.is_cancelled /\ h.adapter.fail_next
  <2>1. h \in HostRecord /\ h.adapter \in Adapter
    BY DEF Sound, Base, HostRecord
  <2>2. b \in Adapter /\ b.retained = h.adapter.retained /\ b.pending = h.adapter.pending
    BY <2>1 DEF Adapter
  <2>3. r = emit(x, a, failed_calls, t)
    <3> DEFINE y == [h EXCEPT !.adapter.fail_next = FALSE]
    <3>1. y = x
      BY <2>1 DEF HostRecord
    <3> HIDE DEF x
    <3>2. r = then(y, LAMBDA q : emit(q, a, failed_calls, t))
      BY <1>2 DEF finish
    <3> HIDE DEF y
    <3> QED BY <3>1, <3>2 DEF then
  <2> HIDE DEF b
  <2>4. /\ Sound(x, t) /\ Same(x, h) /\ x.gate = h.gate /\ x.adapter = b
        /\ x.prepared = h.prepared
    BY <2>2, AdapterSound
  <2> DEFINE calls == failed_calls
  <2>5. calls \in Seq(Call) /\ calls # <<>> /\ r = emit(x, a, calls, t)
    BY <2>3, CallLists
  <2> HIDE DEF calls, x
  <2>6. x.prepared = {} /\ x.adapter.pending = {} /\ Old(a, x.gate)
    BY <2>2, <2>4
  <2>7. Sound(r, t) /\ Same(r, x) /\ r.adapter.pending = {}
    BY <2>4, <2>5, <2>6, EmitSound
  <2> QED BY <2>4, <2>7, SameOn
<1>3. CASE ~work.is_cancelled /\ ~h.adapter.fail_next
  <2>1. r = emit(h, a, succeeded_calls, t)
    BY <1>3 DEF finish
  <2> DEFINE calls == succeeded_calls
  <2>2. calls \in Seq(Call) /\ calls # <<>> /\ r = emit(h, a, calls, t)
    BY <2>1, CallLists
  <2> HIDE DEF calls
  <2> QED BY <2>2, EmitSound
<1> QED BY <1>1, <1>2, <1>3

\* A deferred provider completes the work it has.
LEMMA FinishPendingSound ==
  ASSUME NEW h, NEW t, Sound(h, t), NEW r, r = finish_pending(h, t)
  PROVE  Sound(r, t) /\ Same(r, h)
<1> DEFINE b == [h.adapter EXCEPT !.pending = {}]
           x == [h EXCEPT !.adapter = b]
           w == CHOOSE v \in h.adapter.pending : TRUE
<1>1. CASE h.adapter.pending = {}
  BY <1>1 DEF finish_pending, Same
<1>2. CASE h.adapter.pending # {}
  <2>1. h \in HostRecord /\ h.adapter \in Adapter
    BY DEF Sound, Base, HostRecord
  <2>2. b \in Adapter /\ b.retained = h.adapter.retained /\ b.pending = {}
    BY <2>1 DEF Adapter
  <2>3. w \in h.adapter.pending /\ w \in Work
    BY <1>2, <2>1 DEF Adapter
  <2>4. w.authority \in Issued /\ w.authority = h.gate.receipt.authority
    BY <2>3 DEF Work, Sound, Base, WorkOK
  <2>5. r = finish(x, w, t)
    <3> DEFINE y == [h EXCEPT !.adapter.pending = {}]
    <3>1. y = x
      BY <2>1 DEF HostRecord
    <3> HIDE DEF x
    <3>2. r = then(y, LAMBDA q : finish(q, w, t))
      BY <1>2 DEF finish_pending
    <3> HIDE DEF y, w
    <3> QED BY <3>1, <3>2 DEF then
  <2> HIDE DEF b, w
  <2>6. /\ Sound(x, t) /\ Same(x, h) /\ x.gate = h.gate /\ x.adapter = b
        /\ x.prepared = h.prepared
    BY <2>2, AdapterSound
  <2>7. h.prepared = {}
    BY <1>2 DEF Sound, Base, StagedOK
  <2>8. w.authority.operation_id \in Nat
    BY <2>4, IssuedIs
  <2>9. Old(w.authority, x.gate)
    BY <2>4, <2>6, <2>8 DEF Old
  <2> HIDE DEF x
  <2>10. Sound(r, t) /\ Same(r, x)
    BY <2>2, <2>4, <2>5, <2>6, <2>7, <2>9, FinishSound
  <2> QED BY <2>6, <2>10, SameOn
<1> QED BY <1>1, <1>2

\* The adapter takes the work the gate has let it have.
LEMMA SubmitSound ==
  ASSUME NEW h, NEW t, Sound(h, t), h.prepared = {}, h.adapter.pending = {},
         Only({"result"}, h), has_receipt(h.gate),
         NEW a, a = h.gate.receipt.authority, a \in Issued,
         h.gate.receipt.dispatch = "submitted", h.gate.receipt.outcome = "pending",
         NEW r, r = submit_native(h, a, t)
  PROVE  Sound(r, t) /\ Same(r, h)
<1> DEFINE work == [authority |-> a, is_cancelled |-> FALSE]
           b == [h.adapter EXCEPT !.reject_next = FALSE]
           x == [h EXCEPT !.adapter = b]
           z == emit(h, a, accepted_calls, t)
<1>1. h \in HostRecord /\ h.adapter \in Adapter /\ Old(a, h.gate)
  BY IssuedIs DEF Sound, Base, HostRecord, Old
<1>2. CASE h.adapter.reject_next
  <2>1. b \in Adapter /\ b.retained = h.adapter.retained /\ b.pending = h.adapter.pending
    BY <1>1 DEF Adapter
  <2>2. r = emit(x, a, rejected_calls, t)
    <3> DEFINE y == [h EXCEPT !.adapter.reject_next = FALSE]
    <3>1. y = x
      BY <1>1 DEF HostRecord
    <3> HIDE DEF x
    <3>2. r = then(y, LAMBDA q : emit(q, a, rejected_calls, t))
      BY <1>2 DEF submit_native
    <3> HIDE DEF y
    <3> QED BY <3>1, <3>2 DEF then
  <2> HIDE DEF b
  <2>3. /\ Sound(x, t) /\ Same(x, h) /\ x.gate = h.gate /\ x.adapter = b
        /\ x.prepared = h.prepared
    BY <2>1, AdapterSound
  <2> DEFINE calls == rejected_calls
  <2>4. calls \in Seq(Call) /\ calls # <<>> /\ r = emit(x, a, calls, t)
    BY <2>2, CallLists
  <2> HIDE DEF calls, x
  <2>5. x.prepared = {} /\ x.adapter.pending = {} /\ Old(a, x.gate)
    BY <1>1, <2>1, <2>3
  <2>6. Sound(r, t) /\ Same(r, x)
    BY <2>3, <2>4, <2>5, EmitSound
  <2> QED BY <2>3, <2>6, SameOn
<1>3. CASE ~h.adapter.reject_next
  <2> DEFINE calls == accepted_calls
             c == [z.adapter EXCEPT !.pending = {work}]
             y == [z EXCEPT !.adapter = c]
  <2>1. calls \in Seq(Call) /\ calls # <<>> /\ z = emit(h, a, calls, t)
        /\ KindsIn({"accepted"}, calls)
    BY CallLists
  <2> HIDE DEF calls, z, work
  <2>2. /\ Sound(z, t) /\ Same(z, h) /\ z.gate = h.gate
        /\ z.prepared = {} /\ z.adapter.pending = {}
        /\ \A kinds : Only(kinds, h) /\ KindsIn(kinds, calls) => Only(kinds, z)
    BY <1>1, <2>1, EmitSound
  <2>3. work.authority = a
    BY DEF work
  <2>4. r = IF z.adapter.mode = "synchronous" THEN finish(z, work, t)
            ELSE [z EXCEPT !.adapter.pending = {work}]
    <3>1. r = then(z, LAMBDA q : IF q.adapter.mode = "synchronous"
                                    THEN finish(q, work, t)
                                    ELSE [q EXCEPT !.adapter.pending = {work}])
      BY <1>3 DEF submit_native, work, z, calls
    <3> QED BY <3>1 DEF then
  <2>5. CASE z.adapter.mode = "synchronous"
    <3>1. Sound(r, t) /\ Same(r, z)
      BY <1>1, <2>2, <2>3, <2>4, <2>5, FinishSound
    <3> QED BY <2>2, <3>1, SameOn
  <2>6. CASE z.adapter.mode # "synchronous"
    <3>1. z \in HostRecord /\ z.adapter \in Adapter
      BY <2>2 DEF Sound, Base, HostRecord
    <3>2. r = y
      BY <2>4, <2>6, <3>1 DEF HostRecord
    <3>3. work \in Work
      BY DEF work, Work
    <3>4. c \in Adapter /\ c.retained = z.adapter.retained /\ c.pending = {work}
      BY <3>1, <3>3 DEF Adapter
    <3> HIDE DEF c
    <3>5. /\ y \in HostRecord /\ y.adapter = c /\ y.gate = z.gate
          /\ y.staged = z.staged /\ y.current = z.current /\ y.prepared = z.prepared
          /\ y.results = z.results /\ y.stops = z.stops
      BY <3>1, <3>4, AdapterFields
    <3> HIDE DEF y
    <3>6. Only({"accepted", "result"}, z)
      <4>1. Only({"accepted", "result"}, h) /\ KindsIn({"accepted", "result"}, calls)
        BY <2>1 DEF Only, KindsIn
      <4> QED BY <2>2, <4>1
    <3>7. WorkOK(y.adapter, y.gate)
      BY <2>2, <2>3, <3>4, <3>5 DEF WorkOK
    <3>8. StagedOK(y, t)
      BY <2>2, <3>4, <3>5, <3>6 DEF Sound, Base, StagedOK, Only
    <3>9. Sound(y, t)
      BY <2>2, <3>4, <3>5, <3>7, <3>8 DEF Sound, Base
    <3> QED BY <2>2, <3>2, <3>5, <3>9 DEF Same
  <2> QED BY <2>5, <2>6
<1> QED BY <1>2, <1>3

\* The prepared request is dispatched; nothing of it but a replayed result is staged.
LEMMA DispatchSound ==
  ASSUME NEW h, NEW t, Sound(h, t), h.prepared = {}, h.adapter.pending = {},
         Only({"result"}, h), NEW a \in Issued, Old(a, h.gate),
         NEW r, r = dispatch(h, a, t)
  PROVE  Sound(r, t) /\ Same(r, h)
<1> DEFINE able == /\ worker_ready(h.adapter) /\ sink_ready(h.adapter)
                   /\ h.adapter.pending = {}
           due == observe_host_time(h, t)
           g == claim_dispatch(due.gate, a, t)
           x == [due EXCEPT !.gate = g]
           calls == not_executed_calls
<1>1. calls \in Seq(Call) /\ calls # <<>>
  BY CallLists
<1>2. r = IF ~able THEN emit(h, a, calls, t)
          ELSE IF claims_dispatch(due.gate, a, t) THEN submit_native(x, a, t)
          ELSE emit(due, a, calls, t)
  BY DEF dispatch, then
<1>3. /\ Sound(due, t) /\ Same(due, h) /\ due.prepared = {} /\ due.staged = h.staged
      /\ due.adapter.pending = {}
  BY TimeSound DEF Calm
<1> HIDE DEF able, due, calls
<1>4. CASE ~able
  BY <1>1, <1>2, <1>4, EmitSound
<1>5. CASE able /\ ~claims_dispatch(due.gate, a, t)
  <2>1. r = emit(due, a, calls, t)
    BY <1>2, <1>5
  <2>2. Old(a, due.gate)
    BY <1>3 DEF Same, Old
  <2>3. Sound(r, t) /\ Same(r, due)
    BY <1>1, <1>3, <2>1, <2>2, EmitSound
  <2> QED BY <1>3, <2>3, SameOn
<1>6. CASE able /\ claims_dispatch(due.gate, a, t)
  <2>1. r = submit_native(x, a, t)
    BY <1>2, <1>6
  <2>2. GateOK(due.gate, t) /\ t \in Time /\ due \in HostRecord
    BY <1>3 DEF Sound, Base
  <2>3. /\ OnlyReported(g, due.gate, t) /\ SameOutput(g, due.gate)
        /\ g.receipt.authority = a /\ g.receipt.dispatch = "submitted"
        /\ g.receipt.outcome = "pending" /\ has_receipt(g)
    BY <1>6, <2>2, DispatchClaim
  <2> HIDE DEF g
  <2>4. g.receipt.output = "accepted" <=> due.gate.receipt.output = "accepted"
    BY <2>3 DEF SameOutput
  <2>5. x = [due EXCEPT !.gate = g]
    OBVIOUS
  <2> HIDE DEF x
  <2>6. Sound(x, t) /\ Same(x, due) /\ x.gate = g
    BY <1>3, <2>3, <2>4, <2>5, ReportSound
  <2>7. x.adapter = due.adapter /\ x.staged = due.staged /\ x.prepared = due.prepared
    BY <2>2, <2>3, <2>5, GateFields DEF OnlyReported, GateOK
  <2>8. Only({"result"}, x)
    BY <1>3, <2>6, <2>7 DEF Only, Same
  <2>9. Sound(r, t) /\ Same(r, x)
    BY <1>3, <2>1, <2>3, <2>6, <2>7, <2>8, SubmitSound
  <2>10. Same(x, h)
    BY <1>3, <2>6, SameOn
  <2> QED BY <2>9, <2>10, SameOn
<1> QED BY <1>4, <1>5, <1>6
-----------------------------------------------------------------------------
(* What is staged carries the operation on.  The receipt says which call the *)
(* gate takes next (Expects, Awaits); what is prepared, pending or staged      *)
(* leads from there to the settlement, behind replayed results at most         *)
(* (Carried).  Every step of a call keeps that, a revocation and a discarded   *)
(* request included, until the settlement releases the operation.             *)

\* No record of this source has the number n or a larger one.
Below(r, source, n) ==
  \A k \in EvidenceKind : \A p \in r.evidence[k] : p.source = source => p.sequence < n

\* The operation was dispatched, and its evidence made, no later than x.
Until(r, x) ==
  /\ r.authority.admitted_at <= x /\ \A d \in r.dispatched_at : d <= x
  /\ \A k \in EvidenceKind \ {"stop"} : \A p \in r.evidence[k] : p.observed_at <= x

\* Nothing of the outcome, the output or the settlement is reported yet.
Clean(r) ==
  /\ r.output = "pending" /\ r.outcome = "pending"
  /\ Below(r, SettlementSource, 1) /\ Below(r, ResultSinkObserver, 1)

\* Nothing at all is reported yet.
Blank(g) ==
  /\ Clean(g.receipt) /\ g.receipt.acceptance = "pending"
  /\ g.receipt.native_identity = {} /\ g.last_native = {}
  /\ \A k \in EvidenceKind \ {"stop"} : g.receipt.evidence[k] = {}

\* The work was accepted and has not ended; its next report has a number from n on.
Accepted(g, n) ==
  /\ Clean(g.receipt) /\ g.receipt.acceptance = "accepted"
  /\ g.receipt.native_identity = {g.receipt.authority.operation_id}
  /\ \A last \in g.last_native :
       /\ last.record.sequence < n
       /\ \E k \in NativeKind : last.record \in g.receipt.evidence[k]
  /\ n = 2 => g.receipt.evidence["started"] = {}

\* There will be no output, and there is a record of why.
Barren(r) ==
  /\ r.output = "pending" /\ non_delivery_prerequisite(r, "no_output") # {}
  /\ \/ r.dispatch = "not_submitted" /\ r.outcome = "not_executed"
     \/ /\ r.dispatch = "submitted" /\ r.acceptance = "rejected"
        /\ r.outcome = "not_executed"
     \/ /\ r.dispatch = "submitted" /\ r.acceptance = "accepted"
        /\ r.outcome \in {"failed", "cancelled"}

\* The sink is asked next, or a replayed result has made it answer already.
Succeeded(r) ==
  /\ r.dispatch = "submitted" /\ r.acceptance = "accepted" /\ r.outcome = "succeeded"
  /\ IF r.output = "pending" THEN Below(r, ResultSinkObserver, 1)
     ELSE has_resolved_effects(r)

\* The gate takes the call kind with the number n next.
Expects(g, kind, n) ==
  LET r == g.receipt
  IN  /\ r.settlement = "pending"
      /\ kind = "not_submitted" => Blank(g) /\ r.dispatch = "pending"
      /\ kind \in {"accepted", "rejected"} => Blank(g) /\ r.dispatch = "submitted"
      /\ kind \in {"started"} \cup Terminal =>
           Accepted(g, n) /\ r.dispatch = "submitted"
      /\ kind = "no_output" => Barren(r)
      /\ kind = "result" => Succeeded(r)
      /\ kind = "settled" => r.output # "pending" /\ has_resolved_effects(r)
      /\ kind \in {"no_output", "result", "settled"} => Below(r, SettlementSource, n)

\* The calls the adapter makes one after the other.
Successor ==
  {<<"not_submitted", 1, "no_output", 2>>, <<"no_output", 2, "settled", 3>>,
   <<"rejected", 1, "no_output", 1>>, <<"no_output", 1, "settled", 2>>,
   <<"accepted", 1, "cancelled", 2>>, <<"cancelled", 2, "no_output", 1>>,
   <<"accepted", 1, "started", 2>>, <<"started", 2, "failed", 3>>,
   <<"failed", 3, "no_output", 1>>, <<"started", 2, "succeeded", 3>>,
   <<"succeeded", 3, "result", 4>>, <<"result", 4, "settled", 5>>}

\* The event f is made right after e.
Precedes(e, f) ==
  /\ <<e.kind, e.sequence, f.kind, f.sequence>> \in Successor
  /\ e.observed_at <= f.observed_at

\* From b + 1 on the list holds consecutive calls of a; before, there is nothing of a
\* but replayed results.
Trail(list, a, b) ==
  /\ b \in 0..Len(list)
  /\ \A i \in 1..b : list[i].authority = a => list[i].kind = "result"
  /\ \A i \in b + 1..Len(list) : list[i].authority = a
  /\ \A i \in b + 1..Len(list) - 1 : Precedes(list[i], list[i + 1])

\* The gate takes this event next, and at its time; a result and a settlement are
\* reported at a later one.
Awaits(g, e) ==
  /\ Expects(g, e.kind, e.sequence)
  /\ e.kind \notin {"result", "settled"} => Until(g.receipt, e.observed_at)

\* The request is prepared and nothing of it is staged.
IsPrepared(h) ==
  /\ h.prepared = {h.gate.receipt.authority} /\ h.adapter.pending = {}
  /\ Trail(h.staged, h.gate.receipt.authority, Len(h.staged))
  /\ Expects(h.gate, "not_submitted", 1)

\* The adapter has the work; that it accepted it is reported, or staged.
Reported(list, g) ==
  Trail(list, g.receipt.authority, Len(list)) /\ Expects(g, "started", 2)

Announced(list, g) ==
  LET n == Len(list)
  IN  /\ n # 0 /\ Trail(list, g.receipt.authority, n - 1)
      /\ list[n].kind = "accepted" /\ list[n].sequence = 1 /\ Awaits(g, list[n])

IsWorking(h) ==
  /\ h.prepared = {} /\ h.adapter.pending # {}
  /\ Reported(h.staged, h.gate) \/ Announced(h.staged, h.gate)

\* What is staged starts with what the gate takes next and ends in the settlement.
Leads(list, g) ==
  LET n == Len(list)
  IN  /\ n # 0 /\ list[n].kind = "settled"
      /\ \E b \in 0..n - 1 : Trail(list, g.receipt.authority, b) /\ Awaits(g, list[b + 1])

IsReporting(h) ==
  h.prepared = {} /\ h.adapter.pending = {} /\ Leads(h.staged, h.gate)

\* The operation is released, and nothing of it is open.
IsReleased(g) ==
  g.receipt.disposition = "released" /\ has_resolved_closure(g.receipt)

\* The operation is settled: nothing is left of it but replayed results.
IsOver(h) ==
  /\ IsReleased(h.gate)
  /\ h.prepared = {} /\ h.adapter.pending = {}
  /\ Trail(h.staged, h.gate.receipt.authority, Len(h.staged))

\* A candidate is prepared by a gate that says so, and an operation that is not
\* settled is that of the binding; a binding that is withdrawn has revoked it.
InForce(g) ==
  /\ has_candidate(g) => g.phase = "preparing"
  /\ has_receipt(g) /\ g.receipt.settlement = "pending" =>
       /\ g.receipt.authority.binding = g.binding
       /\ g.phase \in {"withdrawn", "preparing"} => is_revoked(g.receipt)

Carried(h) ==
  LET a == h.gate.receipt.authority
  IN  /\ InForce(h.gate)
      /\ \A id \in h.muted : id <= a.operation_id
      /\ has_receipt(h.gate) /\ a.operation_id \notin h.muted =>
           IF h.gate.receipt.settlement = "settled" THEN IsOver(h)
           ELSE IsPrepared(h) \/ IsWorking(h) \/ IsReporting(h)
-----------------------------------------------------------------------------
(* What the gate makes of the calls                                          *)

\* The receipts say the same of the work; about the stop they may differ.
Alike(r, s) ==
  /\ r.authority = s.authority /\ r.dispatch = s.dispatch
  /\ r.acceptance = s.acceptance /\ r.outcome = s.outcome
  /\ r.output = s.output /\ r.reason = s.reason /\ r.settlement = s.settlement
  /\ r.dispatched_at = s.dispatched_at /\ r.native_identity = s.native_identity
  /\ \A k \in EvidenceKind \ {"stop"} : r.evidence[k] = s.evidence[k]
  /\ \A p \in r.evidence["stop"] : p \in s.evidence["stop"] \/ p.source = StopSource

Undisturbed(q, g) ==
  Alike(q.receipt, g.receipt) /\ q.last_native = g.last_native

\* The sources differ where the gate compares them.
LEMMA SourcesDiffer ==
  /\ StopSource # SettlementSource /\ StopSource # ResultSinkObserver
  /\ NativeSource # SettlementSource /\ NativeSource # ResultSinkObserver
  /\ SettlementSource # ResultSinkObserver
BY SourceAssumption, NameAssumption

\* A stop leaves the numbers of the other sources, and their times.
LEMMA BelowAlike ==
  ASSUME NEW r, NEW s, Alike(r, s), NEW source, source # StopSource, NEW n,
         Below(s, source, n)
  PROVE  Below(r, source, n)
<1> SUFFICES ASSUME NEW k \in EvidenceKind, NEW p \in r.evidence[k], p.source = source
             PROVE  p.sequence < n
  BY DEF Below
<1>1. CASE k = "stop"
  BY <1>1 DEF Alike, Below
<1>2. CASE k # "stop"
  BY <1>2 DEF Alike, Below
<1> QED BY <1>1, <1>2

\* What disturbs nothing leaves the gate waiting for the same call.
LEMMA UndisturbedAwaits ==
  ASSUME NEW q, NEW g, Undisturbed(q, g)
  PROVE  /\ \A kind, n : Expects(g, kind, n) => Expects(q, kind, n)
         /\ \A x : Until(g.receipt, x) => Until(q.receipt, x)
         /\ \A e : Awaits(g, e) => Awaits(q, e)
         /\ has_resolved_effects(g.receipt) => has_resolved_effects(q.receipt)
         /\ q.receipt.settlement = g.receipt.settlement
<1> DEFINE r == q.receipt
           s == g.receipt
<1>1. Alike(r, s) /\ q.last_native = g.last_native
  BY DEF Undisturbed
<1>2. \A n : Below(s, SettlementSource, n) => Below(r, SettlementSource, n)
  BY <1>1, SourcesDiffer, BelowAlike
<1>3. \A n : Below(s, ResultSinkObserver, n) => Below(r, ResultSinkObserver, n)
  BY <1>1, SourcesDiffer, BelowAlike
<1>4. /\ NativeKind \subseteq EvidenceKind \ {"stop"}
      /\ {"non_submission", "rejected", "failed", "cancelled", "started", "succeeded"}
           \subseteq EvidenceKind \ {"stop"}
  BY DEF NativeKind, EvidenceKind
<1>5. has_resolved_effects(s) => has_resolved_effects(r)
  BY <1>1 DEF Alike, has_resolved_effects
<1>6. Clean(s) => Clean(r)
  BY <1>1, <1>2, <1>3 DEF Alike, Clean
<1>7. non_delivery_prerequisite(r, "no_output") = non_delivery_prerequisite(s, "no_output")
  BY <1>1, <1>4 DEF Alike, non_delivery_prerequisite
<1>8. Barren(s) => Barren(r)
  BY <1>1, <1>7 DEF Alike, Barren
<1>9. Succeeded(s) => Succeeded(r)
  BY <1>1, <1>3, <1>5 DEF Alike, Succeeded
<1>10. Blank(g) => Blank(q)
  BY <1>1, <1>6 DEF Alike, Blank
<1>11. \A n : Accepted(g, n) => Accepted(q, n)
  BY <1>1, <1>4, <1>6 DEF Alike, Accepted
<1>12. \A kind, n : Expects(g, kind, n) => Expects(q, kind, n)
  BY <1>1, <1>2, <1>5, <1>8, <1>9, <1>10, <1>11 DEF Alike, Expects
<1>13. \A x : Until(s, x) => Until(r, x)
  BY <1>1 DEF Alike, Until
<1> QED BY <1>1, <1>5, <1>12, <1>13 DEF Awaits, Alike
\* What was no later than a time is no later than a later one.
LEMMA UntilLater ==
  ASSUME NEW r \in Receipt, NEW x \in Time, NEW y \in Time, x <= y, Until(r, x)
  PROVE  Until(r, y)
<1>1. /\ r.authority.admitted_at \in Nat /\ r.dispatched_at \subseteq Nat
      /\ \A k \in EvidenceKind : r.evidence[k] \subseteq EvidenceRecord
  BY TimeIs DEF Receipt, Optional, Authority
<1>2. \A p \in EvidenceRecord : p.observed_at \in Nat
  BY TimeIs DEF EvidenceRecord
<1>3. x \in Nat /\ y \in Nat
  BY TimeIs
<1> QED BY <1>1, <1>2, <1>3 DEF Until

\* At the present nothing of the receipt lies ahead.
LEMMA UntilNow ==
  ASSUME NEW g, NEW t, GateOK(g, t) PROVE Until(g.receipt, t)
BY DEF GateOK, Timed, Until

\* One record is added, of a call that is about the same operation.
Extends(r, s, kind, record1) ==
  /\ r.authority = s.authority /\ r.dispatched_at = s.dispatched_at
  /\ r.evidence[kind] = {record1}
  /\ \A k \in EvidenceKind : k # kind => r.evidence[k] = s.evidence[k]

\* One more record, made at this time.
LEMMA UntilExtends ==
  ASSUME NEW r, NEW s, NEW kind \in EvidenceKind, NEW p, Extends(r, s, kind, p),
         Until(s, p.observed_at), p \in EvidenceRecord
  PROVE  Until(r, p.observed_at)
<1>1. p.observed_at <= p.observed_at
  BY TimeIs DEF EvidenceRecord
<1> QED BY <1>1 DEF Extends, Until

\* One more record, with a number below the next one.
LEMMA BelowExtends ==
  ASSUME NEW s \in Receipt, NEW r, NEW kind \in EvidenceKind, NEW p, Extends(r, s, kind, p),
         NEW source, NEW n \in Nat, NEW m \in Nat, n <= m, Below(s, source, n),
         p.source = source => p.sequence < m
  PROVE  Below(r, source, m)
<1>1. \A k \in EvidenceKind : \A x \in s.evidence[k] : x.sequence \in Nat
  <2>1. \A k \in EvidenceKind : s.evidence[k] \subseteq EvidenceRecord
    BY DEF Receipt, Optional
  <2>2. \A x \in EvidenceRecord : x.sequence \in Nat
    BY NumberAssumption DEF EvidenceRecord
  <2> QED BY <2>1, <2>2
<1>2. \A k \in EvidenceKind : \A x \in s.evidence[k] : x.source = source => x.sequence < m
  BY <1>1 DEF Below
<1> QED BY <1>2 DEF Below, Extends

\* Refreshing leaves what was reported alone, and releases what is over.
LEMMA RefreshIs ==
  ASSUME NEW s \in Receipt, NEW r, r = refresh_authority_disposition(s)
  PROVE  /\ r.authority = s.authority /\ r.dispatch = s.dispatch
         /\ r.acceptance = s.acceptance /\ r.outcome = s.outcome
         /\ r.output = s.output /\ r.reason = s.reason /\ r.settlement = s.settlement
         /\ r.dispatched_at = s.dispatched_at /\ r.native_identity = s.native_identity
         /\ r.evidence = s.evidence
         /\ r.disposition = authority_disposition(s)
<1> DEFINE d == authority_disposition(s)
<1>1. r = [s EXCEPT !.disposition = d]
  BY DEF refresh_authority_disposition
<1> HIDE DEF d
<1>2. /\ r.authority = s.authority /\ r.dispatch = s.dispatch
      /\ r.acceptance = s.acceptance /\ r.outcome = s.outcome
      /\ r.output = s.output /\ r.reason = s.reason /\ r.settlement = s.settlement
      /\ r.dispatched_at = s.dispatched_at /\ r.native_identity = s.native_identity
      /\ r.evidence = s.evidence /\ r.disposition = d
  BY <1>1 DEF Receipt
<1> QED BY <1>2 DEF d

\* The gate after its receipt changed.
LEMMA ReceiptChanged ==
  ASSUME NEW g \in Gate, NEW s, NEW q,
         q = [g EXCEPT !.receipt = refresh_authority_disposition(s)]
  PROVE  q.receipt = refresh_authority_disposition(s) /\ q.last_native = g.last_native
BY DEF Gate

\* It is taken that nothing was submitted; that there is no output comes next.
LEMMA NonSubmissionTaken ==
  ASSUME NEW g \in Gate, NEW a, a = g.receipt.authority, current_authority_matches(g, a),
         NEW p \in EvidenceRecord, p.source = SettlementSource, p.sequence = 1,
         Expects(g, "not_submitted", 1), Until(g.receipt, p.observed_at),
         NEW q, q = observe_non_submission(g, [authority |-> a, record |-> p])
  PROVE  Expects(q, "no_output", 2) /\ Until(q.receipt, p.observed_at)
<1> DEFINE e == [authority |-> a, record |-> p]
           z == g.receipt
           s == [z EXCEPT !.dispatch = "not_submitted", !.outcome = "not_executed",
                          !.evidence["non_submission"] = {p}]
           r == q.receipt
           kind == "non_submission"
<1>1. z \in Receipt
  BY DEF Gate
<1>2. /\ z.settlement = "pending" /\ z.dispatch = "pending" /\ Blank(g) /\ Clean(z)
      /\ z.output = "pending" /\ Below(z, SettlementSource, 1)
  BY DEF Expects, Blank, Clean
<1>3. accepts_non_submission(g, e)
  <2>1. /\ z.authority.admitted_at <= p.observed_at
        /\ \A k \in EvidenceKind \ {"stop"} : z.evidence[k] = {}
    BY <1>2 DEF Until, Blank
  <2>2. {"accepted", "rejected", "started", "succeeded", "failed"}
          \subseteq EvidenceKind \ {"stop"}
    BY DEF EvidenceKind, NativeKind
  <2>3. is_record_well_formed(e.record, SettlementSource, {e.authority.admitted_at})
    BY <2>1 DEF is_record_well_formed
  <2> QED BY <1>2, <2>1, <2>2, <2>3 DEF accepts_non_submission
<1>4. q = [g EXCEPT !.receipt = refresh_authority_disposition(s)]
  BY <1>3 DEF observe_non_submission
<1>5. [z EXCEPT !.dispatch = "not_submitted", !.outcome = "not_executed"] \in Receipt
  BY <1>1 DEF Receipt
<1>6. kind \in EvidenceKind /\ s \in Receipt
  BY <1>5, EvidenceType DEF EvidenceKind
<1> HIDE DEF z
<1>7. /\ s.authority = z.authority /\ s.dispatched_at = z.dispatched_at
      /\ s.dispatch = "not_submitted" /\ s.outcome = "not_executed"
      /\ s.output = z.output /\ s.settlement = z.settlement
      /\ \A k \in EvidenceKind : s.evidence[k] = IF k = kind THEN {p} ELSE z.evidence[k]
  BY <1>1 DEF Receipt
<1> HIDE DEF s
<1>8. r = refresh_authority_disposition(s)
  BY <1>4, ReceiptChanged
<1> HIDE DEF r
<1>9. /\ r.dispatch = "not_submitted" /\ r.outcome = "not_executed"
      /\ r.output = "pending" /\ r.settlement = "pending"
      /\ Extends(r, z, kind, p)
  BY <1>2, <1>6, <1>7, <1>8, RefreshIs DEF Extends
<1>10. Until(r, p.observed_at)
  BY <1>6, <1>9, UntilExtends DEF z
<1> DEFINE n == 1
           m == 2
<1>11. n \in Nat /\ m \in Nat /\ n <= m /\ Below(z, SettlementSource, n) /\ p.sequence < m
  BY <1>2
<1> HIDE DEF n, m, kind
<1>12. Below(r, SettlementSource, m)
  BY <1>1, <1>6, <1>9, <1>11, BelowExtends
<1>13. Barren(r)
  BY <1>9 DEF Barren, non_delivery_prerequisite, Extends, kind
<1>14. Expects(q, "no_output", 2)
  BY <1>9, <1>12, <1>13 DEF Expects, r, m, Terminal
<1> QED BY <1>10, <1>14 DEF r

\* It is taken that there is no output; the settlement comes next.
LEMMA NoOutputTaken ==
  ASSUME NEW g \in Gate, NEW a, a = g.receipt.authority, current_authority_matches(g, a),
         NEW p \in EvidenceRecord, p.source = SettlementSource, p.sequence # 0,
         Expects(g, "no_output", p.sequence), Until(g.receipt, p.observed_at),
         NEW q, q = observe_output_not_delivered(g,
                      [authority |-> a, reason |-> "no_output", record |-> p])
  PROVE  Expects(q, "settled", p.sequence + 1)
<1> DEFINE why == "no_output"
           e == [authority |-> a, reason |-> why, record |-> p]
           z == g.receipt
           s == [z EXCEPT !.output = "not_delivered", !.reason = {why},
                          !.evidence["non_delivery"] = {p}]
           r == q.receipt
           kind == "non_delivery"
<1>1. z \in Receipt
  BY DEF Gate
<1>2. /\ z.settlement = "pending" /\ z.output = "pending" /\ Barren(z)
      /\ Below(z, SettlementSource, p.sequence)
  BY DEF Expects, Barren
<1>3. accepts_non_delivery(g, e)
  <2>1. PICK x \in non_delivery_prerequisite(z, "no_output") : TRUE
    BY <1>2 DEF Barren
  <2>2. \E k \in EvidenceKind \ {"stop"} : x \in z.evidence[k]
    <3>1. {"non_submission", "rejected", "failed", "cancelled"}
            \subseteq EvidenceKind \ {"stop"}
      BY DEF EvidenceKind, NativeKind
    <3> QED BY <2>1, <3>1 DEF non_delivery_prerequisite
  <2>3. x.observed_at <= p.observed_at
    BY <2>2 DEF Until
  <2>4. is_record_well_formed(p, SettlementSource, {x.observed_at})
    BY <2>3 DEF is_record_well_formed
  <2>5. follows_same_source_records(p, z)
    BY <1>2 DEF Below, follows_same_source_records
  <2> QED BY <1>2, <2>1, <2>4, <2>5 DEF accepts_non_delivery
<1>4. q = [g EXCEPT !.receipt = refresh_authority_disposition(s)]
  BY <1>3 DEF observe_output_not_delivered
<1>5. [z EXCEPT !.output = "not_delivered", !.reason = {why}] \in Receipt
  <2>1. {why} \in Optional(NonDeliveryReason)
    BY OptionalSome DEF NonDeliveryReason
  <2> QED BY <1>1, <2>1 DEF Receipt
<1>6. kind \in EvidenceKind /\ s \in Receipt
  BY <1>5, EvidenceType DEF EvidenceKind
<1> HIDE DEF z
<1>7. /\ s.authority = z.authority /\ s.dispatched_at = z.dispatched_at
      /\ s.dispatch = z.dispatch /\ s.outcome = z.outcome /\ s.acceptance = z.acceptance
      /\ s.output = "not_delivered" /\ s.reason = {"no_output"}
      /\ s.settlement = z.settlement
      /\ \A k \in EvidenceKind : s.evidence[k] = IF k = kind THEN {p} ELSE z.evidence[k]
  BY <1>1 DEF Receipt
<1> HIDE DEF s
<1>8. r = refresh_authority_disposition(s)
  BY <1>4, ReceiptChanged
<1> HIDE DEF r
<1>9. /\ r.dispatch = z.dispatch /\ r.outcome = z.outcome /\ r.acceptance = z.acceptance
      /\ r.output = "not_delivered" /\ r.reason = {"no_output"}
      /\ r.settlement = "pending" /\ Extends(r, z, kind, p)
  BY <1>2, <1>6, <1>7, <1>8, RefreshIs DEF Extends
<1>10. has_resolved_effects(r)
  BY <1>2, <1>9 DEF Barren, has_resolved_effects
<1> DEFINE n == p.sequence
           m == p.sequence + 1
<1>11. n \in Nat /\ m \in Nat /\ n <= m /\ n < m
  <2>1. p.sequence \in Nat
    BY NumberAssumption DEF EvidenceRecord
  <2> QED BY <2>1
<1>12. Below(z, SettlementSource, n) /\ p.sequence < m
  BY <1>2, <1>11
<1> HIDE DEF n, m, kind
<1>13. Below(r, SettlementSource, m)
  BY <1>1, <1>6, <1>9, <1>11, <1>12, BelowExtends
<1> QED BY <1>9, <1>10, <1>13 DEF Expects, r, m, Terminal
\* The settlement is taken, and the operation is released.
LEMMA SettlementTaken ==
  ASSUME NEW t \in Time, NEW g, GateOK(g, t),
         NEW a, a = g.receipt.authority, current_authority_matches(g, a),
         NEW p \in EvidenceRecord, p.source = SettlementSource, p.sequence # 0,
         p.observed_at = t, Expects(g, "settled", p.sequence),
         NEW e, e.authority = a, e.permits_same_domain_admission = TRUE, e.record = p,
         NEW q, q = observe_settlement(g, e)
  PROVE  IsReleased(q)
<1> DEFINE z == g.receipt
           s == [z EXCEPT !.settlement = "settled", !.evidence["settlement"] = {p}]
           r == q.receipt
<1>1. z \in Receipt /\ g \in Gate /\ Timed(z, t) /\ t \in Nat
  BY TimeIs DEF Gate, GateOK
<1>2. /\ z.settlement = "pending" /\ z.output # "pending" /\ has_resolved_effects(z)
      /\ Below(z, SettlementSource, p.sequence)
  BY DEF Expects, Terminal
<1>3. accepts_settlement(g, e)
  <2>1. not_before(t, effect_times(z)) /\ z.authority.admitted_at <= t
    BY <1>1, TimedCalls DEF Timed
  <2>2. is_record_well_formed(p, SettlementSource, {a.admitted_at})
    BY <2>1 DEF is_record_well_formed
  <2>3. follows_same_source_records(p, z)
    BY <1>2 DEF Below, follows_same_source_records
  <2> QED BY <1>2, <2>1, <2>2, <2>3 DEF accepts_settlement
<1>4. q = [g EXCEPT !.receipt = refresh_authority_disposition(s)]
  BY <1>3 DEF observe_settlement
<1>5. [z EXCEPT !.settlement = "settled"] \in Receipt
  BY <1>1 DEF Receipt
<1>6. s \in Receipt
  BY <1>5, EvidenceType DEF EvidenceKind
<1> HIDE DEF z
<1>7. /\ s.dispatch = z.dispatch /\ s.outcome = z.outcome /\ s.acceptance = z.acceptance
      /\ s.output = z.output /\ s.reason = z.reason /\ s.settlement = "settled"
  BY <1>1 DEF Receipt
<1> HIDE DEF s
<1>8. r = refresh_authority_disposition(s)
  BY <1>1, <1>4, ReceiptChanged
<1> HIDE DEF r
<1>9. /\ r.dispatch = z.dispatch /\ r.outcome = z.outcome /\ r.acceptance = z.acceptance
      /\ r.output = z.output /\ r.reason = z.reason /\ r.settlement = "settled"
      /\ r.disposition = authority_disposition(s)
  BY <1>6, <1>7, <1>8, RefreshIs
<1>10. has_resolved_effects(s) /\ has_resolved_effects(r)
  BY <1>2, <1>7, <1>9 DEF has_resolved_effects
<1>11. s.outcome # "unknown"
  BY <1>10 DEF has_resolved_effects
<1>12. r.disposition = "released"
  BY <1>7, <1>9, <1>10, <1>11 DEF authority_disposition, has_resolved_closure
<1> QED BY <1>9, <1>10, <1>12 DEF r, IsReleased, has_resolved_closure

\* What the gate makes of a first native report of a kind, while nothing has ended.
NativelyReported(q, g, kind, id, p) ==
  LET r == q.receipt
      s == g.receipt
  IN  /\ Extends(r, s, kind, p)
      /\ r.dispatch = s.dispatch /\ r.output = s.output /\ r.settlement = s.settlement
      /\ r.native_identity = {id}
      /\ r.acceptance = IF kind \in {"accepted", "rejected"} THEN kind ELSE s.acceptance
      /\ r.outcome = IF kind \in Terminal THEN kind
                     ELSE IF kind = "rejected" THEN "not_executed" ELSE "pending"
      /\ q.last_native = {[kind |-> kind, record |-> p]}

\* A native report that the gate takes.
LEMMA NativeTaken ==
  ASSUME NEW g \in Gate, Reliable(g.receipt), g.receipt.outcome = "pending",
         NEW kind \in NativeKind, g.receipt.evidence[kind] = {},
         NEW a, NEW id \in NativeIdentity, NEW p \in EvidenceRecord,
         NEW e, e = [authority |-> a, kind |-> kind, native_identity |-> id, record |-> p],
         accepts_native(g, e), NEW q, q = observe_native(g, e)
  PROVE  NativelyReported(q, g, kind, id, p)
<1> DEFINE z == g.receipt
           evidence == [z.evidence EXCEPT ![kind] = {p}]
           acceptance == IF kind \in {"accepted", "rejected"} THEN kind ELSE z.acceptance
           outcome == native_outcome(z, kind, evidence)
           s == [z EXCEPT !.evidence = evidence, !.native_identity = {id},
                          !.acceptance = acceptance, !.outcome = outcome]
           r == q.receipt
<1>1. z \in Receipt /\ Reliable(z) /\ z.outcome = "pending"
  BY DEF Gate
<1>2. /\ kind \in EvidenceKind /\ Terminal \subseteq NativeKind
      /\ NativeKind \subseteq EvidenceKind /\ "rejected" \notin Terminal
  BY DEF EvidenceKind, NativeKind, Terminal
<1>3. /\ evidence \in [EvidenceKind -> Optional(EvidenceRecord)]
      /\ \A k \in EvidenceKind : evidence[k] = IF k = kind THEN {p} ELSE z.evidence[k]
  BY <1>1, <1>2, OptionalSome DEF Receipt
<1>4. \A k \in Terminal : z.evidence[k] = {}
  BY <1>1 DEF Reliable
<1> HIDE DEF evidence
<1>5. outcome = IF kind \in Terminal THEN kind
                ELSE IF kind = "rejected" THEN "not_executed" ELSE "pending"
  <2>1. \A k \in Terminal : evidence[k] # {} <=> k = kind
    BY <1>2, <1>3, <1>4
  <2>2. CASE kind \in Terminal
    <3>1. seen_terminals(evidence) = {kind}
      BY <2>1, <2>2 DEF seen_terminals
    <3>2. (CHOOSE k \in Terminal : evidence[k] # {}) = kind
      BY <2>1, <2>2
    <3> QED BY <2>2, <3>1, <3>2 DEF native_outcome
  <2>3. CASE kind \notin Terminal
    <3>1. seen_terminals(evidence) = {}
      BY <2>1, <2>3 DEF seen_terminals
    <3> QED BY <1>1, <2>3, <3>1 DEF native_outcome
  <2> QED BY <2>2, <2>3
<1> HIDE DEF outcome
<1>6. acceptance \in {"pending", "accepted", "rejected"}
  BY <1>1 DEF Receipt
<1>7. {id} \in Optional(NativeIdentity)
  BY OptionalSome
<1>8. outcome \in {"pending", "not_executed", "unknown"} \cup Terminal
  BY <1>5
<1> HIDE DEF acceptance
<1>9. s \in Receipt
  <2> HIDE DEF z
  <2> QED BY <1>1, <1>3, <1>6, <1>7, <1>8, ZenonT(30) DEF Receipt
<1>10. q = [g EXCEPT !.receipt = refresh_authority_disposition(s),
                     !.last_native = {[kind |-> kind, record |-> p]}]
  BY DEF observe_native, apply_native, s, evidence, acceptance, outcome
<1> HIDE DEF z
<1>11. /\ s.authority = z.authority /\ s.dispatched_at = z.dispatched_at
       /\ s.dispatch = z.dispatch /\ s.output = z.output /\ s.settlement = z.settlement
       /\ s.native_identity = {id} /\ s.acceptance = acceptance /\ s.outcome = outcome
       /\ s.evidence = evidence
  BY <1>1 DEF Receipt
<1> HIDE DEF s
<1>12. /\ r = refresh_authority_disposition(s)
       /\ q.last_native = {[kind |-> kind, record |-> p]}
  BY <1>10 DEF Gate
<1> HIDE DEF r
<1>13. /\ r.authority = z.authority /\ r.dispatched_at = z.dispatched_at
       /\ r.dispatch = z.dispatch /\ r.output = z.output /\ r.settlement = z.settlement
       /\ r.native_identity = {id} /\ r.acceptance = acceptance /\ r.outcome = outcome
       /\ r.evidence = evidence
  BY <1>9, <1>11, <1>12, RefreshIs
<1>14. Extends(r, z, kind, p)
  BY <1>2, <1>3, <1>13 DEF Extends
<1> QED BY <1>5, <1>12, <1>13, <1>14 DEF NativelyReported, r, z, acceptance

\* A native report does not come from where the settlement or the sink reports.
LEMMA NativelyBelow ==
  ASSUME NEW g \in Gate, NEW q, NEW kind \in NativeKind, NEW id, NEW p,
         p.source = NativeSource, NativelyReported(q, g, kind, id, p),
         NEW source \in {SettlementSource, ResultSinkObserver},
         Below(g.receipt, source, 1)
  PROVE  \A m \in Nat \ {0} : Below(q.receipt, source, m)
<1> TAKE m \in Nat \ {0}
<1> DEFINE n == 1
<1>1. n \in Nat /\ m \in Nat /\ n <= m /\ Below(g.receipt, source, n)
  OBVIOUS
<1>2. p.source # source /\ g.receipt \in Receipt
  BY SourcesDiffer DEF Gate
<1>3. kind \in EvidenceKind /\ Extends(q.receipt, g.receipt, kind, p)
  BY DEF EvidenceKind, NativelyReported
<1> HIDE DEF n
<1> QED BY <1>1, <1>2, <1>3, BelowExtends
\* The first native report: the work was accepted, or it was rejected.
LEMMA FirstNativeTaken ==
  ASSUME NEW g \in Gate, Reliable(g.receipt),
         NEW a, a = g.receipt.authority, current_authority_matches(g, a),
         NEW kind \in {"accepted", "rejected"}, NEW id \in NativeIdentity,
         id = a.operation_id,
         NEW p \in EvidenceRecord, p.source = NativeSource, p.sequence = 1,
         Expects(g, kind, 1), Until(g.receipt, p.observed_at),
         NEW q, q = observe_native(g,
           [authority |-> a, kind |-> kind, native_identity |-> id, record |-> p])
  PROVE  /\ Until(q.receipt, p.observed_at)
         /\ kind = "accepted" => Expects(q, "started", 2) /\ Expects(q, "cancelled", 2)
         /\ kind = "rejected" => Expects(q, "no_output", 1)
<1> DEFINE e == [authority |-> a, kind |-> kind, native_identity |-> id, record |-> p]
           z == g.receipt
           r == q.receipt
<1>1. /\ kind \in NativeKind /\ kind \in EvidenceKind \ {"stop"} /\ kind \notin Terminal
      /\ "started" \in EvidenceKind \ {"stop"} /\ "started" # kind
  BY DEF NativeKind, EvidenceKind, Terminal
<1>2. /\ Blank(g) /\ z.dispatch = "submitted" /\ z.settlement = "pending"
      /\ Clean(z) /\ z.acceptance = "pending" /\ z.native_identity = {}
      /\ g.last_native = {} /\ z.outcome = "pending" /\ z.output = "pending"
      /\ \A k \in EvidenceKind \ {"stop"} : z.evidence[k] = {}
  BY DEF Expects, Blank, Clean
<1>3. accepts_native(g, e)
  <2>1. is_record_well_formed(p, NativeSource, z.dispatched_at)
    BY DEF is_record_well_formed, Until
  <2> QED BY <1>2, <2>1 DEF accepts_native
<1>4. z.evidence[kind] = {}
  BY <1>1, <1>2
<1> HIDE DEF e
<1>5. NativelyReported(q, g, kind, id, p)
  BY <1>1, <1>2, <1>3, <1>4, NativeTaken DEF e
<1>6. /\ Extends(r, z, kind, p) /\ r.dispatch = "submitted" /\ r.output = "pending"
      /\ r.settlement = "pending" /\ r.native_identity = {id} /\ r.acceptance = kind
      /\ r.outcome = IF kind = "rejected" THEN "not_executed" ELSE "pending"
      /\ q.last_native = {[kind |-> kind, record |-> p]}
      /\ r.evidence[kind] = {p} /\ r.evidence["started"] = {} /\ r.authority = a
  BY <1>1, <1>2, <1>5 DEF NativelyReported, Extends
<1>7. Until(r, p.observed_at)
  BY <1>1, <1>6, UntilExtends
<1>8. /\ \A m \in Nat \ {0} : Below(r, SettlementSource, m)
      /\ \A m \in Nat \ {0} : Below(r, ResultSinkObserver, m)
  BY <1>1, <1>2, <1>5, NativelyBelow DEF Clean
<1>9. Below(r, SettlementSource, 1) /\ Below(r, ResultSinkObserver, 1)
  BY <1>8
<1> HIDE DEF r, z
<1>10. CASE kind = "accepted"
  <2>1. Clean(r)
    BY <1>6, <1>9, <1>10 DEF Clean
  <2>2. \A last \in q.last_native : /\ last.record.sequence < 2
                                    /\ \E k \in NativeKind : last.record \in r.evidence[k]
    BY <1>1, <1>6
  <2>3. Accepted(q, 2)
    BY <1>6, <1>10, <2>1, <2>2 DEF Accepted, r
  <2> QED BY <1>6, <1>7, <1>10, <2>3 DEF Expects, r, Terminal
<1>11. CASE kind = "rejected"
  <2>1. Barren(r)
    BY <1>6, <1>11 DEF Barren, non_delivery_prerequisite
  <2> QED BY <1>6, <1>7, <1>9, <1>11, <2>1 DEF Expects, r, Terminal
<1> QED BY <1>10, <1>11

\* Work that was accepted starts, or ends.
LEMMA NextNativeTaken ==
  ASSUME NEW g \in Gate, Reliable(g.receipt),
         NEW a, a = g.receipt.authority, current_authority_matches(g, a),
         NEW kind \in {"started"} \cup Terminal, NEW id \in NativeIdentity,
         id = a.operation_id,
         NEW p \in EvidenceRecord, p.source = NativeSource, p.sequence # 0,
         kind = "started" => p.sequence = 2,
         Expects(g, kind, p.sequence), Until(g.receipt, p.observed_at),
         NEW q, q = observe_native(g,
           [authority |-> a, kind |-> kind, native_identity |-> id, record |-> p])
  PROVE  /\ Until(q.receipt, p.observed_at)
         /\ kind = "started" => Expects(q, "failed", 3) /\ Expects(q, "succeeded", 3)
         /\ kind \in {"failed", "cancelled"} => Expects(q, "no_output", 1)
         /\ kind = "succeeded" => Expects(q, "result", 4)
<1> DEFINE e == [authority |-> a, kind |-> kind, native_identity |-> id, record |-> p]
           z == g.receipt
           r == q.receipt
<1>1. /\ kind \in NativeKind /\ kind \in EvidenceKind \ {"stop"}
      /\ kind \notin {"accepted", "rejected"}
      /\ NativeKind \subseteq EvidenceKind \ {"stop"}
  BY DEF NativeKind, EvidenceKind, Terminal
<1>2. /\ Accepted(g, p.sequence) /\ z.dispatch = "submitted" /\ z.settlement = "pending"
      /\ Clean(z) /\ z.acceptance = "accepted" /\ z.native_identity = {id}
      /\ z.outcome = "pending" /\ z.output = "pending"
  BY DEF Expects, Accepted, Clean
<1>3. accepts_native(g, e)
  <2>1. is_record_well_formed(p, NativeSource, z.dispatched_at)
    BY DEF is_record_well_formed, Until
  <2>2. \A last \in g.last_native : /\ last.record.sequence < p.sequence
                                    /\ last.record.observed_at <= p.observed_at
    BY <1>1, <1>2 DEF Accepted, Until
  <2> QED BY <1>1, <1>2, <2>1, <2>2 DEF accepts_native
<1>4. z.evidence[kind] = {}
  <2>1. CASE kind = "started"
    BY <1>2, <2>1 DEF Accepted
  <2>2. CASE kind \in Terminal
    BY <1>2, <2>2 DEF Reliable
  <2> QED BY <2>1, <2>2
<1> HIDE DEF e
<1>5. NativelyReported(q, g, kind, id, p)
  BY <1>1, <1>2, <1>3, <1>4, NativeTaken DEF e
<1>6. /\ Extends(r, z, kind, p) /\ r.dispatch = "submitted" /\ r.output = "pending"
      /\ r.settlement = "pending" /\ r.native_identity = {id}
      /\ r.acceptance = "accepted"
      /\ r.outcome = IF kind \in Terminal THEN kind ELSE "pending"
      /\ q.last_native = {[kind |-> kind, record |-> p]}
      /\ r.evidence[kind] = {p} /\ r.authority = a
  BY <1>1, <1>2, <1>5 DEF NativelyReported, Extends
<1>7. Until(r, p.observed_at)
  BY <1>1, <1>6, UntilExtends
<1>8. /\ \A m \in Nat \ {0} : Below(r, SettlementSource, m)
      /\ \A m \in Nat \ {0} : Below(r, ResultSinkObserver, m)
  BY <1>1, <1>2, <1>5, NativelyBelow DEF Clean
<1>9. /\ Below(r, SettlementSource, 1) /\ Below(r, ResultSinkObserver, 1)
      /\ Below(r, SettlementSource, 4)
  BY <1>8
<1> HIDE DEF r, z
<1>10. CASE kind = "started"
  <2>1. Clean(r)
    BY <1>6, <1>9, <1>10 DEF Clean, Terminal
  <2>2. \A last \in q.last_native : /\ last.record.sequence < 3
                                    /\ \E k \in NativeKind : last.record \in r.evidence[k]
    BY <1>1, <1>6, <1>10
  <2>3. /\ r.acceptance = "accepted" /\ r.native_identity = {r.authority.operation_id}
        /\ 3 # 2
    BY <1>6
  <2>4. Accepted(q, 3)
    BY ONLY <2>1, <2>2, <2>3 DEF Accepted, r
  <2> QED BY <1>6, <1>7, <1>10, <2>4 DEF Expects, r, Terminal
<1>11. CASE kind \in {"failed", "cancelled"}
  <2>1. Barren(r)
    BY <1>6, <1>11 DEF Barren, non_delivery_prerequisite, Terminal
  <2> QED BY <1>6, <1>7, <1>9, <1>11, <2>1 DEF Expects, r, Terminal
<1>12. CASE kind = "succeeded"
  <2>1. Succeeded(r)
    BY <1>6, <1>9, <1>12 DEF Succeeded, Terminal
  <2> QED BY <1>6, <1>7, <1>9, <1>12, <2>1 DEF Expects, r, Terminal
<1> QED BY <1>10, <1>11, <1>12 DEF Terminal

\* What the gate makes of a result: it is delivered, or the gate is told why not.
ResultOn(g, a, ready, t) ==
  LET p == record(ResultSinkObserver, t, 1)
      lost(why) == observe_output_not_delivered(g,
                     [authority |-> a, reason |-> why, record |-> p])
  IN  IF ~can_deliver_result(g, a) THEN lost("authority_revoked")
      ELSE IF ~ready THEN lost("sink_rejected")
      ELSE observe_output_accepted(g, [authority |-> a, record |-> p])

\* The operation had succeeded, and there is an answer about its output now.
Answered(q, g) ==
  LET r == q.receipt
      s == g.receipt
  IN  /\ s.outcome = "succeeded" /\ s.output = "pending" /\ r.output # "pending"
      /\ r.authority = s.authority /\ r.dispatch = s.dispatch
      /\ r.acceptance = s.acceptance /\ r.outcome = s.outcome
      /\ r.settlement = s.settlement
      /\ s.dispatch = "submitted" /\ s.acceptance = "accepted" => has_resolved_effects(r)
      /\ \A n \in Nat : Below(s, SettlementSource, n) => Below(r, SettlementSource, n)

\* What the three ways to report the output have in common.
LEMMA OutputAnswers ==
  ASSUME NEW g \in Gate, NEW kind \in EvidenceKind, NEW p \in EvidenceRecord,
         p.source = ResultSinkObserver, g.receipt.outcome = "succeeded",
         g.receipt.output = "pending", NEW s \in Receipt,
         s.authority = g.receipt.authority, s.dispatch = g.receipt.dispatch,
         s.acceptance = g.receipt.acceptance, s.outcome = g.receipt.outcome,
         s.settlement = g.receipt.settlement,
         s.dispatched_at = g.receipt.dispatched_at,
         s.evidence = [g.receipt.evidence EXCEPT ![kind] = {p}],
         \/ s.output = "accepted"
         \/ /\ s.output = "not_delivered"
            /\ s.reason \in {{"sink_rejected"}, {"authority_revoked"}},
         NEW q, q = [g EXCEPT !.receipt = refresh_authority_disposition(s)]
  PROVE  Answered(q, g)
<1> DEFINE z == g.receipt
           r == q.receipt
<1>1. z \in Receipt
  BY DEF Gate
<1>2. \A k \in EvidenceKind : s.evidence[k] = IF k = kind THEN {p} ELSE z.evidence[k]
  BY <1>1 DEF Receipt
<1>3. r = refresh_authority_disposition(s)
  BY ReceiptChanged
<1> HIDE DEF r
<1>7. /\ r.authority = s.authority /\ r.dispatch = s.dispatch
      /\ r.acceptance = s.acceptance /\ r.outcome = s.outcome
      /\ r.settlement = s.settlement /\ r.output = s.output /\ r.reason = s.reason
      /\ r.dispatched_at = s.dispatched_at /\ r.evidence = s.evidence
  BY <1>3, RefreshIs
<1>4. /\ r.authority = z.authority /\ r.dispatch = z.dispatch
      /\ r.acceptance = z.acceptance /\ r.outcome = z.outcome
      /\ r.settlement = z.settlement /\ r.output = s.output /\ r.reason = s.reason
      /\ Extends(r, z, kind, p)
  BY <1>2, <1>7 DEF Extends
<1> HIDE DEF z
<1>5. z.dispatch = "submitted" /\ z.acceptance = "accepted" => has_resolved_effects(r)
  BY <1>4 DEF has_resolved_effects, z
<1>6. ASSUME NEW n \in Nat, Below(z, SettlementSource, n)
      PROVE  Below(r, SettlementSource, n)
  <2>1. p.source # SettlementSource /\ n <= n
    BY SourcesDiffer
  <2> QED BY <1>1, <1>4, <1>6, <2>1, BelowExtends
<1> QED BY <1>4, <1>5, <1>6 DEF Answered, r, z

\* The gate is told that the result is lost.
LEMMA LostAnswers ==
  ASSUME NEW g \in Gate, NEW a, NEW why \in {"sink_rejected", "authority_revoked"},
         NEW p \in EvidenceRecord, p.source = ResultSinkObserver,
         NEW e, e = [authority |-> a, reason |-> why, record |-> p],
         accepts_non_delivery(g, e), NEW q, q = observe_output_not_delivered(g, e)
  PROVE  Answered(q, g)
<1> DEFINE z == g.receipt
           kind == "non_delivery"
           s == [z EXCEPT !.output = "not_delivered", !.reason = {why},
                          !.evidence[kind] = {p}]
<1>1. z \in Receipt /\ kind \in EvidenceKind
  BY DEF Gate, EvidenceKind
<1>2. z.outcome = "succeeded" /\ z.output = "pending"
  BY DEF accepts_non_delivery, non_delivery_prerequisite
<1>3. q = [g EXCEPT !.receipt = refresh_authority_disposition(s)]
  BY DEF observe_output_not_delivered
<1>4. [z EXCEPT !.output = "not_delivered", !.reason = {why}] \in Receipt
  <2>1. {why} \in Optional(NonDeliveryReason)
    BY OptionalSome DEF NonDeliveryReason
  <2> QED BY <1>1, <2>1 DEF Receipt
<1>5. s \in Receipt
  BY <1>4, EvidenceType DEF EvidenceKind
<1>6. /\ s.authority = z.authority /\ s.dispatch = z.dispatch
      /\ s.acceptance = z.acceptance /\ s.outcome = z.outcome
      /\ s.settlement = z.settlement /\ s.dispatched_at = z.dispatched_at
      /\ s.evidence = [z.evidence EXCEPT ![kind] = {p}]
      /\ s.output = "not_delivered" /\ s.reason = {why}
  BY <1>1 DEF Receipt
<1> HIDE DEF s, kind
<1> QED BY <1>1, <1>2, <1>3, <1>5, <1>6, OutputAnswers

\* The gate is told that the sink took the result.
LEMMA AcceptedAnswers ==
  ASSUME NEW g \in Gate, NEW a, NEW p \in EvidenceRecord, p.source = ResultSinkObserver,
         NEW e, e = [authority |-> a, record |-> p],
         accepts_output(g, e), NEW q, q = observe_output_accepted(g, e)
  PROVE  Answered(q, g)
<1> DEFINE z == g.receipt
           kind == "output"
           s == [z EXCEPT !.output = "accepted", !.evidence[kind] = {p}]
<1>1. z \in Receipt /\ kind \in EvidenceKind
  BY DEF Gate, EvidenceKind
<1>2. z.outcome = "succeeded" /\ z.output = "pending"
  BY DEF accepts_output, can_deliver_result
<1>3. q = [g EXCEPT !.receipt = refresh_authority_disposition(s)]
  BY DEF observe_output_accepted
<1>4. [z EXCEPT !.output = "accepted"] \in Receipt
  BY <1>1 DEF Receipt
<1>5. s \in Receipt
  BY <1>4, EvidenceType DEF EvidenceKind
<1>6. /\ s.authority = z.authority /\ s.dispatch = z.dispatch
      /\ s.acceptance = z.acceptance /\ s.outcome = z.outcome
      /\ s.settlement = z.settlement /\ s.dispatched_at = z.dispatched_at
      /\ s.evidence = [z.evidence EXCEPT ![kind] = {p}]
      /\ s.output = "accepted"
  BY <1>1 DEF Receipt
<1> HIDE DEF s, kind
<1> QED BY <1>1, <1>2, <1>3, <1>5, <1>6, OutputAnswers

\* A result changes nothing, or it is the answer about the output.
LEMMA ResultAnswers ==
  ASSUME NEW g \in Gate, NEW t \in Time, NEW a, NEW ready, NEW q, q = ResultOn(g, a, ready, t)
  PROVE  q = g \/ Answered(q, g)
<1> DEFINE p == record(ResultSinkObserver, t, 1)
           e(why) == [authority |-> a, reason |-> why, record |-> p]
           lost(why) == observe_output_not_delivered(g, e(why))
           o == [authority |-> a, record |-> p]
           done == observe_output_accepted(g, o)
<1>1. q = lost("authority_revoked") \/ q = lost("sink_rejected") \/ q = done
  BY DEF ResultOn
<1>2. p \in EvidenceRecord /\ p.source = ResultSinkObserver
  BY RecordIs
<1> HIDE DEF p
<1>3. ASSUME NEW why \in {"sink_rejected", "authority_revoked"}
      PROVE  lost(why) = g \/ Answered(lost(why), g)
  <2>1. CASE accepts_non_delivery(g, e(why))
    <3> DEFINE e1 == e(why)
               q1 == lost(why)
    <3>1. e1 = [authority |-> a, reason |-> why, record |-> p]
          /\ q1 = observe_output_not_delivered(g, e1)
      OBVIOUS
    <3>2. accepts_non_delivery(g, e1)
      BY <2>1
    <3> HIDE DEF e1, q1, e, lost
    <3>3. Answered(q1, g)
      BY <1>2, <3>1, <3>2, LostAnswers
    <3> QED BY <3>3 DEF q1
  <2>2. CASE ~accepts_non_delivery(g, e(why))
    BY <2>2 DEF observe_output_not_delivered
  <2> QED BY <2>1, <2>2
<1>4. done = g \/ Answered(done, g)
  <2>1. CASE accepts_output(g, o)
    <3>1. o = [authority |-> a, record |-> p] /\ done = observe_output_accepted(g, o)
      OBVIOUS
    <3> HIDE DEF o, done
    <3> QED BY <1>2, <2>1, <3>1, AcceptedAnswers
  <2>2. CASE ~accepts_output(g, o)
    BY <2>2 DEF observe_output_accepted
  <2> QED BY <2>1, <2>2
<1> HIDE DEF lost, done
<1> QED BY <1>1, <1>3, <1>4

\* A result that the gate waits for is answered.
LEMMA ResultTaken ==
  ASSUME NEW g, NEW t \in Time, GateOK(g, t), InForce(g),
         NEW a, a = g.receipt.authority, has_receipt(g),
         can_deliver_result(g, a) => ~has_reached_deadline(g.receipt, t),
         NEW n \in Nat, Expects(g, "result", n), NEW m, m = n + 1,
         NEW ready, NEW q, q = ResultOn(g, a, ready, t)
  PROVE  Expects(q, "settled", m) /\ q.receipt.authority = a
<1> DEFINE z == g.receipt
           r == q.receipt
           p == record(ResultSinkObserver, t, 1)
<1>1. /\ g \in Gate /\ z \in Receipt /\ Timed(z, t) /\ Reliable(z) /\ t \in Nat
  BY TimeIs DEF GateOK, Gate
<1>2. /\ z.settlement = "pending" /\ Below(z, SettlementSource, n) /\ Succeeded(z)
      /\ z.dispatch = "submitted" /\ z.acceptance = "accepted" /\ z.outcome = "succeeded"
      /\ a.binding = g.binding
      /\ g.phase \in {"withdrawn", "preparing"} => is_revoked(z)
      /\ current_authority_matches(g, a)
  BY DEF Expects, Succeeded, InForce, Terminal, current_authority_matches
<1>3. CASE z.output # "pending"
  <2>1. ~can_deliver_result(g, a)
    BY <1>3 DEF can_deliver_result
  <2>2. q = g
    BY <1>3, <2>1 DEF ResultOn, observe_output_not_delivered, accepts_non_delivery
  <2>3. has_resolved_effects(z)
    BY <1>2, <1>3 DEF Succeeded
  <2>4. m \in Nat /\ n < m
    OBVIOUS
  <2>5. Below(z, SettlementSource, m)
    <3>1. \A k \in EvidenceKind : \A x \in z.evidence[k] : x.sequence \in Nat
      <4>1. \A k \in EvidenceKind : z.evidence[k] \subseteq EvidenceRecord
        BY <1>1 DEF Receipt, Optional
      <4>2. \A x \in EvidenceRecord : x.sequence \in Nat
        BY NumberAssumption DEF EvidenceRecord
      <4> QED BY <4>1, <4>2
    <3> QED BY <1>2, <2>4, <3>1 DEF Below
  <2> QED BY <1>2, <1>3, <2>2, <2>3, <2>5 DEF Expects, Terminal
<1>4. CASE z.output = "pending"
  <2>1. p \in EvidenceRecord /\ p.source = ResultSinkObserver /\ p.observed_at = t
        /\ p.sequence = 1
    <3>1. p.sequence = 1 /\ 1 \in 1..5
      BY DEF record
    <3> QED BY <3>1, RecordIs
  <2>2. PICK x \in z.evidence["succeeded"] : x.observed_at <= t
    BY <1>1, <1>2 DEF Reliable, Timed, EvidenceKind, NativeKind
  <2>3. Below(z, ResultSinkObserver, 1)
    BY <1>2, <1>4 DEF Succeeded
  <2>4. non_delivery_prerequisite(z, "authority_revoked") = z.evidence["succeeded"]
        /\ non_delivery_prerequisite(z, "sink_rejected") = z.evidence["succeeded"]
    BY <1>2 DEF non_delivery_prerequisite
  <2>5. /\ is_record_well_formed(p, ResultSinkObserver, {x.observed_at})
        /\ is_record_well_formed(p, ResultSinkObserver, {a.admitted_at})
        /\ follows_same_source_records(p, z)
    BY <1>1, <2>1, <2>2, <2>3 DEF is_record_well_formed, Timed, follows_same_source_records,
       Below
  <2> HIDE DEF p
  <2> DEFINE e(why) == [authority |-> a, reason |-> why, record |-> p]
             lost(why) == observe_output_not_delivered(g, e(why))
             o == [authority |-> a, record |-> p]
  <2>6. Answered(q, g)
    <3>1. CASE ~can_deliver_result(g, a)
      <4> DEFINE e1 == e("authority_revoked")
      <4>1. q = observe_output_not_delivered(g, e1)
        BY <3>1 DEF ResultOn, p
      <4>2. is_revoked(z)
        BY <1>2, <1>4, <3>1 DEF can_deliver_result
      <4>3. revocation_precedes(z, t)
        BY <1>1, <4>2 DEF revocation_precedes, is_revoked, Timed
      <4>4. accepts_non_delivery(g, e1)
        BY <1>2, <1>4, <2>1, <2>2, <2>4, <2>5, <4>3 DEF accepts_non_delivery
      <4> DEFINE why == "authority_revoked"
      <4>5. e1 = [authority |-> a, reason |-> why, record |-> p]
            /\ why \in {"sink_rejected", "authority_revoked"}
        OBVIOUS
      <4> HIDE DEF e1, why
      <4> QED BY <1>1, <2>1, <4>1, <4>4, <4>5, LostAnswers
    <3>2. CASE can_deliver_result(g, a) /\ ~ready
      <4> DEFINE e1 == e("sink_rejected")
      <4>1. q = observe_output_not_delivered(g, e1)
        BY <3>2 DEF ResultOn, p
      <4>4. accepts_non_delivery(g, e1)
        BY <1>2, <1>4, <2>1, <2>2, <2>4, <2>5 DEF accepts_non_delivery
      <4> DEFINE why == "sink_rejected"
      <4>5. e1 = [authority |-> a, reason |-> why, record |-> p]
            /\ why \in {"sink_rejected", "authority_revoked"}
        OBVIOUS
      <4> HIDE DEF e1, why
      <4> QED BY <1>1, <2>1, <4>1, <4>4, <4>5, LostAnswers
    <3>3. CASE can_deliver_result(g, a) /\ ready
      <4>1. q = observe_output_accepted(g, o)
        BY <3>3 DEF ResultOn, p
      <4>2. accepts_output(g, o)
        BY <2>1, <2>2, <2>5, <3>3 DEF accepts_output
      <4>3. o = [authority |-> a, record |-> p]
        OBVIOUS
      <4> HIDE DEF o
      <4> QED BY <1>1, <2>1, <4>1, <4>2, <4>3, AcceptedAnswers
    <3> QED BY <3>1, <3>2, <3>3
  <2>7. /\ r.settlement = "pending" /\ r.output # "pending" /\ has_resolved_effects(r)
        /\ Below(r, SettlementSource, n) /\ r.authority = a
    BY <1>2, <2>6 DEF Answered
  <2>8. Below(r, SettlementSource, m)
    <3>1. q \in Gate
      <4>1. lost("authority_revoked") \in Gate /\ lost("sink_rejected") \in Gate
        BY <1>1, <2>1, NonDeliveryType DEF NonDeliveryReason
      <4>2. observe_output_accepted(g, o) \in Gate
        BY <1>1, <2>1, OutputType
      <4> HIDE DEF lost, o
      <4> QED BY <4>1, <4>2 DEF ResultOn, lost, o, p
    <3>2. \A k \in EvidenceKind : \A y \in r.evidence[k] : y.sequence \in Nat
      <4>1. r \in Receipt
        BY <3>1 DEF Gate
      <4>2. \A k \in EvidenceKind : r.evidence[k] \subseteq EvidenceRecord
        BY <4>1 DEF Receipt, Optional
      <4>3. \A y \in EvidenceRecord : y.sequence \in Nat
        BY NumberAssumption DEF EvidenceRecord
      <4> QED BY <4>2, <4>3
    <3>3. m \in Nat /\ n < m
      OBVIOUS
    <3> QED BY <2>7, <3>2, <3>3 DEF Below
  <2> QED BY <2>7, <2>8 DEF Expects, Terminal
<1> QED BY <1>3, <1>4

\* The gate q waits for what g waits for, of the same operation.
Ahead(q, g) ==
  /\ q.receipt.authority = g.receipt.authority
  /\ q.receipt.settlement = g.receipt.settlement
  /\ \A kind \in EventKind, n \in 1..5 : Expects(g, kind, n) => Expects(q, kind, n)
  /\ \A e \in Event : Awaits(g, e) => Awaits(q, e)
  /\ IsReleased(g) => IsReleased(q)
  /\ InForce(g) => InForce(q)

LEMMA AheadOn ==
  ASSUME NEW g, NEW q, NEW p, Ahead(q, g), Ahead(p, q) PROVE Ahead(p, g)
BY DEF Ahead

\* A gate that was told nothing of the work waits for what it waited for.
LEMMA UndisturbedAhead ==
  ASSUME NEW g, NEW q, Undisturbed(q, g), InForce(g) => InForce(q),
         IsReleased(g) => q.receipt.disposition = "released"
  PROVE  Ahead(q, g)
<1>1. q.receipt.authority = g.receipt.authority
  BY DEF Undisturbed, Alike
<1>2. /\ \A kind, n : Expects(g, kind, n) => Expects(q, kind, n)
      /\ \A e : Awaits(g, e) => Awaits(q, e)
      /\ has_resolved_effects(g.receipt) => has_resolved_effects(q.receipt)
      /\ q.receipt.settlement = g.receipt.settlement
  BY UndisturbedAwaits
<1>3. IsReleased(g) => IsReleased(q)
  BY <1>2 DEF IsReleased, has_resolved_closure
<1> QED BY <1>1, <1>2, <1>3 DEF Ahead

LEMMA SameAhead == ASSUME NEW g PROVE Ahead(g, g)
BY DEF Ahead

\* The receipt is the same, and the binding is what it was, or not withdrawn.
LEMMA SameReceiptAhead ==
  ASSUME NEW g, NEW q, q.receipt = g.receipt, q.last_native = g.last_native,
         InForce(g) => InForce(q)
  PROVE  Ahead(q, g)
<1>1. Undisturbed(q, g)
  BY DEF Undisturbed, Alike
<1> QED BY <1>1, UndisturbedAhead DEF IsReleased

\* A report leaves the operation in force, if it was not settled.
LEMMA ReportedInForce ==
  ASSUME NEW g, NEW q, NEW t, OnlyReported(q, g, t), InForce(g),
         g.receipt.settlement = "pending"
  PROVE  InForce(q)
BY DEF OnlyReported, SameSubject, InForce, has_candidate, has_receipt, is_revoked

\* A report that does not settle leaves the binding and its revocation.
LEMMA StillInForce ==
  ASSUME NEW g, NEW q, NEW t, OnlyReported(q, g, t), InForce(g),
         q.receipt.settlement = g.receipt.settlement
  PROVE  InForce(q)
BY DEF OnlyReported, SameSubject, InForce, has_candidate, has_receipt, is_revoked

\* What a result changes of the gate.
LEMMA ResultReported ==
  ASSUME NEW g, NEW t \in Time, GateOK(g, t), NEW a, NEW ready,
         can_deliver_result(g, a) => ~has_reached_deadline(g.receipt, t),
         NEW q, q = ResultOn(g, a, ready, t)
  PROVE  OnlyReported(q, g, t)
<1> DEFINE p == record(ResultSinkObserver, t, 1)
           lost(why) == observe_output_not_delivered(g,
                          [authority |-> a, reason |-> why, record |-> p])
           done == observe_output_accepted(g, [authority |-> a, record |-> p])
<1>1. p \in EvidenceRecord /\ p.source = ResultSinkObserver /\ p.observed_at = t
      /\ p.sequence # 0 /\ t \in Nat /\ t <= t
  <2>1. 1 \in 1..5
    OBVIOUS
  <2> QED BY <2>1, RecordIs, TimeIs
<1>2. q = IF ~can_deliver_result(g, a) THEN lost("authority_revoked")
          ELSE IF ~ready THEN lost("sink_rejected") ELSE done
  BY DEF ResultOn
<1> HIDE DEF p
<1>3. ASSUME NEW why \in NonDeliveryReason PROVE OnlyReported(lost(why), g, t)
  BY <1>1, NonDeliveryReport
<1>4. can_deliver_result(g, a) => OnlyReported(done, g, t)
  BY <1>1, OutputReport
<1>5. "authority_revoked" \in NonDeliveryReason /\ "sink_rejected" \in NonDeliveryReason
  BY DEF NonDeliveryReason
<1> HIDE DEF lost, done
<1> QED BY <1>2, <1>3, <1>4, <1>5

\* A result that the gate does not wait for, or waits for, takes nothing from it.
LEMMA ResultAhead ==
  ASSUME NEW g, NEW t \in Time, GateOK(g, t), NEW a, NEW ready,
         can_deliver_result(g, a) => ~has_reached_deadline(g.receipt, t),
         NEW q, q = ResultOn(g, a, ready, t)
  PROVE  Ahead(q, g)
<1>1. CASE q = g
  BY <1>1, SameAhead
<1>2. CASE Answered(q, g)
  <2> DEFINE z == g.receipt
             r == q.receipt
  <2>1. InForce(g) => InForce(q)
    BY <1>2, ResultReported, StillInForce DEF Answered
  <2>2. ASSUME NEW kind \in EventKind, NEW n \in 1..5, Expects(g, kind, n)
        PROVE  kind = "result" /\ Expects(q, kind, n)
    <3>1. kind \notin {"not_submitted", "accepted", "rejected"}
      BY <1>2, <2>2 DEF Expects, Answered, Blank, Clean
    <3>2. kind \notin {"started"} \cup Terminal
      BY <1>2, <2>2 DEF Expects, Answered, Accepted, Clean
    <3>3. kind \notin {"no_output", "settled"}
      BY <1>2, <2>2 DEF Expects, Answered, Barren
    <3>4. kind = "result"
      BY <3>1, <3>2, <3>3 DEF EventKind, NativeKind, Terminal
    <3>5. n \in Nat /\ Succeeded(z) /\ Below(z, SettlementSource, n)
          /\ z.settlement = "pending" /\ z.dispatch = "submitted"
          /\ z.acceptance = "accepted"
      BY <2>2, <3>4 DEF Expects, Succeeded
    <3>6. Succeeded(r) /\ Below(r, SettlementSource, n) /\ r.settlement = "pending"
      BY <1>2, <3>5 DEF Answered, Succeeded
    <3> QED BY <3>4, <3>6 DEF Expects, Terminal
  <2>3. ASSUME NEW e \in Event, Awaits(g, e)
        PROVE  Awaits(q, e)
    <3>1. e.kind \in EventKind /\ e.sequence \in 1..5
      BY DEF Event
    <3> QED BY <2>2, <2>3, <3>1 DEF Awaits
  <2>4. ~IsReleased(g)
    BY <1>2 DEF Answered, IsReleased, has_resolved_closure, has_resolved_effects
  <2> QED BY <1>2, <2>1, <2>2, <2>3, <2>4 DEF Ahead, Answered
<1> QED BY <1>1, <1>2, ResultAnswers DEF GateOK

\* The gate takes no report of another operation.
LEMMA OtherIgnored ==
  ASSUME NEW g, NEW e \in Event, e.authority # g.receipt.authority
  PROVE  /\ e.kind \notin {"result", "settled"} => report_evidence(g, e) = g
         /\ \A permits, p : observe_settlement(g,
              [authority |-> e.authority, permits_same_domain_admission |-> permits,
               record |-> p]) = g
<1>1. e.kind \in NativeKind \cup {"not_submitted", "no_output", "result", "settled"}
  BY DEF Event, EventKind
<1> QED BY <1>1 DEF report_evidence, observe_non_submission, accepts_non_submission,
         observe_output_not_delivered, accepts_non_delivery, observe_native,
         accepts_native, current_authority_matches, observe_settlement, accepts_settlement

\* What comes next after an event.
LEMMA FollowerIs ==
  ASSUME NEW e, NEW f, Precedes(e, f)
  PROVE  /\ e.observed_at <= f.observed_at
         /\ e.kind = "not_submitted" =>
              e.sequence = 1 /\ f.kind = "no_output" /\ f.sequence = 2
         /\ e.kind = "no_output" => f.kind = "settled" /\ f.sequence = e.sequence + 1
         /\ e.kind = "rejected" =>
              e.sequence = 1 /\ f.kind = "no_output" /\ f.sequence = 1
         /\ e.kind = "accepted" =>
              e.sequence = 1 /\ f.sequence = 2 /\ f.kind \in {"started", "cancelled"}
         /\ e.kind = "started" =>
              e.sequence = 2 /\ f.sequence = 3 /\ f.kind \in {"failed", "succeeded"}
         /\ e.kind \in {"failed", "cancelled"} => f.kind = "no_output" /\ f.sequence = 1
         /\ e.kind = "succeeded" => f.kind = "result" /\ f.sequence = 4
         /\ e.kind = "result" =>
              e.sequence = 4 /\ f.kind = "settled" /\ f.sequence = 5
         /\ e.kind # "settled"
BY DEF Precedes, Successor

\* The gate takes an event it waits for, and waits for what comes next.
LEMMA HeadTaken ==
  ASSUME NEW g, NEW t, GateOK(g, t), InForce(g), has_receipt(g),
         NEW e \in Event, e.authority = g.receipt.authority, e.observed_at <= t,
         e.kind \notin {"result", "settled"}, Awaits(g, e),
         NEW f \in Event, Precedes(e, f), NEW q, q = report_evidence(g, e)
  PROVE  Awaits(q, f)
<1> DEFINE a == g.receipt.authority
           settled == record(SettlementSource, e.observed_at, e.sequence)
           native == record(NativeSource, e.observed_at, e.sequence)
<1>1. /\ g \in Gate /\ g.receipt \in Receipt /\ Reliable(g.receipt)
  BY DEF GateOK, Gate
<1>2. /\ e.observed_at \in Time /\ f.observed_at \in Time /\ e.sequence \in 1..5
      /\ e.observed_at <= f.observed_at
      /\ a \in Issued /\ a.operation_id \in NativeIdentity
      /\ e.kind \in NativeKind \/ e.kind \in {"not_submitted", "no_output"}
      /\ NativeKind \cap {"not_submitted", "no_output"} = {}
  <2>1. e.observed_at \in Time /\ f.observed_at \in Time /\ e.sequence \in 1..5
        /\ e.authority \in Issued /\ e.kind \in EventKind
    BY DEF Event
  <2>2. e.observed_at <= f.observed_at
    BY FollowerIs
  <2>3. \A b \in Issued : b.operation_id \in NativeIdentity
    BY HostAssumption DEF Issued, Authority
  <2> QED BY <2>1, <2>2, <2>3 DEF EventKind, NativeKind
<1>3. /\ settled \in EvidenceRecord /\ settled.observed_at = e.observed_at
      /\ settled.source = SettlementSource /\ settled.sequence = e.sequence
      /\ native \in EvidenceRecord /\ native.observed_at = e.observed_at
      /\ native.source = NativeSource /\ native.sequence = e.sequence
      /\ e.sequence # 0
  <2>1. settled.sequence = e.sequence /\ native.sequence = e.sequence
    BY DEF record
  <2> QED BY <1>2, <2>1, RecordIs
<1>4. /\ Expects(g, e.kind, e.sequence) /\ Until(g.receipt, e.observed_at)
      /\ g.receipt.settlement = "pending" /\ current_authority_matches(g, a)
  BY DEF Awaits, Expects, InForce, current_authority_matches
<1>5. q.receipt \in Receipt
  <2>1. OnlyReported(q, g, t)
    BY EvidenceReported
  <2> QED BY <2>1 DEF OnlyReported, GateOK, Gate
<1> HIDE DEF settled, native, a
<1>6. SUFFICES /\ Expects(q, f.kind, f.sequence)
               /\ f.kind # "settled" /\ f.kind # "result" => Until(q.receipt, e.observed_at)
  BY <1>2, <1>5, UntilLater DEF Awaits
<1>7. CASE e.kind = "not_submitted"
  <2>1. /\ e.sequence = 1 /\ f.kind = "no_output" /\ f.sequence = 2
    BY <1>7, FollowerIs
  <2>2. q = observe_non_submission(g, [authority |-> a, record |-> settled])
    BY <1>2, <1>7 DEF report_evidence, settled, a
  <2>3. Expects(g, "not_submitted", 1)
    BY <1>4, <1>7, <2>1
  <2>4. settled.sequence = 1 /\ Until(g.receipt, settled.observed_at)
        /\ a = g.receipt.authority
    BY <1>3, <1>4, <2>1 DEF a
  <2>5. Expects(q, "no_output", 2) /\ Until(q.receipt, settled.observed_at)
    BY <1>1, <1>3, <1>4, <2>2, <2>3, <2>4, NonSubmissionTaken
  <2> QED BY <1>3, <2>1, <2>5
<1>8. CASE e.kind = "no_output"
  <2>1. f.kind = "settled" /\ f.sequence = e.sequence + 1
    BY <1>8, FollowerIs
  <2>2. q = observe_output_not_delivered(g,
              [authority |-> a, reason |-> "no_output", record |-> settled])
    BY <1>2, <1>8 DEF report_evidence, settled, a
  <2>3. Expects(g, "no_output", settled.sequence) /\ settled.sequence # 0
        /\ Until(g.receipt, settled.observed_at) /\ a = g.receipt.authority
    BY <1>3, <1>4, <1>8 DEF a
  <2>4. Expects(q, "settled", settled.sequence + 1)
    BY <1>1, <1>3, <1>4, <2>2, <2>3, NoOutputTaken
  <2> QED BY <1>3, <2>1, <2>4
<1>9. CASE e.kind \in NativeKind
  <2> DEFINE id == a.operation_id
             k == e.kind
  <2>1. q = observe_native(g, [authority |-> a, kind |-> k, native_identity |-> id,
                               record |-> native])
    BY <1>2, <1>9 DEF report_evidence, native, a
  <2>2. id \in NativeIdentity /\ id = a.operation_id /\ a = g.receipt.authority
        /\ Until(g.receipt, native.observed_at)
    BY <1>2, <1>3, <1>4 DEF a
  <2>3. CASE k \in {"accepted", "rejected"}
    <3>1. e.sequence = 1
      BY <2>3, FollowerIs
    <3>2. native.sequence = 1 /\ Expects(g, k, 1)
      BY <1>3, <1>4, <3>1
    <3> HIDE DEF k, id
    <3>3. /\ Until(q.receipt, native.observed_at)
          /\ k = "accepted" => Expects(q, "started", 2) /\ Expects(q, "cancelled", 2)
          /\ k = "rejected" => Expects(q, "no_output", 1)
      BY <1>1, <1>3, <1>4, <2>1, <2>2, <2>3, <3>2, FirstNativeTaken
    <3>4. CASE k = "accepted"
      <4>1. f.sequence = 2 /\ f.kind \in {"started", "cancelled"}
        BY <3>4, FollowerIs DEF k
      <4> QED BY <1>3, <3>3, <3>4, <4>1
    <3>5. CASE k = "rejected"
      <4>1. f.kind = "no_output" /\ f.sequence = 1
        BY <3>5, FollowerIs DEF k
      <4> QED BY <1>3, <3>3, <3>5, <4>1
    <3> QED BY <2>3, <3>4, <3>5
  <2>4. CASE k \in {"started"} \cup Terminal
    <3>1. k = "started" => native.sequence = 2
      BY <1>3, FollowerIs
    <3>2. native.sequence # 0 /\ Expects(g, k, native.sequence)
      BY <1>3, <1>4
    <3> HIDE DEF k, id
    <3>3. /\ Until(q.receipt, native.observed_at)
          /\ k = "started" => Expects(q, "failed", 3) /\ Expects(q, "succeeded", 3)
          /\ k \in {"failed", "cancelled"} => Expects(q, "no_output", 1)
          /\ k = "succeeded" => Expects(q, "result", 4)
      BY <1>1, <1>3, <1>4, <2>1, <2>2, <2>4, <3>1, <3>2, NextNativeTaken
    <3>4. CASE k = "started"
      <4>1. f.sequence = 3 /\ f.kind \in {"failed", "succeeded"}
        BY <3>4, FollowerIs DEF k
      <4> QED BY <1>3, <3>3, <3>4, <4>1
    <3>5. CASE k \in {"failed", "cancelled"}
      <4>1. f.kind = "no_output" /\ f.sequence = 1
        BY <3>5, FollowerIs DEF k
      <4> QED BY <1>3, <3>3, <3>5, <4>1
    <3>6. CASE k = "succeeded"
      <4>1. f.kind = "result" /\ f.sequence = 4
        BY <3>6, FollowerIs DEF k
      <4> QED BY <1>3, <3>3, <3>6, <4>1
    <3> QED BY <2>4, <3>4, <3>5, <3>6 DEF Terminal
  <2> QED BY <1>9, <2>3, <2>4 DEF NativeKind, Terminal
<1> QED BY <1>2, <1>7, <1>8, <1>9

\* That the work was accepted is taken, and the end of the work may come.
LEMMA AcceptanceTaken ==
  ASSUME NEW g, NEW t, GateOK(g, t), InForce(g), has_receipt(g),
         NEW e \in Event, e.authority = g.receipt.authority, e.observed_at <= t,
         e.kind = "accepted", e.sequence = 1, Awaits(g, e),
         NEW q, q = report_evidence(g, e)
  PROVE  Expects(q, "started", 2)
<1> DEFINE k == "started"
           n == 2
           f == [kind |-> k, authority |-> e.authority, sequence |-> n,
                 observed_at |-> e.observed_at]
<1>1. f \in Event /\ f.kind = k /\ f.sequence = n
  BY DEF Event, EventKind, NativeKind
<1>2. e.observed_at <= e.observed_at
  BY TimeIs DEF Event
<1>3. Precedes(e, f)
  BY <1>2 DEF Precedes, Successor
<1> HIDE DEF f
<1>4. Awaits(q, f)
  BY <1>1, <1>3, HeadTaken
<1> QED BY <1>1, <1>4 DEF Awaits

\* A revocation changes nothing of what was reported.
LEMMA RevokeAlike ==
  ASSUME NEW s \in Receipt, NEW t \in Time, NEW p \in Receipt,
         p.authority = s.authority, p.dispatch = s.dispatch,
         p.acceptance = s.acceptance, p.outcome = s.outcome, p.output = s.output,
         p.reason = s.reason, p.settlement = s.settlement,
         p.dispatched_at = s.dispatched_at, p.native_identity = s.native_identity,
         p.evidence = s.evidence,
         NEW r, r = revoke(p, t)
  PROVE  Alike(r, s)
<1> DEFINE asked == [p EXCEPT !.stop_requested_at = {t}, !.stop_acknowledgement = "pending"]
           x == IF should_request_native_stop(p) THEN asked ELSE p
<1>1. r = refresh_authority_disposition(x)
  BY DEF revoke
<1>2. {t} \in Optional(Time)
  BY OptionalSome
<1>3. /\ asked \in Receipt /\ asked.authority = p.authority /\ asked.dispatch = p.dispatch
      /\ asked.acceptance = p.acceptance /\ asked.outcome = p.outcome
      /\ asked.output = p.output /\ asked.reason = p.reason
      /\ asked.settlement = p.settlement /\ asked.dispatched_at = p.dispatched_at
      /\ asked.native_identity = p.native_identity /\ asked.evidence = p.evidence
  BY <1>2 DEF Receipt
<1> HIDE DEF asked
<1>4. /\ x \in Receipt /\ x.authority = s.authority /\ x.dispatch = s.dispatch
      /\ x.acceptance = s.acceptance /\ x.outcome = s.outcome
      /\ x.output = s.output /\ x.reason = s.reason
      /\ x.settlement = s.settlement /\ x.dispatched_at = s.dispatched_at
      /\ x.native_identity = s.native_identity /\ x.evidence = s.evidence
  BY <1>3
<1> HIDE DEF x
<1>5. /\ r.authority = x.authority /\ r.dispatch = x.dispatch
      /\ r.acceptance = x.acceptance /\ r.outcome = x.outcome
      /\ r.output = x.output /\ r.reason = x.reason /\ r.settlement = x.settlement
      /\ r.dispatched_at = x.dispatched_at /\ r.native_identity = x.native_identity
      /\ r.evidence = x.evidence
  BY <1>1, <1>4, RefreshIs
<1> QED BY <1>4, <1>5 DEF Alike

\* A revoked operation is the one it was.
LEMMA RevokedAhead ==
  ASSUME NEW g, NEW q, Undisturbed(q, g), ~IsReleased(g), is_revoked(q.receipt),
         q.binding = g.binding, q.receipt.authority = g.receipt.authority,
         has_candidate(q) => has_candidate(g) /\ q.phase = g.phase
  PROVE  Ahead(q, g)
<1>1. q.receipt.settlement = g.receipt.settlement
  BY DEF Undisturbed, Alike
<1>2. InForce(g) => InForce(q)
  BY <1>1 DEF InForce, has_receipt
<1> QED BY <1>2, UndisturbedAhead

\* The deadline revokes, and nothing else.
LEMMA ExpiryAhead ==
  ASSUME NEW t \in Time, NEW g, GateOK(g, t), NEW a, applies_expiry(g, a, t),
         NEW q, q = observe_time(g, a, t)
  PROVE  Ahead(q, g)
<1> DEFINE z == g.receipt
           p == [z EXCEPT !.expired_at = {t}]
           r == revoke(p, t)
<1>1. g \in Gate /\ z \in Receipt
  BY DEF GateOK, Gate
<1>2. {t} \in Optional(Time)
  BY OptionalSome
<1>3. /\ p \in Receipt /\ p.authority = z.authority /\ p.dispatch = z.dispatch
      /\ p.acceptance = z.acceptance /\ p.outcome = z.outcome
      /\ p.output = z.output /\ p.reason = z.reason
      /\ p.settlement = z.settlement /\ p.dispatched_at = z.dispatched_at
      /\ p.native_identity = z.native_identity /\ p.evidence = z.evidence
  BY <1>1, <1>2 DEF Receipt
<1>4. q = [g EXCEPT !.receipt = r]
  BY DEF observe_time
<1> HIDE DEF p, r
<1>5. q.receipt = r /\ q.last_native = g.last_native
  BY <1>1, <1>4 DEF Gate
<1> HIDE DEF z
<1>6. Alike(r, z)
  BY <1>1, <1>3, RevokeAlike DEF r
<1>7. /\ Revoked(q, g, t) /\ q.phase = g.phase /\ q.candidate = g.candidate
  BY ExpiryRevokes
<1>8. ~IsReleased(g)
  BY DEF applies_expiry, is_controllable, IsReleased
<1>9. Undisturbed(q, g)
  BY <1>5, <1>6 DEF Undisturbed, z
<1> QED BY <1>7, <1>8, <1>9, RevokedAhead DEF Revoked, has_candidate

\* So does the caller.
LEMMA CancelAhead ==
  ASSUME NEW t \in Time, NEW g, GateOK(g, t), NEW a, applies_cancel(g, a, t),
         NEW q, q = request_cancel(g, a, t)
  PROVE  Ahead(q, g)
<1> DEFINE z == g.receipt
           p == [z EXCEPT !.cancelled_at = {t}]
           r == revoke(p, t)
<1>1. g \in Gate /\ z \in Receipt
  BY DEF GateOK, Gate
<1>2. {t} \in Optional(Time)
  BY OptionalSome
<1>3. /\ p \in Receipt /\ p.authority = z.authority /\ p.dispatch = z.dispatch
      /\ p.acceptance = z.acceptance /\ p.outcome = z.outcome
      /\ p.output = z.output /\ p.reason = z.reason
      /\ p.settlement = z.settlement /\ p.dispatched_at = z.dispatched_at
      /\ p.native_identity = z.native_identity /\ p.evidence = z.evidence
  BY <1>1, <1>2 DEF Receipt
<1>4. q = [g EXCEPT !.receipt = r]
  BY DEF request_cancel
<1> HIDE DEF p, r
<1>5. q.receipt = r /\ q.last_native = g.last_native
  BY <1>1, <1>4 DEF Gate
<1> HIDE DEF z
<1>6. Alike(r, z)
  BY <1>1, <1>3, RevokeAlike DEF r
<1>7. /\ Revoked(q, g, t) /\ q.phase = g.phase /\ q.candidate = g.candidate
  BY CancelRevokes
<1>8. ~IsReleased(g)
  BY DEF applies_cancel, is_controllable, IsReleased
<1>9. Undisturbed(q, g)
  BY <1>5, <1>6 DEF Undisturbed, z
<1> QED BY <1>7, <1>8, <1>9, RevokedAhead DEF Revoked, has_candidate

\* So does a withdrawal, of the binding or of a candidate.
LEMMA WithdrawAhead ==
  ASSUME NEW t \in Time, NEW g, GateOK(g, t), NEW b, withdraws_binding(g, b, t),
         NEW q, q = withdraw_binding(g, b, t)
  PROVE  Ahead(q, g)
<1> DEFINE z == g.receipt
           p == [z EXCEPT !.withdrawn_at = {t}]
           r == revoke(p, t)
           w == IF withdraws_current(g) THEN r ELSE z
           at == IF has_candidate(g) THEN g.withdrawn_at ELSE {t}
<1>1. g \in Gate /\ z \in Receipt
  BY DEF GateOK, Gate
<1>2. {t} \in Optional(Time)
  BY OptionalSome
<1>3. /\ p \in Receipt /\ p.authority = z.authority /\ p.dispatch = z.dispatch
      /\ p.acceptance = z.acceptance /\ p.outcome = z.outcome
      /\ p.output = z.output /\ p.reason = z.reason
      /\ p.settlement = z.settlement /\ p.dispatched_at = z.dispatched_at
      /\ p.native_identity = z.native_identity /\ p.evidence = z.evidence
  BY <1>1, <1>2 DEF Receipt
<1>4. q = [g EXCEPT !.last_binding_control_at = t, !.init = "recovery_required",
                    !.phase = "withdrawn", !.candidate = NoCandidate,
                    !.withdrawn_at = at, !.receipt = w]
  BY DEF withdraw_binding
<1> HIDE DEF p, r, w, at
<1>5. /\ q.receipt = w /\ q.last_native = g.last_native /\ q.candidate = NoCandidate
      /\ q.phase = "withdrawn" /\ q.binding = g.binding
  BY <1>1, <1>4 DEF Gate
<1>6. ~has_candidate(q)
  BY <1>5, BindingAssumption DEF has_candidate, NoCandidate, new_candidate, NoBinding
<1> HIDE DEF z
<1>7. CASE withdraws_current(g)
  <2>1. Alike(r, z) /\ q.receipt = r
    BY <1>1, <1>3, <1>5, <1>7, RevokeAlike DEF r, w
  <2>2. Revoked(q, g, t)
    BY <1>7, WithdrawRevokes
  <2>3. ~IsReleased(g)
    BY <1>7 DEF withdraws_current, current_is_releasable, IsReleased,
       current_authority_matches
  <2>4. Undisturbed(q, g)
    BY <1>5, <2>1 DEF Undisturbed, z
  <2> QED BY <1>6, <2>2, <2>3, <2>4, RevokedAhead DEF Revoked
<1>8. CASE ~withdraws_current(g)
  <2>1. q.receipt = g.receipt
    BY <1>5, <1>8 DEF w, z
  <2>2. ASSUME InForce(g) PROVE InForce(q)
    <3> SUFFICES ASSUME has_receipt(g), g.receipt.settlement = "pending"
                 PROVE  /\ g.receipt.authority.binding = g.binding
                        /\ is_revoked(g.receipt)
      BY <1>5, <1>6, <2>1 DEF InForce, has_receipt
    <3>1. g.receipt.authority.binding = g.binding
      BY <2>2 DEF InForce
    <3>2. has_candidate(g)
      BY <1>8, <3>1 DEF withdraws_current, current_authority_matches,
         current_is_releasable, has_resolved_closure
    <3> QED BY <2>2, <3>1, <3>2 DEF InForce
  <2> QED BY <1>5, <2>1, <2>2, SameReceiptAhead
<1> QED BY <1>7, <1>8

\* An answer to a stop request says nothing of the work.
LEMMA StopAhead ==
  ASSUME NEW t, NEW g, GateOK(g, t), NEW a, NEW k \in StopResponse,
         NEW p \in EvidenceRecord, p.observed_at <= t, p.source = StopSource,
         NEW q, q = observe_stop_acknowledgement(g,
                      [authority |-> a, acknowledgement |-> k, record |-> p])
  PROVE  Ahead(q, g)
<1> DEFINE e == [authority |-> a, acknowledgement |-> k, record |-> p]
           z == g.receipt
           kind == "stop"
           s == [z EXCEPT !.stop_acknowledgement = k, !.evidence[kind] = {p}]
<1>1. g \in Gate /\ z \in Receipt
  BY DEF GateOK, Gate
<1>2. CASE ~accepts_stop_acknowledgement(g, e)
  BY <1>2, SameAhead DEF observe_stop_acknowledgement
<1>3. CASE accepts_stop_acknowledgement(g, e)
  <2>1. q = [g EXCEPT !.receipt = s]
    BY <1>3 DEF observe_stop_acknowledgement
  <2>2. /\ s.authority = z.authority /\ s.dispatch = z.dispatch
        /\ s.acceptance = z.acceptance /\ s.outcome = z.outcome
        /\ s.output = z.output /\ s.reason = z.reason
        /\ s.settlement = z.settlement /\ s.dispatched_at = z.dispatched_at
        /\ s.native_identity = z.native_identity /\ s.disposition = z.disposition
        /\ s.evidence = [z.evidence EXCEPT ![kind] = {p}]
    BY <1>1 DEF Receipt
  <2>3. z.evidence \in [EvidenceKind -> Optional(EvidenceRecord)] /\ kind \in EvidenceKind
    BY <1>1 DEF Receipt, EvidenceKind
  <2> HIDE DEF s, z
  <2>4. q.receipt = s /\ q.last_native = g.last_native
    BY <1>1, <2>1 DEF Gate
  <2>5. /\ \A j \in EvidenceKind \ {"stop"} : s.evidence[j] = z.evidence[j]
        /\ s.evidence["stop"] = {p}
    BY <2>2, <2>3
  <2>6. Alike(s, z)
    BY <2>2, <2>5 DEF Alike
  <2>7. Undisturbed(q, g)
    BY <2>4, <2>6 DEF Undisturbed, z
  <2>8. OnlyReported(q, g, t)
    BY StopReport
  <2>9. InForce(g) => InForce(q)
    BY <2>2, <2>4, <2>8, StillInForce DEF z
  <2> QED BY <2>2, <2>4, <2>7, <2>9, UndisturbedAhead DEF IsReleased, z
<1> QED BY <1>2, <1>3

\* The calls about the binding say nothing of the operation.
LEMMA StartupAhead ==
  ASSUME NEW g \in Gate, NEW e, NEW q, q = observe_startup(g, e)
  PROVE  Ahead(q, g)
<1>1. /\ q.receipt = g.receipt /\ q.last_native = g.last_native /\ q.phase = g.phase
      /\ q.binding = g.binding /\ q.candidate = g.candidate
  BY DEF observe_startup, Gate
<1> QED BY <1>1, SameReceiptAhead DEF InForce, has_candidate, has_receipt

LEMMA ReadinessAhead ==
  ASSUME NEW g \in Gate, NEW e, NEW q, q = observe_rebind_readiness(g, e)
  PROVE  Ahead(q, g)
<1>1. /\ q.receipt = g.receipt /\ q.last_native = g.last_native /\ q.phase = g.phase
      /\ q.binding = g.binding /\ q.candidate.binding = g.candidate.binding
  BY DEF observe_rebind_readiness, Gate, Candidate
<1> QED BY <1>1, SameReceiptAhead DEF InForce, has_candidate, has_receipt

LEMMA BeginAhead ==
  ASSUME NEW g \in Gate, NEW b, NEW p, NEW e, NEW t, NEW q, q = begin_rebind(g, b, p, e, t)
  PROVE  Ahead(q, g)
<1>1. CASE ~begins_rebind(g, b, e, t)
  BY <1>1, SameAhead DEF begin_rebind
<1>2. CASE begins_rebind(g, b, e, t)
  <2>1. /\ q.receipt = g.receipt /\ q.last_native = g.last_native
        /\ q.phase = "preparing" /\ q.binding = g.binding
    BY <1>2 DEF begin_rebind, Gate
  <2>2. has_receipt(g) => g.receipt.settlement # "pending"
    BY <1>2 DEF begins_rebind, old_work_closed, current_is_releasable,
       has_resolved_closure
  <2> QED BY <2>1, <2>2, SameReceiptAhead DEF InForce, has_receipt
<1> QED BY <1>1, <1>2

LEMMA CommitAhead ==
  ASSUME NEW g \in Gate, NEW b, NEW t, NEW q, q = commit_rebind(g, b, t)
  PROVE  Ahead(q, g)
<1>1. CASE ~commits_rebind(g, b, t)
  BY <1>1, SameAhead DEF commit_rebind
<1>2. CASE commits_rebind(g, b, t)
  <2>1. /\ q.receipt = g.receipt /\ q.last_native = g.last_native
        /\ q.phase = "active" /\ q.candidate = NoCandidate
    BY <1>2 DEF commit_rebind, Gate
  <2>2. has_receipt(g) => g.receipt.settlement # "pending"
    BY <1>2 DEF commits_rebind, can_commit, old_work_closed, current_is_releasable,
       has_resolved_closure
  <2>3. ~has_candidate(q)
    BY <2>1, BindingAssumption DEF has_candidate, NoCandidate, new_candidate, NoBinding
  <2> QED BY <2>1, <2>2, <2>3, SameReceiptAhead DEF InForce, has_receipt
<1> QED BY <1>1, <1>2

LEMMA CloseAhead ==
  ASSUME NEW g \in Gate, NEW q, q = close_admission(g) PROVE Ahead(q, g)
<1>1. /\ q.receipt = g.receipt /\ q.last_native = g.last_native /\ q.phase = "closed"
      /\ q.binding = g.binding /\ q.candidate = NoCandidate
  BY DEF close_admission, Gate
<1>2. ~has_candidate(q)
  BY <1>1, BindingAssumption DEF has_candidate, NoCandidate, new_candidate, NoBinding
<1> QED BY <1>1, <1>2, SameReceiptAhead DEF InForce, has_receipt

\* The request is dispatched: that the work is accepted, or rejected, comes next.
LEMMA ClaimTaken ==
  ASSUME NEW t \in Time, NEW g, GateOK(g, t), InForce(g), NEW a, claims_dispatch(g, a, t),
         Expects(g, "not_submitted", 1), NEW q, q = claim_dispatch(g, a, t)
  PROVE  /\ InForce(q) /\ q.receipt.authority = g.receipt.authority
         /\ Expects(q, "accepted", 1) /\ Expects(q, "rejected", 1)
<1> DEFINE z == g.receipt
           r == q.receipt
<1>1. g \in Gate /\ z \in Receipt
  BY DEF GateOK, Gate
<1>2. q = [g EXCEPT !.receipt.dispatch = "submitted", !.receipt.dispatched_at = {t}]
  BY DEF claim_dispatch
<1>3. /\ r.authority = z.authority /\ r.dispatch = "submitted"
      /\ r.acceptance = z.acceptance /\ r.outcome = z.outcome /\ r.output = z.output
      /\ r.settlement = z.settlement /\ r.native_identity = z.native_identity
      /\ r.evidence = z.evidence /\ q.last_native = g.last_native
  <2> DEFINE s == [z EXCEPT !.dispatch = "submitted", !.dispatched_at = {t}]
  <2>1. r = s /\ q.last_native = g.last_native
    BY <1>1, <1>2 DEF Gate
  <2>2. /\ s.authority = z.authority /\ s.dispatch = "submitted"
        /\ s.acceptance = z.acceptance /\ s.outcome = z.outcome /\ s.output = z.output
        /\ s.settlement = z.settlement /\ s.native_identity = z.native_identity
        /\ s.evidence = z.evidence
    BY <1>1 DEF Receipt
  <2> HIDE DEF s, r, z
  <2> QED BY <2>1, <2>2
<1>4. OnlyReported(q, g, t)
  BY DispatchClaim
<1> HIDE DEF z, r
<1>5. Blank(g) /\ z.settlement = "pending"
  BY DEF Expects, z
<1>6. Blank(q) /\ r.settlement = "pending"
  BY <1>3, <1>5 DEF Blank, Clean, Below, z, r
<1>7. InForce(q)
  BY <1>3, <1>4, StillInForce DEF z, r
<1> QED BY <1>3, <1>6, <1>7 DEF Expects, Terminal, z, r

\* A request that is admitted is one the gate waits to hear of.
LEMMA AdmissionTaken ==
  ASSUME NEW t \in Time, NEW g, GateOK(g, t), InForce(g), NEW d \in Optional(Time),
         NEW x \in Optional(Requirements),
         NEW e, e = [requested_at |-> t, deadline |-> d, requirements |-> x],
         admits(g, e), NEW q, q = admit(g, e)
  PROVE  /\ InForce(q) /\ Expects(q, "not_submitted", 1)
         /\ has_receipt(g) => IsReleased(g)
<1> DEFINE authority == [operation_id |-> g.next_operation_id,
                         binding |-> g.binding, admitted_at |-> e.requested_at]
           r == q.receipt
<1>1. g \in Gate
  BY DEF GateOK
<1>2. q = [g EXCEPT !.next_operation_id = following_operation_id(@),
                    !.receipt = new_receipt(authority, e.deadline, e.requirements),
                    !.last_native = {}]
  BY DEF admit
<1>3. /\ r = new_receipt(authority, e.deadline, e.requirements) /\ q.last_native = {}
      /\ q.phase = g.phase /\ q.binding = g.binding /\ q.candidate = g.candidate
  BY <1>1, <1>2 DEF Gate
<1>4. /\ r.authority = authority /\ r.dispatch = "pending" /\ r.acceptance = "pending"
      /\ r.outcome = "pending" /\ r.output = "pending" /\ r.settlement = "pending"
      /\ r.native_identity = {} /\ r.evidence = [k \in EvidenceKind |-> {}]
  <2> HIDE DEF authority, r
  <2> QED BY <1>3 DEF new_receipt
<1>5. g.phase = "active" /\ authority.binding = g.binding
  BY DEF admits
<1> HIDE DEF r, authority
<1>6. InForce(q)
  BY <1>3, <1>4, <1>5 DEF InForce, has_candidate, r
<1>7. Blank(q)
  BY <1>3, <1>4 DEF Blank, Clean, Below, r
<1>8. has_receipt(g) => IsReleased(g)
  BY DEF admits, current_is_releasable, IsReleased
<1> QED BY <1>4, <1>6, <1>7, <1>8 DEF Expects, Terminal, r

\* What is left of the staged events.
LEMMA TailIs ==
  ASSUME NEW list \in Seq(Event), list # <<>>
  PROVE  /\ Tail(list) \in Seq(Event) /\ Len(list) \in Nat \ {0}
         /\ Len(Tail(list)) = Len(list) - 1 /\ Head(list) = list[1]
         /\ \A i \in 1..Len(list) - 1 : Tail(list)[i] = list[i + 1]
         /\ \A i \in 1..Len(list) : list[i] \in Event
OBVIOUS

\* The first event is taken out of a trail.
LEMMA TrailTail ==
  ASSUME NEW list \in Seq(Event), list # <<>>, NEW a, NEW b, Trail(list, a, b)
  PROVE  /\ b # 0 => /\ Trail(Tail(list), a, b - 1)
                     /\ list[1].authority = a => list[1].kind = "result"
         /\ b = 0 => /\ Trail(Tail(list), a, 0) /\ list[1].authority = a
                     /\ Len(list) # 1 => Precedes(list[1], list[2])
<1> DEFINE rest == Tail(list)
           n == Len(list)
<1>1. /\ n \in Nat \ {0} /\ Len(rest) = n - 1
      /\ \A i \in 1..n - 1 : rest[i] = list[i + 1]
  BY TailIs
<1> HIDE DEF rest, n
<1>2. /\ b \in 0..n
      /\ \A i \in 1..b : list[i].authority = a => list[i].kind = "result"
      /\ \A i \in b + 1..n : list[i].authority = a
      /\ \A i \in b + 1..n - 1 : Precedes(list[i], list[i + 1])
  BY DEF Trail, n
<1>3. CASE b # 0
  <2> DEFINE c == b - 1
  <2>1. c \in 0..n - 1 /\ c + 1 = b /\ 1 \in 1..b
    BY <1>1, <1>2, <1>3
  <2>2. \A i \in 1..c : i \in 1..n - 1 /\ i + 1 \in 1..b
    BY <1>1, <1>2, <2>1
  <2>3. \A i \in c + 1..n - 1 : i \in 1..n - 1 /\ i + 1 \in b + 1..n
    BY <1>1, <1>2, <2>1
  <2>4. \A i \in c + 1..n - 1 - 1 :
          i \in 1..n - 1 /\ i + 1 \in 1..n - 1 /\ i + 1 \in b + 1..n - 1
    BY <1>1, <1>2, <2>1
  <2> HIDE DEF c
  <2>5. \A i \in 1..c : rest[i].authority = a => rest[i].kind = "result"
    BY <1>1, <1>2, <2>2
  <2>6. \A i \in c + 1..n - 1 : rest[i].authority = a
    BY <1>1, <1>2, <2>3
  <2>7. \A i \in c + 1..n - 1 - 1 : Precedes(rest[i], rest[i + 1])
    BY <1>1, <1>2, <2>4
  <2>8. Trail(rest, a, c)
    BY <1>1, <2>1, <2>5, <2>6, <2>7 DEF Trail
  <2> QED BY <1>2, <1>3, <2>1, <2>8 DEF c, rest
<1>4. CASE b = 0
  <2>1. /\ \A i \in 1..n : list[i].authority = a
        /\ \A i \in 1..n - 1 : Precedes(list[i], list[i + 1])
    BY <1>2, <1>4
  <2>2. \A i \in 1..n - 1 : i + 1 \in 1..n
    BY <1>1
  <2>3. \A i \in 1..n - 1 - 1 : i \in 1..n - 1 /\ i + 1 \in 1..n - 1
    BY <1>1
  <2>4. \A i \in 1..n - 1 : rest[i].authority = a
    BY <1>1, <2>1, <2>2
  <2>5. \A i \in 1..n - 1 - 1 : Precedes(rest[i], rest[i + 1])
    BY <1>1, <2>1, <2>3
  <2>6. Trail(rest, a, 0)
    BY <1>1, <2>4, <2>5 DEF Trail
  <2>7. 1 \in 1..n /\ (n # 1 => 1 \in 1..n - 1)
    BY <1>1
  <2> QED BY <1>4, <2>1, <2>6, <2>7 DEF rest, n
<1> QED BY <1>3, <1>4

\* A replayed result is put in front of a trail.
LEMMA TrailCons ==
  ASSUME NEW list \in Seq(Event), NEW a, NEW b, Trail(list, a, b), NEW e \in Event,
         e.kind = "result"
  PROVE  Trail(<<e>> \o list, a, b + 1)
<1> DEFINE more == <<e>> \o list
           n == Len(list)
<1>1. /\ n \in Nat /\ Len(more) = n + 1 /\ more[1] = e
      /\ \A i \in 2..n + 1 : more[i] = list[i - 1]
  OBVIOUS
<1> HIDE DEF more, n
<1>2. /\ b \in 0..n
      /\ \A i \in 1..b : list[i].authority = a => list[i].kind = "result"
      /\ \A i \in b + 1..n : list[i].authority = a
      /\ \A i \in b + 1..n - 1 : Precedes(list[i], list[i + 1])
  BY DEF Trail, n
<1>3. \A i \in 1..b + 1 : i = 1 \/ (i \in 2..n + 1 /\ i - 1 \in 1..b)
  BY <1>1, <1>2
<1>4. \A i \in b + 1 + 1..n + 1 : i \in 2..n + 1 /\ i - 1 \in b + 1..n
  BY <1>1, <1>2
<1>5. \A i \in b + 1 + 1..n + 1 - 1 :
        /\ i \in 2..n + 1 /\ i + 1 \in 2..n + 1 /\ i - 1 \in b + 1..n - 1
        /\ i + 1 - 1 = i - 1 + 1
  BY <1>1, <1>2
<1>6. \A i \in 1..b + 1 : more[i].authority = a => more[i].kind = "result"
  BY <1>1, <1>2, <1>3
<1>7. \A i \in b + 1 + 1..n + 1 : more[i].authority = a
  BY <1>1, <1>2, <1>4
<1>8. \A i \in b + 1 + 1..n + 1 - 1 : Precedes(more[i], more[i + 1])
  <2> TAKE i \in b + 1 + 1..n + 1 - 1
  <2>1. more[i] = list[i - 1] /\ more[i + 1] = list[i - 1 + 1] /\ i - 1 \in b + 1..n - 1
    BY <1>1, <1>5
  <2> QED BY <1>2, <2>1
<1>9. b + 1 \in 0..n + 1
  BY <1>1, <1>2
<1> QED BY <1>1, <1>6, <1>7, <1>8, <1>9 DEF Trail, more

\* The events of a list of calls, made at a time.
EventsOf(a, calls, t) ==
  [i \in DOMAIN calls |-> [kind |-> calls[i][1], authority |-> a,
                           sequence |-> calls[i][2], observed_at |-> t]]

\* The calls are consecutive, and the last one is the settlement.
Chain(calls) ==
  /\ \A i \in 1..Len(calls) - 1 :
       <<calls[i][1], calls[i][2], calls[i + 1][1], calls[i + 1][2]>> \in Successor
  /\ calls[Len(calls)][1] = "settled"

\* A trail that goes on with the event f leads to it.
Opens(list, g, f) ==
  LET n == Len(list)
  IN  \E b \in 0..n :
        /\ Trail(list, g.receipt.authority, b)
        /\ IF b = n THEN Awaits(g, f) ELSE Awaits(g, list[b + 1]) /\ Precedes(list[n], f)

\* The staged events of a list of calls.
LEMMA EventsAre ==
  ASSUME NEW calls \in Seq(Call), NEW a \in Issued, NEW t \in Time,
         NEW events, events = EventsOf(a, calls, t)
  PROVE  /\ events \in Seq(Event) /\ Len(events) = Len(calls)
         /\ \A i \in 1..Len(calls) :
              /\ events[i].kind = calls[i][1] /\ events[i].authority = a
              /\ events[i].sequence = calls[i][2] /\ events[i].observed_at = t
<1> DEFINE n == Len(calls)
           event(c) == [kind |-> c[1], authority |-> a, sequence |-> c[2],
                        observed_at |-> t]
<1>1. n \in Nat /\ DOMAIN calls = 1..n /\ \A i \in 1..n : calls[i] \in Call
  OBVIOUS
<1>2. \A c \in Call : event(c) \in Event
  BY DEF Call, Event
<1>3. events = [i \in 1..n |-> event(calls[i])]
  BY <1>1 DEF EventsOf
<1>8. \A c : /\ event(c).kind = c[1] /\ event(c).authority = a
             /\ event(c).sequence = c[2] /\ event(c).observed_at = t
  OBVIOUS
<1> HIDE DEF n, event, Event, Call
<1>4. \A i \in 1..n : event(calls[i]) \in Event
  BY <1>1, <1>2
<1>5. events \in [1..n -> Event]
  BY <1>3, <1>4
<1>6. events \in Seq(Event) /\ Len(events) = n
  BY <1>1, <1>5
<1>7. \A i \in 1..n : events[i] = event(calls[i])
  BY <1>3
<1> QED BY <1>6, <1>7, <1>8 DEF n

\* The elements of two lists, one after the other.
LEMMA Joined ==
  ASSUME NEW S, NEW list \in Seq(S), NEW events \in Seq(S), NEW m, m = Len(list),
         NEW k, k = Len(events), NEW more, more = list \o events
  PROVE  /\ m \in Nat /\ k \in Nat /\ Len(more) = m + k
         /\ \A i \in 1..m : more[i] = list[i]
         /\ \A i \in m + 1..m + k : more[i] = events[i - m]
OBVIOUS

\* Calls that are staged lead to the settlement.
LEMMA EmitLeads ==
  ASSUME NEW g, NEW list \in Seq(Event), NEW calls \in Seq(Call), calls # <<>>,
         Chain(calls), NEW t \in Time, NEW a \in Issued, a = g.receipt.authority,
         NEW events, events = EventsOf(a, calls, t), Opens(list, g, events[1])
  PROVE  Leads(list \o events, g)
<1> DEFINE m == Len(list)
           k == Len(calls)
           more == list \o events
<1>1. /\ m \in Nat /\ k \in Nat \ {0} /\ events \in Seq(Event) /\ Len(events) = k
      /\ \A i \in 1..k : /\ events[i].kind = calls[i][1] /\ events[i].authority = a
                         /\ events[i].sequence = calls[i][2] /\ events[i].observed_at = t
  BY EventsAre
<1>2. /\ Len(more) = m + k
      /\ \A i \in 1..m : more[i] = list[i]
      /\ \A i \in m + 1..m + k : more[i] = events[i - m]
  <2>1. m = Len(list) /\ k = Len(events) /\ more = list \o events
    BY <1>1
  <2>2. list \in Seq(Event) /\ events \in Seq(Event)
    BY <1>1
  <2> HIDE DEF m, k, more
  <2> QED BY <2>1, <2>2, Joined
<1> HIDE DEF m, k, more
<1>3. \A i \in 1..k - 1 : Precedes(events[i], events[i + 1])
  <2> TAKE i \in 1..k - 1
  <2>1. i \in 1..k /\ i + 1 \in 1..k /\ t <= t
    BY <1>1, TimeIs
  <2>2. <<calls[i][1], calls[i][2], calls[i + 1][1], calls[i + 1][2]>> \in Successor
    BY DEF Chain, k
  <2> QED BY <1>1, <2>1, <2>2 DEF Precedes
<1>4. events[k].kind = "settled"
  <2>1. k \in 1..k
    BY <1>1
  <2> QED BY <1>1, <2>1 DEF Chain, k
<1>5. PICK b \in 0..m :
        /\ Trail(list, a, b)
        /\ IF b = m THEN Awaits(g, events[1])
           ELSE Awaits(g, list[b + 1]) /\ Precedes(list[m], events[1])
  BY DEF Opens, m
<1>6. /\ \A i \in 1..b : list[i].authority = a => list[i].kind = "result"
      /\ \A i \in b + 1..m : list[i].authority = a
      /\ \A i \in b + 1..m - 1 : Precedes(list[i], list[i + 1])
  BY <1>5 DEF Trail, m
<1>7. \A i \in 1..b : more[i].authority = a => more[i].kind = "result"
  <2>1. \A i \in 1..b : i \in 1..m
    BY <1>1
  <2> QED BY <1>2, <1>6, <2>1
<1>8. \A i \in b + 1..m + k : more[i].authority = a
  <2> TAKE i \in b + 1..m + k
  <2>1. CASE i <= m
    <3>1. i \in 1..m /\ i \in b + 1..m
      BY <1>1, <2>1
    <3> QED BY <1>2, <1>6, <3>1
  <2>2. CASE i > m
    <3>1. i \in m + 1..m + k /\ i - m \in 1..k
      BY <1>1, <2>2
    <3> QED BY <1>1, <1>2, <3>1
  <2> QED BY <1>1, <2>1, <2>2
<1>9. \A i \in b + 1..m + k - 1 : Precedes(more[i], more[i + 1])
  <2> TAKE i \in b + 1..m + k - 1
  <2>1. CASE i < m
    <3>1. i \in 1..m /\ i + 1 \in 1..m /\ i \in b + 1..m - 1
      BY <1>1, <2>1
    <3> QED BY <1>2, <1>6, <3>1
  <2>2. CASE i = m
    <3>1. m \in 1..m /\ m + 1 \in m + 1..m + k /\ b # m /\ m + 1 - m = 1
      BY <1>1, <2>2
    <3> QED BY <1>2, <1>5, <2>2, <3>1
  <2>3. CASE i > m
    <3> DEFINE j == i - m
               l == i + 1
    <3>1. /\ i \in m + 1..m + k /\ l \in m + 1..m + k /\ j \in 1..k - 1
          /\ l - m = j + 1
      BY <1>1, <2>3
    <3>2. more[i] = events[j]
      BY <1>2, <3>1
    <3>3. more[l] = events[l - m]
      BY <1>2, <3>1
    <3>4. more[l] = events[j + 1]
      BY <3>1, <3>3
    <3> HIDE DEF j
    <3> QED BY <1>3, <3>1, <3>2, <3>4
  <2> QED BY <1>1, <2>1, <2>2, <2>3
<1>10. b \in 0..m + k /\ b \in 0..m + k - 1 /\ m + k # 0
  BY <1>1
<1> DEFINE last == m + k
<1>14. /\ Len(more) = last /\ b \in 0..last
       /\ \A i \in b + 1..last : more[i].authority = a
       /\ \A i \in b + 1..last - 1 : Precedes(more[i], more[i + 1])
  <2>1. Len(more) = last /\ b \in 0..last
    BY <1>2, <1>10
  <2>2. \A i \in b + 1..last : more[i].authority = a
    BY <1>8
  <2>3. \A i \in b + 1..last - 1 : Precedes(more[i], more[i + 1])
    <3>1. last - 1 = m + k - 1
      BY <1>1
    <3> QED BY <1>9, <3>1
  <2> QED BY <2>1, <2>2, <2>3
<1> HIDE DEF last
<1>11. Trail(more, a, b)
  BY <1>7, <1>14 DEF Trail
<1>12. more[m + k].kind = "settled"
  <2> DEFINE i == m + k
  <2>1. i \in m + 1..m + k /\ i - m = k
    BY <1>1
  <2>2. more[i] = events[i - m]
    BY <1>2, <2>1
  <2> QED BY <1>4, <2>1, <2>2
<1>13. Awaits(g, more[b + 1])
  <2>1. CASE b = m
    <3>1. m + 1 \in m + 1..m + k /\ m + 1 - m = 1
      BY <1>1
    <3> QED BY <1>2, <1>5, <2>1, <3>1
  <2>2. CASE b # m
    <3>1. b + 1 \in 1..m
      BY <1>1, <2>2
    <3> QED BY <1>2, <1>5, <2>2, <3>1
  <2> QED BY <2>1, <2>2
<1>15. /\ Len(more) = last /\ last # 0 /\ b \in 0..last - 1
       /\ more[last].kind = "settled"
  <2>1. Len(more) = last /\ last # 0
    BY <1>2, <1>10 DEF last
  <2>3. b \in 0..last - 1
    BY <1>1 DEF last
  <2>2. more[last].kind = "settled"
    BY <1>12 DEF last
  <2> QED BY <2>1, <2>2, <2>3
<1>16. Leads(more, g)
  BY <1>11, <1>13, <1>15 DEF Leads
<1> QED BY <1>16 DEF more

\* One event is staged behind a trail that is over.
LEMMA EmitAnnounces ==
  ASSUME NEW g, NEW list \in Seq(Event), NEW t \in Time,
         NEW a \in Issued, a = g.receipt.authority,
         NEW events, events = EventsOf(a, accepted_calls, t),
         Trail(list, a, Len(list)), Awaits(g, events[1])
  PROVE  Announced(list \o events, g)
<1> DEFINE m == Len(list)
           calls == accepted_calls
           more == list \o events
<1>1. /\ calls \in Seq(Call) /\ Len(calls) = 1 /\ calls[1][1] = "accepted"
      /\ calls[1][2] = 1
  BY CallLists DEF accepted_calls
<1>2. events = EventsOf(a, calls, t) /\ 1 \in 1..1
  OBVIOUS
<1> HIDE DEF calls
<1>3. /\ events \in Seq(Event) /\ Len(events) = 1
      /\ events[1].kind = "accepted" /\ events[1].authority = a /\ events[1].sequence = 1
  BY <1>1, <1>2, EventsAre
<1>4. /\ m \in Nat /\ Len(more) = m + 1 /\ \A i \in 1..m : more[i] = list[i]
      /\ more[m + 1] = events[1]
  <2>1. /\ m \in Nat /\ Len(more) = m + 1 /\ \A i \in 1..m : more[i] = list[i]
        /\ \A i \in m + 1..m + 1 : more[i] = events[i - m]
    <3> DEFINE k == 1
    <3>1. m = Len(list) /\ k = Len(events) /\ more = list \o events
      BY <1>3
    <3> HIDE DEF m, more, k
    <3>2. /\ m \in Nat /\ Len(more) = m + k /\ \A i \in 1..m : more[i] = list[i]
          /\ \A i \in m + 1..m + k : more[i] = events[i - m]
      BY <1>3, <3>1, Joined
    <3> QED BY <3>2 DEF k
  <2> HIDE DEF m, more
  <2>2. m + 1 \in m + 1..m + 1 /\ m + 1 - m = 1
    BY <2>1
  <2> QED BY <2>1, <2>2
<1> HIDE DEF m, more
<1>5. \A i \in 1..m : list[i].authority = a => list[i].kind = "result"
  BY DEF Trail, m
<1>6. /\ m \in 0..m + 1 /\ \A i \in m + 1..m + 1 : i = m + 1
      /\ m + 1..m + 1 - 1 = {} /\ m + 1 # 0 /\ m + 1 - 1 = m
  BY <1>4
<1>7. Trail(more, a, m)
  BY <1>3, <1>4, <1>5, <1>6 DEF Trail
<1> QED BY <1>3, <1>4, <1>6, <1>7 DEF Announced, more

\* The calls the adapter makes when an operation ends are consecutive.
LEMMA Chains ==
  /\ Chain(not_executed_calls) /\ Chain(rejected_calls) /\ Chain(cancelled_calls)
  /\ Chain(failed_calls) /\ Chain(succeeded_calls)
<1>1. Chain(not_executed_calls)
  BY DEF Chain, not_executed_calls, Successor
<1>2. Chain(rejected_calls)
  BY DEF Chain, rejected_calls, Successor
<1>3. Chain(cancelled_calls)
  BY DEF Chain, cancelled_calls, Successor
<1>4. Chain(failed_calls)
  BY DEF Chain, failed_calls, Successor
<1>5. Chain(succeeded_calls)
  BY DEF Chain, succeeded_calls, Successor
<1> QED BY <1>1, <1>2, <1>3, <1>4, <1>5
-----------------------------------------------------------------------------
(* What a step of a call leaves to be carried                                *)

\* What only the gate notices.
Quiet(r, h) ==
  /\ Ahead(r.gate, h.gate) /\ r.staged = h.staged /\ r.prepared = h.prepared
  /\ r.muted = h.muted /\ (r.adapter.pending = {} <=> h.adapter.pending = {})

\* What a look at the clock and a control leave.
Keeps(r, h) ==
  /\ Carried(h) => Carried(r)
  /\ h.prepared = {} => Quiet(r, h)
  /\ r.prepared \in {{}, h.prepared} /\ h.muted \subseteq r.muted

\* The settlement of the operation is not reported, or there is no operation.
Loose(h) == ~has_receipt(h.gate) \/ h.gate.receipt.authority.operation_id \in h.muted

\* The operations that are muted are old.
MutedOld(h) == \A id \in h.muted : id <= h.gate.receipt.authority.operation_id

LEMMA SameQuiet == ASSUME NEW h PROVE Quiet(h, h) /\ Keeps(h, h)
BY SameAhead DEF Quiet, Keeps

LEMMA QuietOn ==
  ASSUME NEW h, NEW r, NEW q, Quiet(r, h), Quiet(q, r) PROVE Quiet(q, h)
BY AheadOn DEF Quiet

LEMMA KeepsOn ==
  ASSUME NEW h, NEW r, NEW q, Keeps(r, h), Keeps(q, r) PROVE Keeps(q, h)
<1>1. h.prepared = {} => Quiet(q, h)
  <2> SUFFICES ASSUME h.prepared = {} PROVE Quiet(q, h)
    OBVIOUS
  <2>1. Quiet(r, h) /\ r.prepared = {}
    BY DEF Keeps, Quiet
  <2>2. Quiet(q, r)
    BY <2>1 DEF Keeps
  <2> QED BY <2>1, <2>2, QuietOn
<1> QED BY <1>1 DEF Keeps

\* The elements of a list of events.
LEMMA EventAt ==
  ASSUME NEW list \in Seq(Event), NEW n, n = Len(list)
  PROVE  n \in Nat /\ DOMAIN list = 1..n /\ \A i \in 1..n : list[i] \in Event
OBVIOUS

\* What leads to the settlement still does when only the gate notices.
LEMMA QuietCarried ==
  ASSUME NEW h, NEW r, h.staged \in Seq(Event), Quiet(r, h), Carried(h)
  PROVE  Carried(r)
<1> DEFINE g == h.gate
           q == r.gate
           a == g.receipt.authority
           list == h.staged
           n == Len(list)
<1>1. /\ q.receipt.authority = a /\ q.receipt.settlement = g.receipt.settlement
      /\ \A kind \in EventKind, k \in 1..5 : Expects(g, kind, k) => Expects(q, kind, k)
      /\ \A e \in Event : Awaits(g, e) => Awaits(q, e)
      /\ IsReleased(g) => IsReleased(q)
      /\ InForce(g) => InForce(q)
      /\ has_receipt(q) <=> has_receipt(g)
      /\ r.staged = list /\ r.prepared = h.prepared /\ r.muted = h.muted
      /\ (r.adapter.pending = {} <=> h.adapter.pending = {})
  BY DEF Quiet, Ahead, has_receipt
<1>2. n \in Nat /\ \A i \in 1..n : list[i] \in Event
  BY EventAt
<1>3. /\ {"not_submitted", "started", "cancelled"} \subseteq EventKind
      /\ 1 \in 1..5 /\ 2 \in 1..5
  BY DEF EventKind, NativeKind
<1> HIDE DEF g, q, a, list, n
<1>4. IsOver(h) => IsOver(r)
  BY <1>1 DEF IsOver, g, q, a, list
<1>5. IsPrepared(h) => IsPrepared(r)
  BY <1>1, <1>3 DEF IsPrepared, g, q, a, list
<1>6. IsWorking(h) => IsWorking(r)
  <2>1. Reported(list, g) => Reported(list, q)
    BY <1>1, <1>3 DEF Reported, a
  <2>2. Announced(list, g) => Announced(list, q)
    <3>1. n # 0 => n \in 1..n
      BY <1>2
    <3> QED BY <1>1, <1>2, <3>1 DEF Announced, a, n
  <2> QED BY <1>1, <2>1, <2>2 DEF IsWorking, g, q, list
<1>7. IsReporting(h) => IsReporting(r)
  <2>1. ASSUME Leads(list, g) PROVE Leads(list, q)
    <3>1. n # 0 /\ list[n].kind = "settled"
      BY <2>1 DEF Leads, n
    <3>2. PICK b \in 0..n - 1 : Trail(list, a, b) /\ Awaits(g, list[b + 1])
      BY <2>1 DEF Leads, n, a
    <3>3. b + 1 \in 1..n
      BY <1>2, <3>1
    <3>4. Awaits(q, list[b + 1])
      BY <1>1, <1>2, <3>2, <3>3
    <3> QED BY <1>1, <3>1, <3>2, <3>4 DEF Leads, n
  <2> QED BY <1>1, <2>1 DEF IsReporting, g, q, list
<1> QED BY <1>1, <1>4, <1>5, <1>6, <1>7 DEF Carried, g, q, a

\* What only the gate notices keeps the operation.
LEMMA QuietKeeps ==
  ASSUME NEW h, NEW r, h.staged \in Seq(Event), Quiet(r, h)
  PROVE  Keeps(r, h)
BY QuietCarried DEF Keeps, Quiet

\* Only the gate of the host changes, and it is ahead.
LEMMA GateQuiet ==
  ASSUME NEW h \in HostRecord, NEW g \in Gate, Ahead(g, h.gate),
         NEW r, r = [h EXCEPT !.gate = g]
  PROVE  Quiet(r, h) /\ Keeps(r, h)
<1>1. /\ r.gate = g /\ r.adapter = h.adapter /\ r.staged = h.staged
      /\ r.prepared = h.prepared /\ r.muted = h.muted
  BY GateFields
<1>2. h.staged \in Seq(Event)
  BY DEF HostRecord
<1>3. Quiet(r, h)
  BY <1>1 DEF Quiet
<1> QED BY <1>2, <1>3, QuietKeeps

\* An operation that is muted, or none, asks for little.
LEMMA LooseCarried ==
  ASSUME NEW h, Loose(h), InForce(h.gate), MutedOld(h)
  PROVE  Carried(h)
BY DEF Loose, MutedOld, Carried
-----------------------------------------------------------------------------
(* The callbacks that the adapter stages                                     *)

\* The events of a are staged, or are dropped in part and a is muted.
Stages(r, h, a, events) ==
  /\ r.gate = h.gate /\ r.prepared = h.prepared
  /\ r.adapter.pending = h.adapter.pending /\ r.adapter.mode = h.adapter.mode
  /\ h.muted \subseteq r.muted /\ r.muted \subseteq h.muted \cup {a.operation_id}
  /\ a.operation_id \in r.muted \/ r.staged = h.staged \o events

\* The adapter stages its calls, or drops the last one and the operation is muted.
LEMMA EmitIs ==
  ASSUME NEW h \in HostRecord, NEW a \in Issued, NEW calls \in Seq(Call), calls # <<>>,
         NEW t, NEW r, r = emit(h, a, calls, t)
  PROVE  Stages(r, h, a, EventsOf(a, calls, t))
<1> DEFINE heard == IF h.adapter.reporting \/ Last(calls)[1] # "settled" THEN calls
                    ELSE Front(calls)
           callback(c) == [kind |-> c[1], authority |-> a, sequence |-> c[2]]
           event(c) == [kind |-> c[1], authority |-> a, sequence |-> c[2],
                        observed_at |-> t]
           events == [i \in DOMAIN heard |-> event(heard[i])]
           produced == {callback(c) : c \in {d \in Range(heard) : d[1] = "result"}}
           keeps == h.adapter.replay /\ h.adapter.retained = {}
           staged1 == h.staged \o events
           retained1 == IF keeps THEN produced ELSE h.adapter.retained
           muted1 == IF heard = calls THEN h.muted
                     ELSE h.muted \cup {a.operation_id}
<1>1. r = [h EXCEPT !.staged = staged1, !.adapter.retained = retained1,
                    !.muted = muted1]
  BY DEF emit
<1>2. heard = calls => events = EventsOf(a, calls, t)
  BY DEF EventsOf
<1> HIDE DEF staged1, retained1, muted1
<1>3. /\ r.gate = h.gate /\ r.prepared = h.prepared /\ r.staged = staged1
      /\ r.muted = muted1 /\ r.adapter = [h.adapter EXCEPT !.retained = retained1]
  BY <1>1 DEF HostRecord
<1>4. r.adapter.pending = h.adapter.pending /\ r.adapter.mode = h.adapter.mode
  BY <1>3 DEF HostRecord, Adapter
<1> HIDE DEF heard, events
<1> QED BY <1>2, <1>3, <1>4 DEF staged1, muted1, Stages

\* The first of the calls that end an operation.
LEMMA FirstEvent ==
  ASSUME NEW calls \in Seq(Call), calls # <<>>, NEW a \in Issued, NEW t \in Time,
         NEW f, f = EventsOf(a, calls, t)[1]
  PROVE  /\ f \in Event /\ f.kind = calls[1][1] /\ f.sequence = calls[1][2]
         /\ f.authority = a /\ f.observed_at = t
<1> DEFINE events == EventsOf(a, calls, t)
<1>1. /\ events \in Seq(Event) /\ Len(events) = Len(calls)
      /\ \A i \in 1..Len(calls) :
           /\ events[i].kind = calls[i][1] /\ events[i].authority = a
           /\ events[i].sequence = calls[i][2] /\ events[i].observed_at = t
  BY EventsAre
<1>2. 1 \in 1..Len(calls)
  OBVIOUS
<1> HIDE DEF events
<1>3. events[1] \in Event
  BY <1>1, <1>2
<1> QED BY <1>1, <1>2, <1>3 DEF events

\* The calls that end an operation are staged where the gate is led to them.
LEMMA ClosingCarried ==
  ASSUME NEW h \in HostRecord, InForce(h.gate), MutedOld(h),
         h.prepared = {}, h.adapter.pending = {},
         NEW a \in Issued, a.operation_id \in Nat, a = h.gate.receipt.authority,
         NEW t \in Time, NEW calls \in Seq(Call), calls # <<>>, Chain(calls),
         Loose(h) \/ Opens(h.staged, h.gate, EventsOf(a, calls, t)[1]),
         NEW r, r = emit(h, a, calls, t)
  PROVE  Carried(r)
<1> DEFINE g == h.gate
           list == h.staged
           events == EventsOf(a, calls, t)
<1>1. /\ r.gate = g /\ r.prepared = {} /\ r.adapter.pending = {}
      /\ h.muted \subseteq r.muted /\ r.muted \subseteq h.muted \cup {a.operation_id}
      /\ a.operation_id \in r.muted \/ r.staged = list \o events
  <2>1. Stages(r, h, a, EventsOf(a, calls, t))
    BY EmitIs
  <2> QED BY <2>1 DEF Stages
<1>2. MutedOld(r) /\ list \in Seq(Event) /\ a.operation_id <= a.operation_id
  <2>1. list \in Seq(Event) /\ a.operation_id <= a.operation_id
    BY DEF HostRecord
  <2> HIDE DEF list, events
  <2>2. MutedOld(r)
    BY <1>1 DEF MutedOld
  <2> QED BY <2>1, <2>2
<1>3. CASE Loose(r)
  BY <1>1, <1>2, <1>3, LooseCarried
<1>4. CASE ~Loose(r)
  <2>1. r.staged = list \o events /\ Opens(list, g, events[1])
    BY <1>1, <1>4 DEF Loose
  <2> HIDE DEF events, list
  <2>2. Leads(list \o events, g)
    BY <1>2, <2>1, EmitLeads DEF events
  <2>3. g.receipt.settlement = "pending"
    BY <2>1 DEF Opens, Awaits, Expects
  <2>4. IsReporting(r)
    BY <1>1, <2>1, <2>2 DEF IsReporting
  <2> HIDE DEF g
  <2> QED BY <1>1, <1>2, <2>3, <2>4 DEF Carried, MutedOld, g
<1> QED BY <1>3, <1>4

\* The prepared request is discarded: that it was not submitted is staged.
LEMMA DiscardKeeps ==
  ASSUME NEW h, NEW t, Base(h, t), NEW r, r = discard_prepared(h, t)
  PROVE  Keeps(r, h)
<1>1. CASE h.prepared = {}
  BY <1>1, SameQuiet DEF discard_prepared
<1>2. CASE h.prepared # {}
  <2> DEFINE x == [h EXCEPT !.prepared = {}]
             a == CHOOSE p \in h.prepared : TRUE
             calls == not_executed_calls
             g == h.gate
  <2>1. h \in HostRecord /\ a \in h.prepared /\ a \in Issued /\ Old(a, g) /\ t \in Time
        /\ GateOK(g, t) /\ a.operation_id \in Nat
    BY <1>2, IssuedIs DEF Base, HostRecord
  <2>2. /\ x \in HostRecord /\ x.gate = g /\ x.adapter = h.adapter
        /\ x.staged = h.staged /\ x.prepared = {} /\ x.muted = h.muted
    BY <2>1 DEF HostRecord
  <2>3. r = emit(x, a, calls, t)
    BY <1>2 DEF discard_prepared, then
  <2>4. calls \in Seq(Call) /\ calls # <<>> /\ Chain(calls)
        /\ calls[1][1] = "not_submitted" /\ calls[1][2] = 1
    <3>1. calls[1][1] = "not_submitted" /\ calls[1][2] = 1
      BY DEF not_executed_calls
    <3> QED BY <3>1, CallLists, Chains
  <2> HIDE DEF x, a, calls, g
  <2>5. x.adapter.pending = {}
    BY <1>2, <2>2 DEF Base, StagedOK
  <2>6. /\ r.gate = g /\ r.prepared = {} /\ h.muted \subseteq r.muted
        /\ r.muted \subseteq h.muted \cup {a.operation_id}
    <3>1. Stages(r, x, a, EventsOf(a, calls, t))
      BY <2>1, <2>2, <2>3, <2>4, EmitIs
    <3> QED BY <2>2, <3>1 DEF Stages
  <2>7. ASSUME Carried(h) PROVE Carried(r)
    <3>1. InForce(g) /\ MutedOld(h) /\ InForce(r.gate)
      BY <2>6, <2>7 DEF Carried, MutedOld, g
    <3>2. CASE Loose(h)
      <4>1. Loose(r) /\ MutedOld(r)
        BY <2>1, <2>6, <3>1, <3>2 DEF Loose, MutedOld, Old, g
      <4> QED BY <3>1, <4>1, LooseCarried
    <3>3. CASE ~Loose(h)
      <4>1. IsPrepared(h)
        BY <1>2, <2>7, <3>3 DEF Loose, Carried, IsOver, IsWorking, IsReporting
      <4>2. /\ a = g.receipt.authority /\ Expects(g, "not_submitted", 1)
            /\ Trail(x.staged, a, Len(x.staged))
        BY <2>1, <2>2, <4>1 DEF IsPrepared, g
      <4> DEFINE f == EventsOf(a, calls, t)[1]
      <4>3. f.kind = "not_submitted" /\ f.sequence = 1 /\ f.observed_at = t
        BY <2>1, <2>4, FirstEvent
      <4> HIDE DEF f
      <4>4. Awaits(g, f)
        BY <2>1, <4>2, <4>3, UntilNow DEF Awaits
      <4>5. x.staged \in Seq(Event)
        BY <2>2 DEF HostRecord
      <4>6. Opens(x.staged, x.gate, f)
        <5> DEFINE list == x.staged
                   n == Len(list)
        <5>1. n \in 0..n
          BY <4>5
        <5> HIDE DEF n
        <5>2. Trail(list, g.receipt.authority, n)
          BY <4>2 DEF n
        <5> HIDE DEF list
        <5> QED BY <2>2, <4>4, <5>1, <5>2 DEF Opens, n, list
      <4>7. MutedOld(x)
        BY <2>2, <3>1 DEF MutedOld, g
      <4> QED BY <2>1, <2>2, <2>3, <2>4, <2>5, <3>1, <4>2, <4>6, <4>7, ClosingCarried DEF f
    <3> QED BY <3>2, <3>3
  <2> QED BY <1>2, <2>6, <2>7 DEF Keeps
<1> QED BY <1>1, <1>2

\* The native work is asked to stop.
LEMMA StopQuiet ==
  ASSUME NEW h, NEW t, Base(h, t), NEW a, NEW r, r = request_native_stop(h, a, t)
  PROVE  Quiet(r, h) /\ Keeps(r, h)
<1> DEFINE b == stopped(h.adapter, a)
           more == Append(h.stops, a)
           record1 == record(StopSource, t, 1)
           k == CHOOSE x \in stop_answer(h.adapter, a) : TRUE
           g1 == observe_stop_acknowledgement(h.gate,
                   [authority |-> a, acknowledgement |-> k, record |-> record1])
           g2 == IF stop_answer(h.adapter, a) = {} THEN h.gate ELSE g1
<1>1. /\ h \in HostRecord /\ h.adapter \in Adapter /\ t \in Time /\ GateOK(h.gate, t)
      /\ t <= t /\ h.staged \in Seq(Event)
  BY TimeIs DEF Base, HostRecord
<1>2. r = [h EXCEPT !.adapter = b, !.stops = more, !.gate = g2]
  <2>1. r = [[h EXCEPT !.adapter = b, !.stops = more]
               EXCEPT !.gate = IF stop_answer(h.adapter, a) = {} THEN @ ELSE
                 observe_stop_acknowledgement(@,
                   [authority |-> a, acknowledgement |-> k, record |-> record1])]
    BY DEF request_native_stop
  <2>2. [h EXCEPT !.adapter = b, !.stops = more].gate = h.gate
    BY <1>1 DEF HostRecord
  <2> HIDE DEF b, more, record1, k
  <2> QED BY <2>1, <2>2
<1>3. Ahead(g2, h.gate)
  <2>1. CASE stop_answer(h.adapter, a) = {}
    BY <2>1, SameAhead
  <2>2. CASE stop_answer(h.adapter, a) # {}
    <3>1. k \in StopResponse
      BY <1>1, <2>2, StopAnswer
    <3>2. record1 \in EvidenceRecord /\ record1.observed_at = t /\ record1.source = StopSource
      BY <1>1, HostAssumption DEF record, EvidenceRecord, Source
    <3>3. record1.observed_at <= t
      BY <1>1, <3>2
    <3> HIDE DEF k, record1
    <3>4. Ahead(g1, h.gate)
      BY <1>1, <3>1, <3>2, <3>3, StopAhead
    <3> HIDE DEF g1
    <3> QED BY <2>2, <3>4
  <2> QED BY <2>1, <2>2
<1>4. b.pending = {} <=> h.adapter.pending = {}
  <2>1. CASE is_work_of(h.adapter, a) /\ h.adapter.cancellation = "cooperative"
    <3> DEFINE told == {[w EXCEPT !.is_cancelled = TRUE] : w \in h.adapter.pending}
    <3>1. b = [h.adapter EXCEPT !.pending = told]
      BY <2>1 DEF stopped
    <3>2. told = {} <=> h.adapter.pending = {}
      OBVIOUS
    <3> HIDE DEF told
    <3>3. b.pending = told
      BY <1>1, <3>1 DEF Adapter
    <3> QED BY <3>2, <3>3
  <2>2. CASE ~(is_work_of(h.adapter, a) /\ h.adapter.cancellation = "cooperative")
    BY <2>2 DEF stopped
  <2> QED BY <2>1, <2>2
<1> HIDE DEF b, more, g2
<1>5. /\ r.gate = g2 /\ r.adapter = b /\ r.staged = h.staged /\ r.prepared = h.prepared
      /\ r.muted = h.muted
  BY <1>1, <1>2 DEF HostRecord
<1>6. Quiet(r, h)
  BY <1>3, <1>4, <1>5 DEF Quiet
<1> QED BY <1>1, <1>6, QuietKeeps

\* A control discards the prepared request or asks the work to stop.
LEMMA ControlKeeps ==
  ASSUME NEW h, NEW t, Base(h, t), NEW a, NEW stop, NEW r, r = apply_control(h, a, stop, t)
  PROVE  Keeps(r, h)
<1> DEFINE x == IF \E p \in h.prepared : p.operation_id = a.operation_id
                  THEN discard_prepared(h, t) ELSE h
           q == request_native_stop(x, a, t)
<1>1. r = IF stop THEN q ELSE x
  BY DEF apply_control, then
<1>2. Base(x, t) /\ Keeps(x, h)
  BY DiscardBase, DiscardKeeps, SameQuiet
<1> HIDE DEF x
<1>3. Keeps(q, x)
  BY <1>2, StopQuiet
<1> HIDE DEF q
<1>4. Keeps(q, h)
  BY <1>2, <1>3, KeepsOn
<1> QED BY <1>1, <1>2, <1>4

\* A look at the clock, which may find the deadline.
LEMMA TimeKeeps ==
  ASSUME NEW h, NEW t, Sound(h, t), NEW r, r = observe_host_time(h, t)
  PROVE  Keeps(r, h)
<1> DEFINE expires == {a \in h.current : applies_expiry(h.gate, a, t)}
           stop == should_request_native_stop(h.gate.receipt)
           b == CHOOSE y \in expires : TRUE
           x == [h EXCEPT !.gate = observe_time(@, b, t)]
<1>1. Base(h, t) /\ GateOK(h.gate, t) /\ t \in Time /\ h \in HostRecord
  BY DEF Sound, Base
<1>2. CASE expires = {}
  BY <1>2, SameQuiet DEF observe_host_time
<1>3. CASE expires # {}
  <2>1. b \in h.current /\ applies_expiry(h.gate, b, t)
    BY <1>3
  <2>2. r = apply_control(x, b, stop, t)
    BY <1>3 DEF observe_host_time, then
  <2> DEFINE g == observe_time(h.gate, b, t)
  <2>3. x = [h EXCEPT !.gate = g]
    OBVIOUS
  <2> HIDE DEF b, x, g, stop
  <2>4. Revoked(g, h.gate, t) /\ g.phase = h.gate.phase
    BY <1>1, <2>1, ExpiryRevokes DEF g
  <2>5. Base(x, t)
    BY <1>1, <2>3, <2>4, RevokedBase
  <2>6. Ahead(g, h.gate) /\ g \in Gate
    BY <1>1, <2>1, <2>4, ExpiryAhead DEF g, Revoked, GateOK
  <2>7. Keeps(x, h)
    BY <1>1, <2>3, <2>6, GateQuiet
  <2>8. Keeps(r, x)
    BY <2>2, <2>5, ControlKeeps
  <2> QED BY <2>7, <2>8, KeepsOn
<1> QED BY <1>2, <1>3

\* The binding is withdrawn, and its work controlled.
LEMMA WithdrawKeeps ==
  ASSUME NEW h, NEW t, Sound(h, t), NEW b, NEW r, r = withdraw_host_binding(h, b, t)
  PROVE  Keeps(r, h)
<1> DEFINE g == withdraw_binding(h.gate, b, t)
           x == [h EXCEPT !.gate = g]
           y == discard_prepared(x, t)
           a == h.gate.receipt.authority
           stop == withdraws_current(h.gate) /\ should_request_native_stop(h.gate.receipt)
<1>1. Base(h, t) /\ GateOK(h.gate, t) /\ t \in Time /\ h \in HostRecord
  BY DEF Sound, Base
<1>2. CASE ~withdraws_binding(h.gate, b, t)
  BY <1>2, SameQuiet DEF withdraw_host_binding
<1>3. CASE withdraws_binding(h.gate, b, t)
  <2>1. r = IF stop THEN apply_control(y, a, TRUE, t) ELSE y
    <3> DEFINE z == then(x, LAMBDA q : discard_prepared(q, t))
    <3>1. r = then(z, LAMBDA q : IF stop THEN apply_control(q, a, TRUE, t) ELSE q)
      BY <1>3 DEF withdraw_host_binding
    <3> HIDE DEF x, stop, a
    <3>2. z = y
      BY DEF then
    <3> HIDE DEF y, z
    <3> QED BY <3>1, <3>2 DEF then
  <2>2. /\ GateOK(g, t) /\ g.phase = "withdrawn"
        /\ IF withdraws_current(h.gate) THEN Revoked(g, h.gate, t)
           ELSE /\ g.receipt = h.gate.receipt
                /\ g.next_operation_id = h.gate.next_operation_id
    BY <1>1, <1>3, WithdrawRevokes
  <2>3. Ahead(g, h.gate) /\ g \in Gate
    BY <1>1, <1>3, <2>2, WithdrawAhead DEF GateOK
  <2> HIDE DEF g
  <2>4. x = [h EXCEPT !.gate = g]
    OBVIOUS
  <2>5. y = discard_prepared(x, t)
    OBVIOUS
  <2> HIDE DEF x, y, stop, a
  <2>6. Base(x, t)
    <3>1. CASE withdraws_current(h.gate)
      BY <1>1, <2>2, <2>4, <3>1, RevokedBase
    <3>2. CASE ~withdraws_current(h.gate)
      <4>1. SameReceipt(g, h.gate)
        BY <2>2, <3>2 DEF SameReceipt
      <4>2. Sound(x, t)
        BY <2>3, <2>4, <4>1, SameReceiptSound
      <4> QED BY <4>2 DEF Sound
    <3> QED BY <3>1, <3>2
  <2>7. Keeps(x, h)
    BY <1>1, <2>3, <2>4, GateQuiet
  <2>8. Base(y, t) /\ Keeps(y, x)
    BY <2>5, <2>6, DiscardBase, DiscardKeeps
  <2>9. Keeps(y, h)
    BY <2>7, <2>8, KeepsOn
  <2> DEFINE yes == TRUE
             q == apply_control(y, a, yes, t)
  <2>10. r = IF stop THEN q ELSE y
    BY <2>1
  <2> HIDE DEF yes
  <2>11. Keeps(q, y)
    BY <2>8, ControlKeeps
  <2> HIDE DEF q
  <2>12. Keeps(q, h)
    BY <2>9, <2>11, KeepsOn
  <2> QED BY <2>9, <2>10, <2>12
<1> QED BY <1>2, <1>3

\* A poll withdraws a binding whose worker or sink is not ready.
LEMMA PollKeeps ==
  ASSUME NEW h, NEW t, Sound(h, t), NEW r, r = poll(h, t)
  PROVE  Keeps(r, h)
<1> DEFINE unready == /\ h.gate.init = "ready"
                      /\ ~(worker_ready(h.adapter) /\ sink_ready(h.adapter))
           w == withdraw_host_binding(h, h.gate.binding, t)
           x == IF unready THEN w ELSE h
<1>1. r = observe_host_time(x, t)
  BY DEF poll, then
<1> HIDE DEF unready
<1>2. Sound(w, t) /\ Keeps(w, h)
  BY WithdrawSound, WithdrawKeeps
<1> HIDE DEF w
<1>3. Sound(x, t) /\ Keeps(x, h)
  BY <1>2, SameQuiet
<1> HIDE DEF x
<1>4. Keeps(r, x)
  BY <1>1, <1>3, TimeKeeps
<1> QED BY <1>3, <1>4, KeepsOn
-----------------------------------------------------------------------------
(* The work that the adapter has is carried                                  *)

\* Only the adapter of the host changes, and has work as before.
LEMMA AdapterQuiet ==
  ASSUME NEW h \in HostRecord, NEW b \in Adapter, b.pending = {} <=> h.adapter.pending = {},
         NEW r, r = [h EXCEPT !.adapter = b]
  PROVE  Quiet(r, h) /\ Keeps(r, h)
<1>1. /\ r.gate = h.gate /\ r.adapter = b /\ r.staged = h.staged
      /\ r.prepared = h.prepared /\ r.muted = h.muted /\ h.staged \in Seq(Event)
  BY AdapterFields DEF HostRecord
<1>2. Quiet(r, h)
  BY <1>1, SameAhead DEF Quiet
<1> QED BY <1>1, <1>2, QuietKeeps

\* The adapter has the work of the operation in hand, out of its record of it.
InHand(h) ==
  /\ h.prepared = {} /\ h.adapter.pending = {} /\ InForce(h.gate) /\ MutedOld(h)
  /\ Loose(h) \/ Reported(h.staged, h.gate) \/ Announced(h.staged, h.gate)

\* The calls that end the work go on from what is staged of it.
LEMMA EndingOpens ==
  ASSUME NEW h, NEW t, Sound(h, t), NEW f \in Event, f.observed_at = t, f.sequence = 2,
         f.kind \in {"started", "cancelled"},
         Reported(h.staged, h.gate) \/ Announced(h.staged, h.gate)
  PROVE  Opens(h.staged, h.gate, f)
<1> DEFINE g == h.gate
           a == g.receipt.authority
           list == h.staged
           n == Len(list)
<1>1. list \in Seq(Event) /\ GateOK(g, t)
  BY DEF Sound, Base, HostRecord
<1>2. n \in Nat
  BY <1>1
<1>3. CASE Reported(list, g)
  <2>1. Trail(list, a, n) /\ Expects(g, "started", 2)
    BY <1>3 DEF Reported
  <2>2. Expects(g, f.kind, 2)
    BY <2>1 DEF Expects, Terminal
  <2> HIDE DEF g
  <2>3. Awaits(g, f)
    BY <1>1, <2>2, UntilNow DEF Awaits
  <2>4. n \in 0..n
    BY <1>2
  <2> HIDE DEF n, list
  <2> QED BY <2>1, <2>3, <2>4 DEF Opens, n, list, g
<1>4. CASE Announced(list, g)
  <2>1. /\ n # 0 /\ Trail(list, a, n - 1) /\ list[n].kind = "accepted"
        /\ list[n].sequence = 1 /\ Awaits(g, list[n])
    BY <1>4 DEF Announced
  <2>2. list[n].observed_at <= t
    <3>1. n \in DOMAIN list
      BY <1>1, <1>2, <2>1
    <3> QED BY <3>1, StagedIs
  <2> DEFINE b == n - 1
  <2>3. b \in 0..n /\ b # n /\ b + 1 = n
    BY <1>2, <2>1
  <2> HIDE DEF n, list, g
  <2>4. Precedes(list[n], f)
    BY <2>1, <2>2 DEF Precedes, Successor
  <2>5. Trail(list, a, b) /\ Awaits(g, list[b + 1])
    BY <2>1, <2>3
  <2> HIDE DEF b
  <2> QED BY <2>3, <2>4, <2>5 DEF Opens, n, list, g
<1> QED BY <1>3, <1>4

\* The work ends.
LEMMA EndingCarried ==
  ASSUME NEW h, NEW t, Sound(h, t), InHand(h),
         NEW a, a = h.gate.receipt.authority, a \in Issued,
         NEW calls \in Seq(Call), calls # <<>>, Chain(calls),
         calls[1][1] \in {"started", "cancelled"}, calls[1][2] = 2,
         NEW r, r = emit(h, a, calls, t)
  PROVE  Carried(r)
<1> DEFINE f == EventsOf(a, calls, t)[1]
<1>1. h \in HostRecord /\ t \in Time /\ a.operation_id \in Nat
  BY IssuedIs DEF Sound, Base
<1>2. f \in Event /\ f.kind \in {"started", "cancelled"} /\ f.sequence = 2 /\ f.observed_at = t
  BY <1>1, FirstEvent
<1> HIDE DEF f
<1>3. Loose(h) \/ Opens(h.staged, h.gate, f)
  BY <1>2, EndingOpens DEF InHand
<1> QED BY <1>1, <1>3, ClosingCarried DEF InHand, f

\* The work ends, in the adapter or at once.
LEMMA FinishCarried ==
  ASSUME NEW h, NEW t, Sound(h, t), InHand(h),
         NEW work, NEW a, a = work.authority, a = h.gate.receipt.authority, a \in Issued,
         NEW r, r = finish(h, work, t)
  PROVE  Carried(r)
<1> DEFINE b == [h.adapter EXCEPT !.fail_next = FALSE]
           x == [h EXCEPT !.adapter = b]
<1>1. CASE work.is_cancelled
  <2> DEFINE calls == cancelled_calls
  <2>1. r = emit(h, a, calls, t)
    BY <1>1 DEF finish
  <2>2. calls[1][1] \in {"started", "cancelled"} /\ calls[1][2] = 2
    BY DEF cancelled_calls
  <2>3. calls \in Seq(Call) /\ calls # <<>> /\ Chain(calls)
    BY CallLists, Chains
  <2> HIDE DEF calls
  <2> QED BY <2>1, <2>2, <2>3, EndingCarried
<1>2. CASE ~work.is_cancelled /\ h.adapter.fail_next
  <2> DEFINE calls == failed_calls
  <2>1. h \in HostRecord /\ h.adapter \in Adapter
    BY DEF Sound, Base, HostRecord
  <2>2. b \in Adapter /\ b.retained = h.adapter.retained /\ b.pending = h.adapter.pending
    BY <2>1 DEF Adapter
  <2>3. r = emit(x, a, calls, t)
    <3> DEFINE y == [h EXCEPT !.adapter.fail_next = FALSE]
    <3>1. y = x
      BY <2>1 DEF HostRecord
    <3> HIDE DEF x
    <3>2. r = then(y, LAMBDA q : emit(q, work.authority, failed_calls, t))
      BY <1>2 DEF finish
    <3> HIDE DEF y
    <3> QED BY <3>1, <3>2 DEF then
  <2> HIDE DEF b
  <2>4. Sound(x, t) /\ x.gate = h.gate /\ x.adapter = b /\ x.staged = h.staged
        /\ x.prepared = h.prepared /\ x.muted = h.muted
    BY <2>1, <2>2, AdapterSound, AdapterFields
  <2>5. InHand(x) /\ a = x.gate.receipt.authority
    BY <2>2, <2>4 DEF InHand, Loose, MutedOld
  <2>6. calls[1][1] \in {"started", "cancelled"} /\ calls[1][2] = 2
    BY DEF failed_calls
  <2>7. calls \in Seq(Call) /\ calls # <<>> /\ Chain(calls)
    BY CallLists, Chains
  <2> HIDE DEF calls, x
  <2> QED BY <2>3, <2>4, <2>5, <2>6, <2>7, EndingCarried
<1>3. CASE ~work.is_cancelled /\ ~h.adapter.fail_next
  <2> DEFINE calls == succeeded_calls
  <2>1. r = emit(h, a, calls, t)
    BY <1>3 DEF finish
  <2>2. calls[1][1] \in {"started", "cancelled"} /\ calls[1][2] = 2
    BY DEF succeeded_calls
  <2>3. calls \in Seq(Call) /\ calls # <<>> /\ Chain(calls)
    BY CallLists, Chains
  <2> HIDE DEF calls
  <2> QED BY <2>1, <2>2, <2>3, EndingCarried
<1> QED BY <1>1, <1>2, <1>3

\* The deferred work ends.
LEMMA FinishPendingCarried ==
  ASSUME NEW h, NEW t, Sound(h, t), Carried(h), NEW r, r = finish_pending(h, t)
  PROVE  Carried(r)
<1> DEFINE b == [h.adapter EXCEPT !.pending = {}]
           x == [h EXCEPT !.adapter = b]
           w == CHOOSE v \in h.adapter.pending : TRUE
           a == w.authority
<1>1. CASE h.adapter.pending = {}
  BY <1>1 DEF finish_pending
<1>2. CASE h.adapter.pending # {}
  <2>1. h \in HostRecord /\ h.adapter \in Adapter
    BY DEF Sound, Base, HostRecord
  <2>2. b \in Adapter /\ b.retained = h.adapter.retained /\ b.pending = {}
    BY <2>1 DEF Adapter
  <2>3. w \in h.adapter.pending /\ w \in Work
    BY <1>2, <2>1 DEF Adapter
  <2>4. a \in Issued /\ a = h.gate.receipt.authority
    BY <2>3 DEF Work, Sound, Base, WorkOK
  <2>5. r = finish(x, w, t)
    <3> DEFINE y == [h EXCEPT !.adapter.pending = {}]
    <3>1. y = x
      BY <2>1 DEF HostRecord
    <3> HIDE DEF x
    <3>2. r = then(y, LAMBDA q : finish(q, w, t))
      BY <1>2 DEF finish_pending
    <3> HIDE DEF y, w
    <3> QED BY <3>1, <3>2 DEF then
  <2>6. a = w.authority
    OBVIOUS
  <2> HIDE DEF b, w, a
  <2>7. /\ Sound(x, t) /\ x.gate = h.gate /\ x.adapter = b /\ x.staged = h.staged
        /\ x.prepared = h.prepared /\ x.muted = h.muted
    BY <2>1, <2>2, AdapterSound, AdapterFields
  <2>8. Loose(h) \/ IsWorking(h)
    BY <1>2 DEF Carried, Loose, IsOver, IsPrepared, IsReporting
  <2>9. h.prepared = {} /\ InForce(h.gate) /\ MutedOld(h)
    BY <1>2 DEF Sound, Base, StagedOK, Carried, MutedOld
  <2>10. InHand(x) /\ a = x.gate.receipt.authority
    BY <2>2, <2>4, <2>7, <2>8, <2>9 DEF InHand, Loose, MutedOld, IsWorking
  <2> HIDE DEF x
  <2> QED BY <2>4, <2>5, <2>6, <2>7, <2>10, FinishCarried
<1> QED BY <1>1, <1>2

\* An operation whose settlement is not reported remains one.
LEMMA LooseEmit ==
  ASSUME NEW h \in HostRecord, Loose(h), InForce(h.gate), MutedOld(h),
         NEW a \in Issued, Old(a, h.gate), NEW calls \in Seq(Call), calls # <<>>,
         NEW t, NEW r, r = emit(h, a, calls, t)
  PROVE  Carried(r)
<1>1. Stages(r, h, a, EventsOf(a, calls, t))
  BY EmitIs
<1>2. Loose(r) /\ InForce(r.gate) /\ MutedOld(r)
  BY <1>1 DEF Stages, Loose, MutedOld, Old
<1> QED BY <1>2, LooseCarried

\* What is staged of an operation is over where the next calls begin.
LEMMA EndOpens ==
  ASSUME NEW list \in Seq(Event), NEW g, Trail(list, g.receipt.authority, Len(list)),
         NEW f, Awaits(g, f)
  PROVE  Opens(list, g, f)
<1> DEFINE n == Len(list)
<1>1. n \in 0..n /\ Trail(list, g.receipt.authority, n)
  OBVIOUS
<1> HIDE DEF n
<1> QED BY <1>1 DEF Opens, n

\* The operation is with the adapter, and nothing of it is staged.
InReach(h) ==
  /\ h.prepared = {} /\ h.adapter.pending = {} /\ InForce(h.gate) /\ MutedOld(h)
  /\ Loose(h) \/ Trail(h.staged, h.gate.receipt.authority, Len(h.staged))

\* The adapter takes the work, or rejects it.
LEMMA SubmitCarried ==
  ASSUME NEW h, NEW t, Sound(h, t), InReach(h),
         NEW a, a = h.gate.receipt.authority, a \in Issued,
         Loose(h) \/ (Expects(h.gate, "accepted", 1) /\ Expects(h.gate, "rejected", 1)),
         NEW r, r = submit_native(h, a, t)
  PROVE  Carried(r)
<1> DEFINE work == [authority |-> a, is_cancelled |-> FALSE]
           b == [h.adapter EXCEPT !.reject_next = FALSE]
           x == [h EXCEPT !.adapter = b]
           z == emit(h, a, accepted_calls, t)
           g == h.gate
<1>1. /\ h \in HostRecord /\ h.adapter \in Adapter /\ Old(a, g) /\ a.operation_id \in Nat
      /\ t \in Time /\ GateOK(g, t) /\ h.staged \in Seq(Event)
      /\ InForce(g) /\ MutedOld(h) /\ h.prepared = {} /\ h.adapter.pending = {}
      /\ has_receipt(g)
  BY IssuedIs DEF Sound, Base, HostRecord, Old, InReach, Issued, has_receipt
<1>2. CASE h.adapter.reject_next
  <2>1. b \in Adapter /\ b.pending = h.adapter.pending
    BY <1>1 DEF Adapter
  <2> DEFINE calls == rejected_calls
             f == EventsOf(a, calls, t)[1]
  <2>2. r = emit(x, a, calls, t)
    <3> DEFINE y == [h EXCEPT !.adapter.reject_next = FALSE]
    <3>1. y = x
      BY <1>1 DEF HostRecord
    <3> HIDE DEF x
    <3>2. r = then(y, LAMBDA q : emit(q, a, rejected_calls, t))
      BY <1>2 DEF submit_native
    <3> HIDE DEF y
    <3> QED BY <3>1, <3>2 DEF then
  <2>3. calls[1][1] = "rejected" /\ calls[1][2] = 1
    BY DEF rejected_calls
  <2>4. calls \in Seq(Call) /\ calls # <<>> /\ Chain(calls)
    BY CallLists, Chains
  <2> HIDE DEF b, calls
  <2>5. /\ x \in HostRecord /\ x.gate = g /\ x.adapter = b /\ x.staged = h.staged
        /\ x.prepared = {} /\ x.muted = h.muted
    BY <1>1, <2>1, AdapterFields
  <2>6. f \in Event /\ f.kind = "rejected" /\ f.sequence = 1 /\ f.observed_at = t
    BY <1>1, <2>3, <2>4, FirstEvent
  <2> HIDE DEF f, x, g
  <2>7. ~Loose(h) => Opens(x.staged, x.gate, f)
    <3> SUFFICES ASSUME ~Loose(h) PROVE Opens(x.staged, x.gate, f)
      OBVIOUS
    <3>1. Awaits(g, f)
      BY <1>1, <2>6, UntilNow DEF Awaits, g
    <3>2. Trail(h.staged, g.receipt.authority, Len(h.staged))
      BY DEF InReach, g
    <3> QED BY <1>1, <2>5, <3>1, <3>2, EndOpens
  <2>8. MutedOld(x) /\ (Loose(h) => Loose(x))
    BY <1>1, <2>5 DEF MutedOld, Loose, g
  <2>9. a = x.gate.receipt.authority /\ x.adapter.pending = {} /\ InForce(x.gate)
    BY <1>1, <2>1, <2>5 DEF g
  <2> QED BY <1>1, <2>2, <2>4, <2>5, <2>7, <2>8, <2>9, ClosingCarried DEF f
<1>3. CASE ~h.adapter.reject_next
  <2> DEFINE calls == accepted_calls
             c == [z.adapter EXCEPT !.pending = {work}]
             y == [z EXCEPT !.adapter = c]
             events == EventsOf(a, calls, t)
             f == events[1]
  <2>1. calls \in Seq(Call) /\ calls # <<>> /\ z = emit(h, a, calls, t)
    BY CallLists
  <2>2. calls[1][1] = "accepted" /\ calls[1][2] = 1
    BY DEF accepted_calls
  <2>3. f \in Event /\ f.kind = "accepted" /\ f.sequence = 1 /\ f.observed_at = t
    <3> HIDE DEF calls
    <3> QED BY <1>1, <2>1, <2>2, FirstEvent
  <2>4. r = IF z.adapter.mode = "synchronous" THEN finish(z, work, t)
            ELSE [z EXCEPT !.adapter.pending = {work}]
    <3>1. r = then(z, LAMBDA q : IF q.adapter.mode = "synchronous"
                                    THEN finish(q, work, t)
                                    ELSE [q EXCEPT !.adapter.pending = {work}])
      BY <1>3 DEF submit_native, work, z
    <3> QED BY <3>1 DEF then
  <2> HIDE DEF z, work
  <2>5. Stages(z, h, a, events)
    <3> HIDE DEF calls
    <3> QED BY <1>1, <2>1, EmitIs
  <2>6. events = EventsOf(a, accepted_calls, t)
    OBVIOUS
  <2> HIDE DEF calls, events
  <2>7. Sound(z, t)
    BY <1>1, <2>1, EmitSound DEF g
  <2>8. /\ z.gate = g /\ z.prepared = {} /\ z.adapter.pending = {} /\ MutedOld(z)
        /\ h.muted \subseteq z.muted
        /\ Loose(z) \/ z.staged = h.staged \o events
        /\ z.staged = h.staged \o events \/ a.operation_id \in z.muted
    BY <1>1, <2>5 DEF Stages, MutedOld, Loose, Old
  <2> HIDE DEF g, f
  <2>9. Loose(z) \/ Announced(z.staged, z.gate)
    <3> SUFFICES ASSUME ~Loose(z) PROVE Announced(z.staged, g)
      BY <2>8
    <3>1. ~Loose(h) /\ z.staged = h.staged \o events
      BY <2>8 DEF Loose, g
    <3>2. Awaits(g, f)
      BY <1>1, <2>3, <3>1, UntilNow DEF Awaits, g
    <3>3. Trail(h.staged, a, Len(h.staged))
      BY <3>1 DEF InReach
    <3>4. a = g.receipt.authority
      BY DEF g
    <3>5. Announced(h.staged \o events, g)
      BY <1>1, <2>6, <3>2, <3>3, <3>4, EmitAnnounces DEF f
    <3> QED BY <3>1, <3>5
  <2>10. InHand(z) /\ a = z.gate.receipt.authority
    BY <1>1, <2>8, <2>9 DEF InHand, g
  <2>11. CASE z.adapter.mode = "synchronous"
    <3>1. a = work.authority
      BY DEF work
    <3> QED BY <2>4, <2>7, <2>10, <2>11, <3>1, FinishCarried
  <2>12. CASE z.adapter.mode # "synchronous"
    <3>1. z \in HostRecord /\ z.adapter \in Adapter
      BY <2>7 DEF Sound, Base, HostRecord
    <3>2. r = y
      BY <2>4, <2>12, <3>1 DEF HostRecord
    <3>3. work \in Work
      BY DEF work, Work
    <3>4. c \in Adapter /\ c.pending = {work}
      BY <3>1, <3>3 DEF Adapter
    <3> HIDE DEF c
    <3>5. /\ y.adapter = c /\ y.gate = z.gate /\ y.staged = z.staged
          /\ y.prepared = z.prepared /\ y.muted = z.muted
      BY <3>1, <3>4, AdapterFields
    <3> HIDE DEF y
    <3>6. InForce(y.gate) /\ MutedOld(y)
      BY <1>1, <2>8, <3>5 DEF MutedOld
    <3>7. CASE Loose(z)
      BY <3>2, <3>5, <3>6, <3>7, LooseCarried DEF Loose
    <3>8. CASE ~Loose(z)
      <4>1. Announced(y.staged, y.gate)
        BY <2>9, <3>5, <3>8
      <4>2. IsWorking(y)
        BY <2>8, <3>4, <3>5, <4>1 DEF IsWorking
      <4>3. y.gate.receipt.settlement = "pending"
        BY <4>1 DEF Announced, Awaits, Expects
      <4> QED BY <3>2, <3>6, <4>2, <4>3 DEF Carried, MutedOld
    <3> QED BY <3>7, <3>8
  <2> QED BY <2>11, <2>12
<1> QED BY <1>2, <1>3

\* The prepared request of the operation has been taken out and is dispatched.
LEMMA DispatchCarried ==
  ASSUME NEW h, NEW t, Sound(h, t), InReach(h), NEW a \in Issued, Old(a, h.gate),
         Loose(h) \/ (a = h.gate.receipt.authority /\ Expects(h.gate, "not_submitted", 1)),
         NEW r, r = dispatch(h, a, t)
  PROVE  Carried(r)
<1> DEFINE able == /\ worker_ready(h.adapter) /\ sink_ready(h.adapter)
                   /\ h.adapter.pending = {}
           due == observe_host_time(h, t)
           g == claim_dispatch(due.gate, a, t)
           x == [due EXCEPT !.gate = g]
           calls == not_executed_calls
           y == IF able THEN due ELSE h
           claims == able /\ claims_dispatch(due.gate, a, t)
           named == a = h.gate.receipt.authority /\ Expects(h.gate, "not_submitted", 1)
<1>1. /\ calls \in Seq(Call) /\ calls # <<>> /\ Chain(calls)
      /\ calls[1][1] = "not_submitted" /\ calls[1][2] = 1
  <2>1. calls[1][1] = "not_submitted" /\ calls[1][2] = 1
    BY DEF not_executed_calls
  <2> QED BY <2>1, CallLists, Chains
<1>2. r = IF claims THEN submit_native(x, a, t) ELSE emit(y, a, calls, t)
  BY DEF dispatch, then
<1>3. Sound(due, t) /\ Same(due, h)
  BY TimeSound DEF Calm
<1>4. Quiet(due, h)
  BY TimeKeeps DEF Keeps, InReach
<1> HIDE DEF able, due, calls, claims
<1>5. /\ t \in Time /\ 1 \in 1..5 /\ "not_submitted" \in EventKind
      /\ a.operation_id \in Nat
  BY IssuedIs DEF Sound, Base, EventKind
<1>6. /\ Sound(y, t) /\ Quiet(y, h)
  BY <1>3, <1>4, SameQuiet
<1> HIDE DEF y
\* y is what the call found, once it looked at the clock.
<1>7. ASSUME NEW z, Sound(z, t), Quiet(z, h)
      PROVE  /\ z \in HostRecord /\ z.gate \in Gate /\ GateOK(z.gate, t)
             /\ z.staged \in Seq(Event)
             /\ InForce(z.gate) /\ MutedOld(z) /\ z.prepared = {} /\ z.adapter.pending = {}
             /\ (Loose(z) <=> Loose(h)) /\ Old(a, z.gate)
             /\ ~Loose(h) => /\ a = z.gate.receipt.authority
                             /\ Expects(z.gate, "not_submitted", 1)
                             /\ Trail(z.staged, a, Len(z.staged))
  <2>1. z \in HostRecord /\ z.gate \in Gate /\ GateOK(z.gate, t) /\ z.staged \in Seq(Event)
    BY <1>7 DEF Sound, Base, HostRecord
  <2>2. /\ z.gate.receipt.authority = h.gate.receipt.authority
        /\ InForce(h.gate) => InForce(z.gate)
        /\ Expects(h.gate, "not_submitted", 1) => Expects(z.gate, "not_submitted", 1)
        /\ z.staged = h.staged /\ z.prepared = h.prepared /\ z.muted = h.muted
        /\ z.adapter.pending = {} <=> h.adapter.pending = {}
    BY <1>5, <1>7 DEF Quiet, Ahead
  <2>3. Loose(z) <=> Loose(h)
    BY <2>2 DEF Loose, has_receipt
  <2>4. InForce(z.gate) /\ MutedOld(z) /\ z.prepared = {} /\ z.adapter.pending = {}
        /\ Old(a, z.gate)
    BY <2>2 DEF InReach, MutedOld, Old
  <2>5. ~Loose(h) => /\ a = z.gate.receipt.authority
                     /\ Expects(z.gate, "not_submitted", 1)
                     /\ Trail(z.staged, a, Len(z.staged))
    BY <2>2 DEF InReach
  <2> QED BY <2>1, <2>3, <2>4, <2>5
<1>8. CASE ~claims
  <2> DEFINE f == EventsOf(a, calls, t)[1]
  <2>1. r = emit(y, a, calls, t)
    BY <1>2, <1>8
  <2>2. /\ y \in HostRecord /\ GateOK(y.gate, t) /\ y.staged \in Seq(Event)
        /\ InForce(y.gate) /\ MutedOld(y) /\ y.prepared = {} /\ y.adapter.pending = {}
        /\ (Loose(y) <=> Loose(h)) /\ Old(a, y.gate)
        /\ ~Loose(h) => /\ a = y.gate.receipt.authority
                        /\ Expects(y.gate, "not_submitted", 1)
                        /\ Trail(y.staged, a, Len(y.staged))
    BY <1>6, <1>7
  <2>3. CASE Loose(h)
    BY <1>1, <2>1, <2>2, <2>3, LooseEmit
  <2>4. CASE ~Loose(h)
    <3>1. f \in Event /\ f.kind = "not_submitted" /\ f.sequence = 1 /\ f.observed_at = t
      BY <1>1, <1>5, FirstEvent
    <3> HIDE DEF f
    <3>2. Awaits(y.gate, f)
      BY <2>2, <2>4, <3>1, UntilNow DEF Awaits
    <3>3. Opens(y.staged, y.gate, f)
      BY <2>2, <2>4, <3>2, EndOpens
    <3> QED BY <1>1, <1>5, <2>1, <2>2, <2>4, <3>3, ClosingCarried DEF f
  <2> QED BY <2>3, <2>4
<1>9. CASE claims
  <2>1. r = submit_native(x, a, t) /\ claims_dispatch(due.gate, a, t)
    BY <1>2, <1>9 DEF claims
  <2>2. /\ due \in HostRecord /\ GateOK(due.gate, t) /\ due.gate \in Gate
        /\ InForce(due.gate) /\ MutedOld(due) /\ due.prepared = {}
        /\ due.adapter.pending = {}
        /\ Loose(due) <=> Loose(h)
        /\ ~Loose(h) => /\ a = due.gate.receipt.authority
                        /\ Expects(due.gate, "not_submitted", 1)
                        /\ Trail(due.staged, a, Len(due.staged))
    BY <1>3, <1>4, <1>7
  <2>3. /\ OnlyReported(g, due.gate, t) /\ SameOutput(g, due.gate)
        /\ g.receipt.authority = a /\ g.receipt.dispatch = "submitted"
        /\ g.receipt.outcome = "pending" /\ has_receipt(g)
    BY <1>5, <2>1, <2>2, DispatchClaim
  <2>4. g.receipt.settlement = due.gate.receipt.settlement
    <3> DEFINE q == due.gate
    <3>1. q \in Gate /\ g = claim_dispatch(q, a, t) /\ claims_dispatch(q, a, t)
      BY <2>1, <2>2
    <3> HIDE DEF q, g
    <3>2. g = [q EXCEPT !.receipt.dispatch = "submitted", !.receipt.dispatched_at = {t}]
      BY <3>1 DEF claim_dispatch
    <3>3. q.receipt \in Receipt
      BY <3>1 DEF Gate
    <3>4. g.receipt = [q.receipt EXCEPT !.dispatch = "submitted", !.dispatched_at = {t}]
      BY <3>1, <3>2 DEF Gate
    <3>5. g.receipt.settlement = q.receipt.settlement
      BY <3>3, <3>4 DEF Receipt
    <3> QED BY <3>5 DEF q
  <2>5. ~Loose(h) => Expects(g, "accepted", 1) /\ Expects(g, "rejected", 1)
    BY <1>5, <2>1, <2>2, ClaimTaken
  <2> HIDE DEF g
  <2>6. InForce(g)
    BY <2>2, <2>3, <2>4, StillInForce
  <2>7. x = [due EXCEPT !.gate = g] /\ g \in Gate
    BY <2>3 DEF OnlyReported, GateOK
  <2>8. g.receipt.output = "accepted" <=> due.gate.receipt.output = "accepted"
    BY <2>3 DEF SameOutput
  <2> HIDE DEF x
  <2>9. Sound(x, t) /\ x.gate = g
    BY <1>3, <2>2, <2>3, <2>7, <2>8, ReportSound
  <2>10. /\ x.adapter = due.adapter /\ x.staged = due.staged /\ x.prepared = due.prepared
         /\ x.muted = due.muted
    BY <2>2, <2>7, GateFields
  <2>11. a = due.gate.receipt.authority
    BY <2>3 DEF OnlyReported, SameSubject
  <2>12. Loose(x) <=> Loose(h)
    BY <2>2, <2>3, <2>9, <2>10, <2>11 DEF Loose, has_receipt
  <2>13. InReach(x)
    BY <2>2, <2>3, <2>6, <2>9, <2>10, <2>11, <2>12 DEF InReach, MutedOld
  <2>14. Loose(x) \/ (Expects(x.gate, "accepted", 1) /\ Expects(x.gate, "rejected", 1))
    BY <2>5, <2>9, <2>12
  <2> QED BY <2>1, <2>3, <2>9, <2>13, <2>14, SubmitCarried
<1> QED BY <1>8, <1>9
-----------------------------------------------------------------------------
(* A staged event is reported                                                *)

\* Evidence settles nothing.
LEMMA EvidenceSettles ==
  ASSUME NEW g \in Gate, NEW e \in Event, e.kind \notin {"result", "settled"},
         NEW q, q = report_evidence(g, e)
  PROVE  q.receipt.settlement = g.receipt.settlement
<1> DEFINE z == g.receipt
           settled == record(SettlementSource, e.observed_at, e.sequence)
           n == [authority |-> e.authority, record |-> settled]
           o == [authority |-> e.authority, reason |-> "no_output", record |-> settled]
           v == [authority |-> e.authority, kind |-> e.kind,
                 native_identity |-> e.authority.operation_id,
                 record |-> record(NativeSource, e.observed_at, e.sequence)]
<1>1. z \in Receipt
  BY DEF Gate
<1>2. \/ q = observe_non_submission(g, n)
      \/ q = observe_output_not_delivered(g, o)
      \/ q = observe_native(g, v)
  <2>1. /\ e.kind \in NativeKind \/ e.kind \in {"not_submitted", "no_output"}
        /\ NativeKind \cap {"not_submitted", "no_output"} = {}
    BY DEF Event, EventKind, NativeKind
  <2>2. e.kind = "not_submitted" => q = observe_non_submission(g, n)
    BY <2>1 DEF report_evidence
  <2>3. e.kind = "no_output" => q = observe_output_not_delivered(g, o)
    BY <2>1 DEF report_evidence
  <2>4. e.kind \in NativeKind => q = observe_native(g, v)
    BY <2>1 DEF report_evidence
  <2> HIDE DEF n, o, v
  <2> QED BY <2>1, <2>2, <2>3, <2>4
<1> HIDE DEF n, o, v
<1>3. ASSUME NEW s, s.settlement = z.settlement, DOMAIN s = DOMAIN z,
             s = [k \in DOMAIN s |-> s[k]],
             q = [g EXCEPT !.receipt = refresh_authority_disposition(s)]
      PROVE  q.receipt.settlement = z.settlement
  <2> DEFINE r == refresh_authority_disposition(s)
  <2>1. r = [s EXCEPT !.disposition = authority_disposition(s)]
    BY DEF refresh_authority_disposition
  <2>2. "settlement" \in DOMAIN s
    BY <1>1, <1>3 DEF Receipt
  <2>3. r.settlement = z.settlement
    BY <1>3, <2>1, <2>2
  <2> HIDE DEF r
  <2>4. q.receipt = r
    BY <1>3 DEF Gate, r
  <2> QED BY <2>3, <2>4
<1>4. CASE q = observe_non_submission(g, n)
  <2> DEFINE s == [z EXCEPT !.dispatch = "not_submitted", !.outcome = "not_executed",
                            !.evidence["non_submission"] = {n.record}]
  <2>1. s.settlement = z.settlement /\ DOMAIN s = DOMAIN z /\ s = [k \in DOMAIN s |-> s[k]]
    BY <1>1 DEF Receipt
  <2>2. q = g \/ q = [g EXCEPT !.receipt = refresh_authority_disposition(s)]
    BY <1>4 DEF observe_non_submission
  <2> HIDE DEF s
  <2> QED BY <1>3, <2>1, <2>2
<1>5. CASE q = observe_output_not_delivered(g, o)
  <2> DEFINE s == [z EXCEPT !.output = "not_delivered", !.reason = {o.reason},
                            !.evidence["non_delivery"] = {o.record}]
  <2>1. s.settlement = z.settlement /\ DOMAIN s = DOMAIN z /\ s = [k \in DOMAIN s |-> s[k]]
    BY <1>1 DEF Receipt
  <2>2. q = g \/ q = [g EXCEPT !.receipt = refresh_authority_disposition(s)]
    BY <1>5 DEF observe_output_not_delivered
  <2> HIDE DEF s
  <2> QED BY <1>3, <2>1, <2>2
<1>6. CASE q = observe_native(g, v)
  <2> DEFINE evidence == IF z.evidence[v.kind] = {}
                           THEN [z.evidence EXCEPT ![v.kind] = {v.record}]
                           ELSE z.evidence
             acceptance == IF v.kind \in {"accepted", "rejected"}
                             THEN v.kind ELSE z.acceptance
             outcome == native_outcome(z, v.kind, evidence)
             s == [z EXCEPT !.evidence = evidence,
                            !.native_identity = {v.native_identity},
                            !.acceptance = acceptance, !.outcome = outcome]
             last == {[kind |-> v.kind, record |-> v.record]}
             p == [g EXCEPT !.receipt = refresh_authority_disposition(s)]
  <2>1. q = g \/ q = [g EXCEPT !.receipt = refresh_authority_disposition(s),
                               !.last_native = last]
    BY <1>1, <1>6 DEF observe_native, apply_native
  <2> HIDE DEF evidence, acceptance, outcome, last
  <2>2. s.settlement = z.settlement /\ DOMAIN s = DOMAIN z /\ s = [k \in DOMAIN s |-> s[k]]
    BY <1>1 DEF Receipt
  <2> HIDE DEF s
  <2> DEFINE r == refresh_authority_disposition(s)
  <2>3. r = [s EXCEPT !.disposition = authority_disposition(s)]
    BY DEF refresh_authority_disposition
  <2>4. "settlement" \in DOMAIN s
    BY <1>1, <2>2 DEF Receipt
  <2>5. r.settlement = z.settlement
    BY <2>2, <2>3, <2>4
  <2> HIDE DEF r
  <2>6. q = g \/ q.receipt = r
    BY <2>1 DEF Gate, r
  <2> QED BY <2>5, <2>6
<1> QED BY <1>2, <1>4, <1>5, <1>6

\* The first staged event is the one the gate waits for.
Led(h) ==
  LET n == Len(h.staged)
  IN  /\ ~Loose(h) /\ InForce(h.gate) /\ MutedOld(h) /\ h.prepared = {}
      /\ h.staged # <<>> /\ Trail(h.staged, h.gate.receipt.authority, 0)
      /\ Awaits(h.gate, h.staged[1])
      /\ \/ /\ h.adapter.pending # {} /\ n = 1
            /\ h.staged[1].kind = "accepted" /\ h.staged[1].sequence = 1
         \/ h.adapter.pending = {} /\ h.staged[n].kind = "settled"

\* It is, or it is a result that was replayed, or of another operation.
LEMMA HeadLeads ==
  ASSUME NEW h \in HostRecord, Carried(h), h.staged # <<>>,
         NEW x, x = [h EXCEPT !.staged = Tail(@)]
  PROVE  \/ Loose(h)
         \/ Led(h)
         \/ /\ Carried(x)
            /\ h.staged[1].authority = h.gate.receipt.authority
                 => h.staged[1].kind = "result"
<1> DEFINE g == h.gate
           a == g.receipt.authority
           list == h.staged
           rest == Tail(list)
           n == Len(list)
<1>1. /\ list \in Seq(Event) /\ list # <<>> /\ rest \in Seq(Event)
      /\ n \in Nat \ {0} /\ Len(rest) = n - 1
      /\ \A i \in 1..n - 1 : rest[i] = list[i + 1]
  BY TailIs DEF HostRecord
<1>2. ASSUME NEW b, Trail(list, a, b)
      PROVE  /\ b # 0 => /\ Trail(rest, a, b - 1)
                         /\ list[1].authority = a => list[1].kind = "result"
             /\ b = 0 => /\ Trail(rest, a, 0) /\ list[1].authority = a
  BY <1>1, <1>2, TrailTail
<1>3. /\ x.gate = g /\ x.adapter = h.adapter /\ x.staged = rest
      /\ x.prepared = h.prepared /\ x.muted = h.muted
  BY DEF HostRecord
<1>4. InForce(g) /\ MutedOld(h)
  BY DEF Carried, MutedOld
<1> DEFINE ordinary == list[1].authority = a => list[1].kind = "result"
           last == n - 1
<1>5. last \in Nat /\ n # 0 /\ last + 1 = n /\ Len(rest) = last
  BY <1>1
<1> HIDE DEF g, a, list, rest, n, last
<1> SUFFICES ASSUME ~Loose(h) PROVE Led(h) \/ (Carried(x) /\ ordinary)
  BY DEF list, a, g
<1>6. CASE Trail(list, a, n) /\ (IsOver(h) \/ IsPrepared(h) \/
              (h.prepared = {} /\ h.adapter.pending # {} /\ Expects(g, "started", 2)))
  <2>1. Trail(rest, a, last) /\ ordinary
    BY <1>2, <1>5, <1>6 DEF last
  <2> HIDE DEF ordinary
  <2>2. CASE IsOver(h)
    <3>1. IsOver(x)
      BY <1>3, <1>5, <2>1, <2>2 DEF IsOver, g, a
    <3>2. g.receipt.settlement = "settled"
      BY <2>2 DEF IsOver, IsReleased, has_resolved_closure, g
    <3> QED BY <1>3, <1>4, <2>1, <3>1, <3>2 DEF Carried, MutedOld, g
  <2>3. CASE IsPrepared(h)
    <3>1. IsPrepared(x)
      BY <1>3, <1>5, <2>1, <2>3 DEF IsPrepared, g, a
    <3>2. g.receipt.settlement = "pending"
      BY <2>3 DEF IsPrepared, Expects, g
    <3> QED BY <1>3, <1>4, <2>1, <3>1, <3>2 DEF Carried, MutedOld, g
  <2>4. CASE h.prepared = {} /\ h.adapter.pending # {} /\ Expects(g, "started", 2)
    <3>1. IsWorking(x)
      BY <1>3, <1>5, <2>1, <2>4 DEF IsWorking, Reported, g, a
    <3>2. g.receipt.settlement = "pending"
      BY <2>4 DEF Expects
    <3> QED BY <1>3, <1>4, <2>1, <3>1, <3>2 DEF Carried, MutedOld, g
  <2> QED BY <1>6, <2>2, <2>3, <2>4
<1>7. CASE h.prepared = {} /\ h.adapter.pending # {} /\ Announced(list, g)
  <2>1. /\ Trail(list, a, last) /\ list[n].kind = "accepted" /\ list[n].sequence = 1
        /\ Awaits(g, list[n])
    BY <1>5, <1>7 DEF Announced, n, last, a
  <2>2. CASE last = 0
    <3>1. n = 1
      BY <1>5, <2>2
    <3> QED BY <1>1, <1>4, <1>7, <2>1, <2>2, <3>1 DEF Led, n, list, a, g
  <2>3. CASE last # 0
    <3>1. Trail(rest, a, last - 1) /\ ordinary
      BY <1>2, <2>1, <2>3
    <3> HIDE DEF ordinary
    <3>2. rest[last] = list[n]
      BY <1>1, <1>5, <2>3 DEF last
    <3>3. Announced(rest, g)
      BY <1>5, <2>1, <2>3, <3>1, <3>2 DEF Announced, a
    <3>4. IsWorking(x)
      BY <1>3, <1>7, <3>3 DEF IsWorking
    <3>5. g.receipt.settlement = "pending"
      BY <2>1 DEF Awaits, Expects
    <3> QED BY <1>3, <1>4, <3>1, <3>4, <3>5 DEF Carried, MutedOld, g
  <2> QED BY <2>2, <2>3
<1>8. CASE h.prepared = {} /\ h.adapter.pending = {} /\ Leads(list, g)
  <2>1. n # 0 /\ list[n].kind = "settled"
    BY <1>8 DEF Leads, n
  <2>2. PICK b \in 0..n - 1 : Trail(list, a, b) /\ Awaits(g, list[b + 1])
    BY <1>8 DEF Leads, n, a
  <2>3. CASE b = 0
    <3>1. Trail(list, a, 0) /\ Awaits(g, list[1])
      BY <2>2, <2>3
    <3> QED BY <1>1, <1>4, <1>8, <2>1, <3>1 DEF Led, n, list, a, g
  <2>4. CASE b # 0
    <3> DEFINE c == b - 1
    <3>1. c \in 0..last - 1 /\ c + 1 = b /\ b \in 1..last /\ last # 0
      BY <1>1, <1>5, <2>2, <2>4 DEF last
    <3>2. Trail(rest, a, c) /\ ordinary
      BY <1>2, <2>2, <2>4
    <3> HIDE DEF ordinary, c
    <3>3. rest[c + 1] = list[b + 1] /\ rest[last] = list[n]
      BY <1>1, <1>5, <3>1 DEF last
    <3>4. Awaits(g, rest[c + 1]) /\ rest[last].kind = "settled"
      BY <2>1, <2>2, <3>3
    <3>5. Leads(rest, g)
      BY <1>5, <3>1, <3>2, <3>4 DEF Leads, a
    <3>6. IsReporting(x)
      BY <1>3, <1>8, <3>5 DEF IsReporting
    <3>7. g.receipt.settlement = "pending"
      BY <2>2 DEF Awaits, Expects
    <3> QED BY <1>3, <1>4, <3>2, <3>6, <3>7 DEF Carried, MutedOld, g
  <2> QED BY <2>3, <2>4
<1>9. IsOver(h) \/ IsPrepared(h) \/ IsWorking(h) \/ IsReporting(h)
  BY DEF Carried, Loose
<1>10. /\ IsOver(h) => Trail(list, a, n)
       /\ IsPrepared(h) => Trail(list, a, n)
       /\ IsWorking(h) =>
            /\ h.prepared = {} /\ h.adapter.pending # {}
            /\ (Trail(list, a, n) /\ Expects(g, "started", 2)) \/ Announced(list, g)
       /\ IsReporting(h) => h.prepared = {} /\ h.adapter.pending = {} /\ Leads(list, g)
  BY DEF IsOver, IsPrepared, IsWorking, Reported, IsReporting, list, a, g, n
<1> QED BY <1>6, <1>7, <1>8, <1>9, <1>10

\* The gate after an event was reported to it, and the host it is reported by.
After(g, e, ready, t) ==
  IF e.kind = "result" THEN ResultOn(g, e.authority, ready, t)
  ELSE IF e.kind = "settled"
    THEN observe_settlement(g,
           [authority |-> e.authority, permits_same_domain_admission |-> TRUE,
            record |-> record(SettlementSource, t, e.sequence)])
  ELSE report_evidence(g, e)

AtItsTime(h, e, t) == IF e.kind \in {"result", "settled"} THEN observe_host_time(h, t) ELSE h

\* The sink is asked for what may be delivered now.
Timely(g, e, t) ==
  e.kind = "result" /\ can_deliver_result(g, e.authority)
    => ~has_reached_deadline(g.receipt, t)

\* The clock is read before a result and before a settlement.
LEMMA DueIs ==
  ASSUME NEW h, NEW t, Sound(h, t), NEW e, NEW due, due = AtItsTime(h, e, t)
  PROVE  Sound(due, t) /\ Same(due, h) /\ Keeps(due, h) /\ Timely(due.gate, e, t)
<1>1. CASE e.kind \in {"result", "settled"}
  <2>1. due = observe_host_time(h, t)
    BY <1>1 DEF AtItsTime
  <2> QED BY <2>1, TimeSound, TimeKeeps DEF Timely, Calm
<1>2. CASE e.kind \notin {"result", "settled"}
  BY <1>2, SameQuiet DEF AtItsTime, Timely, Same
<1> QED BY <1>1, <1>2

\* What the host reports is what the gate makes of it.
LEMMA ReportIs ==
  ASSUME NEW h, NEW t, Sound(h, t), NEW e \in Event, NEW due, due = AtItsTime(h, e, t),
         NEW r, r = report(h, e, t)
  PROVE  /\ r.gate = After(due.gate, e, sink_ready(due.adapter), t)
         /\ r.staged = due.staged /\ r.prepared = due.prepared
         /\ r.adapter = due.adapter /\ r.muted = due.muted
<1>1. due \in HostRecord
  BY DueIs DEF Sound, Base
<1>2. CASE e.kind = "result"
  <2> DEFINE a == e.authority
             ready == sink_ready(due.adapter)
             p == record(ResultSinkObserver, t, 1)
             q(why) == observe_output_not_delivered(due.gate,
                         [authority |-> a, reason |-> why, record |-> p])
             lost(why) == [due EXCEPT !.gate = q(why)]
             g == observe_output_accepted(due.gate, [authority |-> a, record |-> p])
             more == Append(due.results, a)
             delivered == [due EXCEPT !.results = more, !.gate = g]
             z == After(due.gate, e, ready, t)
  <2>1. due = observe_host_time(h, t)
    BY <1>2 DEF AtItsTime
  <2>2. r = IF ~can_deliver_result(due.gate, a) THEN lost("authority_revoked")
            ELSE IF ~ready THEN lost("sink_rejected") ELSE delivered
    BY <1>2, <2>1 DEF report, report_result, then, permits_result
  <2>3. z = IF ~can_deliver_result(due.gate, a) THEN q("authority_revoked")
            ELSE IF ~ready THEN q("sink_rejected") ELSE g
    BY <1>2 DEF After, ResultOn
  <2> HIDE DEF q, g, more, p, z, ready, a
  <2>4. ASSUME NEW why
        PROVE  /\ lost(why).gate = q(why) /\ lost(why).staged = due.staged
               /\ lost(why).prepared = due.prepared
               /\ lost(why).adapter = due.adapter /\ lost(why).muted = due.muted
    BY <1>1 DEF HostRecord
  <2>5. /\ delivered.gate = g /\ delivered.staged = due.staged
        /\ delivered.prepared = due.prepared
        /\ delivered.adapter = due.adapter /\ delivered.muted = due.muted
    BY <1>1 DEF HostRecord
  <2> HIDE DEF lost, delivered
  <2>6. /\ r.gate = z /\ r.staged = due.staged /\ r.prepared = due.prepared
        /\ r.adapter = due.adapter /\ r.muted = due.muted
    BY <2>2, <2>3, <2>4, <2>5
  <2> QED BY <2>6 DEF z, ready
<1>3. CASE e.kind = "settled"
  <2> DEFINE q == After(due.gate, e, sink_ready(due.adapter), t)
  <2>1. due = observe_host_time(h, t)
    BY <1>3 DEF AtItsTime
  <2>2. r = [due EXCEPT !.gate = observe_settlement(@,
               [authority |-> e.authority, permits_same_domain_admission |-> TRUE,
                record |-> record(SettlementSource, t, e.sequence)])]
    BY <1>3, <2>1 DEF report, report_settlement, then
  <2>3. r = [due EXCEPT !.gate = q]
    BY <1>3, <2>2 DEF After
  <2> HIDE DEF q
  <2>4. /\ r.gate = q /\ r.staged = due.staged /\ r.prepared = due.prepared
        /\ r.adapter = due.adapter /\ r.muted = due.muted
    BY <1>1, <2>3 DEF HostRecord
  <2> QED BY <2>4 DEF q
<1>4. CASE e.kind \notin {"result", "settled"}
  <2> DEFINE q == After(due.gate, e, sink_ready(due.adapter), t)
  <2>1. due = h
    BY <1>4 DEF AtItsTime
  <2>2. r = [due EXCEPT !.gate = q]
    BY <1>4, <2>1 DEF report, After
  <2> HIDE DEF q
  <2>3. /\ r.gate = q /\ r.staged = due.staged /\ r.prepared = due.prepared
        /\ r.adapter = due.adapter /\ r.muted = due.muted
    BY <1>1, <2>2 DEF HostRecord
  <2> QED BY <2>3 DEF q
<1> QED BY <1>2, <1>3, <1>4

\* A settlement, as the gate takes it or does not.
LEMMA SettlementSettles ==
  ASSUME NEW g \in Gate, NEW e, NEW q, q = observe_settlement(g, e)
  PROVE  q = g \/ g.receipt.settlement = "pending"
<1>1. g.receipt.settlement \in {"pending", "settled"}
  BY DEF Gate, Receipt
<1> QED BY <1>1 DEF observe_settlement, accepts_settlement

\* Whatever is reported, an operation that is not settled is in force.
LEMMA AfterInForce ==
  ASSUME NEW g, NEW t \in Time, GateOK(g, t), InForce(g), NEW e \in Event,
         e.observed_at <= t, Timely(g, e, t), NEW ready, NEW q, q = After(g, e, ready, t)
  PROVE  InForce(q) /\ OnlyReported(q, g, t)
<1>1. g \in Gate /\ t <= t /\ e.sequence \in 1..5
  BY TimeIs DEF GateOK, Event
<1>2. CASE e.kind = "result"
  <2>1. q = ResultOn(g, e.authority, ready, t)
    BY <1>2 DEF After
  <2>2. can_deliver_result(g, e.authority) => ~has_reached_deadline(g.receipt, t)
    BY <1>2 DEF Timely
  <2> QED BY <2>1, <2>2, ResultReported, ResultAhead DEF Ahead
<1>3. CASE e.kind = "settled"
  <2> DEFINE p == record(SettlementSource, t, e.sequence)
             v == [authority |-> e.authority, permits_same_domain_admission |-> TRUE,
                   record |-> p]
  <2>1. p \in EvidenceRecord /\ p.observed_at <= t
    BY <1>1, RecordIs
  <2> HIDE DEF p
  <2>2. q = observe_settlement(g, v)
    BY <1>3 DEF After, p
  <2>3. OnlyReported(q, g, t)
    BY <2>1, <2>2, SettlementReport
  <2> HIDE DEF v
  <2> QED BY <1>1, <2>2, <2>3, SettlementSettles, ReportedInForce
<1>4. CASE e.kind \notin {"result", "settled"}
  <2>1. q = report_evidence(g, e)
    BY <1>4 DEF After
  <2>2. OnlyReported(q, g, t)
    BY <1>4, <2>1, EvidenceReported
  <2>3. q.receipt.settlement = g.receipt.settlement
    BY <1>1, <1>4, <2>1, EvidenceSettles
  <2> QED BY <2>2, <2>3, StillInForce
<1> QED BY <1>2, <1>3, <1>4

\* A replayed result, or a report of another operation, leaves the gate waiting for
\* the same call.
LEMMA AfterAhead ==
  ASSUME NEW g, NEW t \in Time, GateOK(g, t), NEW e \in Event, Timely(g, e, t),
         e.authority = g.receipt.authority => e.kind = "result",
         NEW ready, NEW q, q = After(g, e, ready, t)
  PROVE  Ahead(q, g)
<1>1. CASE e.kind = "result"
  <2>1. q = ResultOn(g, e.authority, ready, t)
    BY <1>1 DEF After
  <2>2. can_deliver_result(g, e.authority) => ~has_reached_deadline(g.receipt, t)
    BY <1>1 DEF Timely
  <2> QED BY <2>1, <2>2, ResultAhead
<1>2. CASE e.kind # "result"
  <2>1. q = g
    BY <1>2, OtherIgnored DEF After
  <2> QED BY <2>1, SameAhead
<1> QED BY <1>1, <1>2

\* The gate takes the first staged event, and waits for the next one, if there is one.
LEMMA LedTaken ==
  ASSUME NEW h, NEW t, Sound(h, t), Led(h), NEW x, x = [h EXCEPT !.staged = Tail(@)],
         NEW e, e = h.staged[1], NEW z, Sound(z, t), Quiet(z, x), Timely(z.gate, e, t),
         NEW ready, NEW q, q = After(z.gate, e, ready, t),
         NEW r, r.gate = q, r.staged = z.staged, r.prepared = z.prepared,
         r.adapter = z.adapter, r.muted = z.muted
  PROVE  Carried(r)
<1> DEFINE g == z.gate
           a == g.receipt.authority
           list == h.staged
           rest == Tail(list)
           n == Len(list)
           last == n - 1
           f == list[2]
<1>1. /\ h \in HostRecord /\ list \in Seq(Event) /\ t \in Time /\ GateOK(g, t)
      /\ g \in Gate
  BY DEF Sound, Base, HostRecord, GateOK
<1>2. /\ list # <<>> /\ Trail(list, h.gate.receipt.authority, 0)
      /\ h.prepared = {} /\ InForce(h.gate) /\ MutedOld(h) /\ ~Loose(h)
      /\ Awaits(h.gate, e)
      /\ \/ h.adapter.pending # {} /\ n = 1 /\ e.kind = "accepted" /\ e.sequence = 1
         \/ h.adapter.pending = {} /\ list[n].kind = "settled"
  BY DEF Led
<1>3. /\ n \in Nat \ {0} /\ Len(rest) = last /\ last \in Nat /\ last + 1 = n
      /\ \A i \in 1..last : rest[i] = list[i + 1]
      /\ e \in Event /\ e = list[1]
  BY <1>1, <1>2, TailIs
<1>4. e.observed_at <= t /\ e.sequence \in 1..5
  <2>1. 1 \in DOMAIN list
    BY <1>1, <1>2
  <2> QED BY <1>3, <2>1, StagedIs DEF Event
<1>5. /\ x.gate = h.gate /\ x.adapter = h.adapter /\ x.staged = rest
      /\ x.prepared = h.prepared /\ x.muted = h.muted
  BY <1>1 DEF HostRecord
<1>6. /\ a = h.gate.receipt.authority /\ InForce(g) /\ Awaits(g, e)
      /\ z.staged = rest /\ z.prepared = {} /\ z.muted = h.muted
      /\ z.adapter.pending = {} <=> h.adapter.pending = {}
  BY <1>2, <1>3, <1>5 DEF Quiet, Ahead
<1>7. /\ Trail(rest, a, 0) /\ e.authority = a
      /\ n # 1 => Precedes(e, f)
  <2>1. Trail(list, a, 0)
    BY <1>2, <1>6
  <2> HIDE DEF a, rest, f
  <2>2. /\ Trail(rest, a, 0) /\ list[1].authority = a
        /\ Len(list) # 1 => Precedes(list[1], list[2])
    BY <1>1, <1>2, <2>1, TrailTail DEF rest
  <2> QED BY <1>3, <2>2 DEF f
<1>8. has_receipt(g) /\ a.operation_id \notin h.muted
  BY <1>2, <1>6 DEF Loose, has_receipt
<1>9. /\ Expects(g, e.kind, e.sequence) /\ g.receipt.settlement = "pending"
      /\ current_authority_matches(g, a)
  BY <1>6, <1>8 DEF Awaits, Expects, InForce, current_authority_matches
<1>10. InForce(q) /\ q.receipt.authority = a /\ MutedOld(r)
  <2>1. InForce(q) /\ OnlyReported(q, g, t)
    BY <1>1, <1>3, <1>4, <1>6, AfterInForce
  <2> QED BY <1>2, <1>6, <2>1 DEF OnlyReported, SameSubject, MutedOld
<1>11. q = After(g, e, ready, t) /\ Timely(g, e, t) /\ r.staged = rest /\ r.prepared = {}
       /\ r.gate = q
  BY <1>6
<1> HIDE DEF g, a, list, rest, n, last, f
\* What is left leads to the settlement.
<1>12. ASSUME h.adapter.pending = {}, n # 1, Awaits(q, f)
       PROVE  Carried(r)
  <2>1. last # 0 /\ 1 \in 1..last /\ last \in 1..last /\ 0 \in 0..last - 1
    BY <1>3, <1>12
  <2>2. rest[1] = f /\ rest[last] = list[n]
    BY <1>3, <2>1 DEF f
  <2> DEFINE b == 0
             i == b + 1
  <2>3. b \in 0..last - 1 /\ i = 1 /\ Trail(rest, a, b) /\ Awaits(q, rest[i])
    BY <1>7, <1>12, <2>1, <2>2
  <2>4. list[n].kind = "settled"
    BY <1>2, <1>12
  <2> HIDE DEF b
  <2>5. Leads(rest, q)
    BY <1>3, <1>10, <2>1, <2>2, <2>3, <2>4 DEF Leads
  <2>6. IsReporting(r)
    BY <1>6, <1>11, <1>12, <2>5 DEF IsReporting
  <2>7. q.receipt.settlement = "pending"
    BY <1>12 DEF Awaits, Expects
  <2> QED BY <1>10, <1>11, <2>6, <2>7 DEF Carried, MutedOld
<1>13. CASE h.adapter.pending # {}
  <2>1. n = 1 /\ e.kind = "accepted" /\ e.sequence = 1
    BY <1>2, <1>13
  <2>2. q = report_evidence(g, e)
    BY <1>11, <2>1 DEF After
  <2>3. Expects(q, "started", 2)
    BY <1>1, <1>3, <1>4, <1>6, <1>7, <1>8, <2>1, <2>2, AcceptanceTaken DEF a
  <2>4. Reported(rest, q)
    BY <1>3, <1>7, <1>10, <2>1, <2>3 DEF Reported, last
  <2>5. IsWorking(r)
    BY <1>6, <1>11, <1>13, <2>4 DEF IsWorking
  <2>6. q.receipt.settlement = "pending"
    BY <2>3 DEF Expects
  <2> QED BY <1>10, <1>11, <2>5, <2>6 DEF Carried, MutedOld
<1>14. CASE h.adapter.pending = {} /\ e.kind = "settled"
  <2>1. n = 1
    BY <1>7, <1>14, FollowerIs
  <2> DEFINE p == record(SettlementSource, t, e.sequence)
             close == [authority |-> a, permits_same_domain_admission |-> TRUE, record |-> p]
  <2>2. /\ p \in EvidenceRecord /\ p.observed_at = t
        /\ p.source = SettlementSource /\ p.sequence # 0 /\ p.sequence = e.sequence
    <3>1. p.sequence = e.sequence
      BY DEF record
    <3> QED BY <1>1, <1>4, <3>1, RecordIs
  <2>3. q = observe_settlement(g, close)
    BY <1>7, <1>11, <1>14 DEF After
  <2>4. /\ close.authority = a /\ close.permits_same_domain_admission = TRUE
        /\ close.record = p
    OBVIOUS
  <2> HIDE DEF p, close
  <2>5. a = g.receipt.authority
    BY DEF a
  <2>6. Expects(g, "settled", p.sequence)
    BY <1>9, <1>14, <2>2
  <2>8. IsReleased(q)
    BY <1>1, <1>9, <2>2, <2>3, <2>4, <2>5, <2>6, SettlementTaken
  <2>7. q.receipt.settlement = "settled"
    BY <2>8 DEF IsReleased, has_resolved_closure
  <2>9. Len(rest) = 0
    BY <1>3, <2>1 DEF last
  <2>10. IsOver(r)
    BY <1>6, <1>7, <1>10, <1>11, <1>14, <2>8, <2>9 DEF IsOver
  <2> QED BY <1>10, <1>11, <2>7, <2>10 DEF Carried, MutedOld
<1>15. CASE h.adapter.pending = {} /\ e.kind # "settled"
  <2>1. n # 1 /\ Precedes(e, f)
    BY <1>2, <1>3, <1>7, <1>15
  <2>2. f \in Event
    <3>1. 2 \in 1..n
      BY <1>3, <2>1
    <3> QED BY <1>1, <3>1, EventAt DEF f, n, list
  <2>3. CASE e.kind = "result"
    <3> DEFINE k == 4
               five == k + 1
    <3>1. e.sequence = k /\ f.kind = "settled" /\ f.sequence = 5
      BY <2>1, <2>3, FollowerIs
    <3>2. five = k + 1 /\ k \in Nat
      OBVIOUS
    <3>9. five = 5
      OBVIOUS
    <3>3. Expects(g, "result", k)
      BY <1>9, <2>3, <3>1
    <3>4. q = ResultOn(g, a, ready, t)
      BY <1>7, <1>11, <2>3 DEF After
    <3>5. can_deliver_result(g, a) => ~has_reached_deadline(g.receipt, t)
      BY <1>7, <1>11, <2>3 DEF Timely
    <3>6. a = g.receipt.authority
      BY DEF a
    <3> HIDE DEF k, five
    <3>10. t \in Time /\ GateOK(g, t) /\ InForce(g) /\ has_receipt(g)
      BY <1>1, <1>6, <1>8
    <3> DEFINE answered == ResultOn(g, a, ready, t)
    <3>11. answered = ResultOn(g, a, ready, t)
      OBVIOUS
    <3> HIDE DEF answered
    <3>12. Expects(answered, "settled", five)
      BY <3>2, <3>3, <3>5, <3>6, <3>10, <3>11, ResultTaken
    <3>7. Expects(q, "settled", five)
      BY <3>4, <3>11, <3>12
    <3>8. Awaits(q, f)
      BY <3>1, <3>9, <3>7 DEF Awaits
    <3> QED BY <1>12, <1>15, <2>1, <3>8
  <2>4. CASE e.kind # "result"
    <3>1. q = report_evidence(g, e)
      BY <1>11, <1>15, <2>4 DEF After
    <3>2. Awaits(q, f)
      BY <1>1, <1>3, <1>4, <1>6, <1>7, <1>8, <1>15, <2>1, <2>2, <2>4, <3>1, HeadTaken DEF a
    <3> QED BY <1>12, <1>15, <2>1, <3>2
  <2> QED BY <2>3, <2>4
<1> QED BY <1>13, <1>14, <1>15

\* The first staged event is reported.
LEMMA ReportCarried ==
  ASSUME NEW h, NEW t, Sound(h, t), Carried(h), h.staged # <<>>,
         NEW x, x = [h EXCEPT !.staged = Tail(@)],
         NEW e, e = Head(h.staged), NEW r, r = report(x, e, t)
  PROVE  Carried(r)
<1> DEFINE z == AtItsTime(x, e, t)
           ready == sink_ready(z.adapter)
           q == After(z.gate, e, ready, t)
<1>1. h \in HostRecord /\ h.staged \in Seq(Event) /\ t \in Time
  BY DEF Sound, Base, HostRecord
<1>2. /\ Sound(x, t) /\ Same(x, h) /\ x.gate = h.gate
      /\ e \in Event /\ e.observed_at <= t
  BY PopSound
<1>3. e = h.staged[1]
  BY <1>1, TailIs
<1>4. x.prepared = h.prepared /\ x.muted = h.muted
  BY <1>1 DEF HostRecord
<1>5. Sound(z, t) /\ Same(z, x) /\ Keeps(z, x) /\ Timely(z.gate, e, t)
  BY <1>2, DueIs
<1>6. /\ r.gate = q /\ r.staged = z.staged /\ r.prepared = z.prepared
      /\ r.adapter = z.adapter /\ r.muted = z.muted
  BY <1>2, ReportIs
<1>7. GateOK(z.gate, t) /\ z.staged \in Seq(Event)
  BY <1>5 DEF Sound, Base, HostRecord
<1>8. q = After(z.gate, e, ready, t)
  OBVIOUS
<1>9. z.gate.receipt.authority = h.gate.receipt.authority
  BY <1>2, <1>5 DEF Same
<1> HIDE DEF z, ready, q
<1>10. CASE Loose(h)
  <2>1. Loose(x) /\ InForce(x.gate) /\ MutedOld(x)
    BY <1>2, <1>4, <1>10 DEF Carried, Loose, MutedOld
  <2>2. Carried(z)
    BY <1>5, <2>1, LooseCarried DEF Keeps
  <2>3. Loose(z) /\ InForce(z.gate) /\ MutedOld(z)
    BY <1>4, <1>5, <1>9, <1>10, <2>2 DEF Carried, Loose, MutedOld, Keeps, has_receipt
  <2>4. InForce(q) /\ OnlyReported(q, z.gate, t)
    BY <1>1, <1>2, <1>5, <1>7, <1>8, <2>3, AfterInForce
  <2>5. Loose(r) /\ MutedOld(r) /\ InForce(r.gate)
    BY <1>6, <2>3, <2>4 DEF OnlyReported, SameSubject, Loose, MutedOld, has_receipt
  <2> QED BY <2>5, LooseCarried
<1>11. CASE Led(h)
  <2>1. Quiet(z, x)
    BY <1>4, <1>5, <1>11 DEF Led, Keeps
  <2> QED BY <1>3, <1>5, <1>6, <1>8, <1>11, <2>1, LedTaken
<1>12. CASE /\ Carried(x)
            /\ h.staged[1].authority = h.gate.receipt.authority
                 => h.staged[1].kind = "result"
  <2>1. Carried(z)
    BY <1>5, <1>12 DEF Keeps
  <2>2. e.authority = z.gate.receipt.authority => e.kind = "result"
    BY <1>3, <1>9, <1>12
  <2>3. Ahead(q, z.gate)
    BY <1>1, <1>2, <1>5, <1>7, <1>8, <2>2, AfterAhead
  <2>4. Quiet(r, z)
    BY <1>6, <2>3 DEF Quiet
  <2> QED BY <1>7, <2>1, <2>4, QuietCarried
<1> QED BY <1>1, <1>10, <1>11, <1>12, HeadLeads

\* The host polls and reports the first staged event.
LEMMA ProcessCarried ==
  ASSUME NEW h, NEW t, Sound(h, t), Carried(h), NEW u \in Time, t <= u,
         NEW r, r = process_next(h, t, u)
  PROVE  Carried(r)
<1> DEFINE p == poll(h, t)
           x == [p EXCEPT !.staged = Tail(@)]
           e == Head(p.staged)
<1>1. r = IF p.staged = <<>> THEN p ELSE report(x, e, u)
  BY DEF process_next, then
<1>2. Sound(p, t) /\ Carried(p)
  BY PollSound, PollKeeps DEF Keeps
<1> HIDE DEF p
<1>3. Sound(p, u)
  BY <1>2, SoundLater
<1>4. CASE p.staged = <<>>
  BY <1>1, <1>2, <1>4
<1>5. CASE p.staged # <<>>
  <2>1. r = report(x, e, u) /\ x = [p EXCEPT !.staged = Tail(@)] /\ e = Head(p.staged)
    BY <1>1, <1>5
  <2> HIDE DEF x, e
  <2> QED BY <1>2, <1>3, <1>5, <2>1, ReportCarried
<1> QED BY <1>4, <1>5
-----------------------------------------------------------------------------
(* The public calls *)

\* The inductive invariant, of the state between two calls.
IInv ==
  /\ Sound(Host, last_time)
  /\ sequences \in [Concern -> 0..ObservationLimit]
  /\ Carried(Host)

\* What a call has to leave, at the time it read last.
Leaves(r, t) ==
  Sound(r, t) /\ Delivers(r, Host, t) /\ (Carried(Host) => Carried(r))

Stays ==
  /\ Sound(Host', last_time') /\ Delivers(Host', Host, last_time')
  /\ Carried(Host) => Carried(Host')

LEMMA Taken ==
  ASSUME NEW r, NEW t, Leaves(r, t), Becomes(r), last_time' = t PROVE Stays
<1>1. r \in HostRecord
  BY DEF Leaves, Sound, Base
<1>2. /\ gate' = r.gate /\ adapter' = r.adapter /\ staged' = r.staged
      /\ current' = r.current /\ prepared' = r.prepared
      /\ results' = r.results /\ stops' = r.stops /\ muted' = r.muted
  BY DEF Becomes
<1>3. Host' = r
  BY <1>1, <1>2 DEF Host, HostRecord
<1> QED BY <1>3 DEF Leaves, Stays

\* A call that keeps to what it found delivers nothing.
LEMMA SameLeaves ==
  ASSUME NEW r, NEW t, Sound(r, t), r.results = results, Carried(Host) => Carried(r)
  PROVE  Leaves(r, t)
BY DEF Leaves, Delivers, Host

\* What a call finds after it polled, at both of its reads of the clock.
LEMMA Polled ==
  ASSUME Sound(Host, last_time), NEW t \in Reads, NEW h, h = poll(Host, t[1])
  PROVE  /\ t[1] \in Time /\ t[2] \in Time /\ t[1] <= t[2]
         /\ Sound(Host, t[1]) /\ Sound(h, t[1]) /\ Sound(h, t[2]) /\ Calm(h, Host)
         /\ h.results = results /\ Keeps(h, Host)
<1>1. /\ t[1] \in Time /\ t[2] \in Time /\ t[1] <= t[2] /\ last_time <= t[1]
  BY TimeIs DEF Reads
<1>2. Sound(Host, t[1])
  BY <1>1, SoundLater
<1>3. Sound(h, t[1]) /\ Calm(h, Host) /\ Keeps(h, Host)
  BY <1>2, PollSound, PollKeeps
<1>4. Sound(h, t[2])
  BY <1>1, <1>3, SoundLater
<1> QED BY <1>1, <1>2, <1>3, <1>4 DEF Calm, Same, Host

LEMMA PollStays == ASSUME Sound(Host, last_time), Poll PROVE Stays
<1> PICK t \in Clock : /\ last_time <= t /\ Becomes(poll(Host, t)) /\ last_time' = t
  BY DEF Poll
<1>1. t \in Time
  BY TimeIs
<1>2. Sound(Host, t)
  BY <1>1, SoundLater
<1> DEFINE r == poll(Host, t)
<1>3. Sound(r, t) /\ Calm(r, Host) /\ Keeps(r, Host)
  BY <1>2, PollSound, PollKeeps
<1>4. Becomes(r)
  OBVIOUS
<1> HIDE DEF r
<1>6. r.results = results /\ (Carried(Host) => Carried(r))
  BY <1>3 DEF Calm, Same, Host, Keeps
<1>5. Leaves(r, t)
  BY <1>3, <1>6, SameLeaves
<1> QED BY <1>4, <1>5, Taken

LEMMA WithdrawStays == ASSUME Sound(Host, last_time), WithdrawBinding PROVE Stays
<1> PICK t \in Clock : /\ last_time <= t /\ last_time' = t
                       /\ Becomes(withdraw_host_binding(Host, gate.binding, t))
  BY DEF WithdrawBinding
<1>1. t \in Time
  BY TimeIs
<1>2. Sound(Host, t)
  BY <1>1, SoundLater
<1> DEFINE r == withdraw_host_binding(Host, gate.binding, t)
<1>3. Sound(r, t) /\ Calm(r, Host) /\ Keeps(r, Host)
  BY <1>2, WithdrawSound, WithdrawKeeps
<1>4. Becomes(r)
  OBVIOUS
<1> HIDE DEF r
<1>6. r.results = results /\ (Carried(Host) => Carried(r))
  BY <1>3 DEF Calm, Same, Host, Keeps
<1>5. Leaves(r, t)
  BY <1>3, <1>6, SameLeaves
<1> QED BY <1>4, <1>5, Taken

\* A time and a number a caller may give to a startup observation.
LEMMA ObservedIs ==
  ASSUME NEW c \in Concern, NEW t \in Time, NEW n \in 1..ObservationLimit
  PROVE  record(observer_of(c), t, n) \in EvidenceRecord
<1>1. observer_of(c) \in Source
  BY DEF observer_of, Concern, Source
<1>2. n \in Sequence
  BY HostAssumption
<1> QED BY <1>1, <1>2 DEF record, EvidenceRecord

\* One startup observation.
LEMMA StartupSound ==
  ASSUME NEW h, NEW t, Sound(h, t), NEW c \in Concern, NEW b, NEW v \in BOOLEAN,
         NEW n \in 1..ObservationLimit,
         NEW r, r = [h EXCEPT !.gate = observe_startup(@,
           [concern |-> c, binding |-> b, value |-> v,
            record |-> record(observer_of(c), t, n)])]
  PROVE  Sound(r, t) /\ r.results = h.results /\ Keeps(r, h)
<1> DEFINE record1 == record(observer_of(c), t, n)
           e == [concern |-> c, binding |-> b, value |-> v, record |-> record1]
           g == observe_startup(h.gate, e)
<1>1. h.gate \in Gate /\ t \in Time
  BY DEF Sound, Base, GateOK
<1>2. record1 \in EvidenceRecord
  BY <1>1, ObservedIs
<1>3. r = [h EXCEPT !.gate = g]
  OBVIOUS
<1> HIDE DEF record1
<1>4. g \in Gate
  BY <1>1, <1>2, StartupType
<1> HIDE DEF e
<1>5. SameReceipt(g, h.gate)
  BY <1>1, BindingCalls
<1>6. Ahead(g, h.gate)
  BY <1>1, StartupAhead
<1> HIDE DEF g
<1>7. h \in HostRecord
  BY DEF Sound, Base
<1>8. Keeps(r, h)
  BY <1>3, <1>4, <1>6, <1>7, GateQuiet
<1> QED BY <1>3, <1>4, <1>5, <1>8, SameReceiptSound

LEMMA InitializeStays ==
  ASSUME Sound(Host, last_time), sequences \in [Concern -> 0..ObservationLimit],
         Initialize
  PROVE  Stays /\ sequences' \in [Concern -> 0..ObservationLimit]
<1> DEFINE next == [c \in Concern |-> sequences[c] + 1]
           polled(t) == IF /\ gate.init = "ready"
                           /\ ~(worker_ready(adapter) /\ sink_ready(adapter))
                          THEN poll(Host, t[1]) ELSE Host
           value(h, c) == CASE c = "idle" -> h.adapter.pending = {}
                            [] c = "worker" -> worker_ready(h.adapter)
                            [] c = "sink" -> sink_ready(h.adapter)
           observed(t, h, c) == [h EXCEPT !.gate = observe_startup(@,
             [concern |-> c, binding |-> @.binding, value |-> value(h, c),
              record |-> record(observer_of(c), t[2], next[c])])]
<1>1. PICK t \in Reads :
        /\ \A c \in Concern : sequences[c] < ObservationLimit
        /\ Becomes(then(then(then(polled(t),
             LAMBDA x : observed(t, x, "idle")), LAMBDA x : observed(t, x, "worker")),
             LAMBDA x : observed(t, x, "sink")))
        /\ sequences' = next /\ last_time' = t[2]
  BY DEF Initialize
<1> DEFINE u == t[2]
           h0 == polled(t)
           h1 == observed(t, h0, "idle")
           h2 == observed(t, h1, "worker")
           h3 == observed(t, h2, "sink")
<1>2. Becomes(h3)
  <2> DEFINE z0 == polled(t)
             z1 == then(z0, LAMBDA x : observed(t, x, "idle"))
             z2 == then(z1, LAMBDA x : observed(t, x, "worker"))
             z3 == then(z2, LAMBDA x : observed(t, x, "sink"))
  <2>1. Becomes(z3)
    BY <1>1
  <2> HIDE DEF polled, observed
  <2>2. z1 = h1
    BY DEF then
  <2> HIDE DEF z1, h1
  <2>3. z2 = h2
    BY <2>2 DEF then
  <2> HIDE DEF z2, h2
  <2>4. z3 = h3
    BY <2>3 DEF then
  <2> QED BY <2>1, <2>4
<1>3. ObservationLimit \in Nat
  BY HostAssumption
<1>4. \A c \in Concern : next[c] \in 1..ObservationLimit
  BY <1>1, <1>3
<1>5. sequences' \in [Concern -> 0..ObservationLimit]
  BY <1>1, <1>3, <1>4
<1>6. Sound(h0, u) /\ h0.results = results /\ u \in Time /\ Keeps(h0, Host)
  <2>1. /\ Sound(poll(Host, t[1]), t[2]) /\ poll(Host, t[1]).results = results
        /\ Sound(Host, t[1]) /\ t[1] <= t[2] /\ t[2] \in Time
        /\ Keeps(poll(Host, t[1]), Host)
    BY Polled
  <2>2. Sound(Host, t[2]) /\ Host.results = results /\ Keeps(Host, Host)
    BY <2>1, SoundLater, SameQuiet DEF Host
  <2> QED BY <2>1, <2>2
<1>7. ASSUME NEW h, Sound(h, u), NEW c \in Concern
      PROVE  /\ Sound(observed(t, h, c), u) /\ observed(t, h, c).results = h.results
             /\ Keeps(observed(t, h, c), h)
  <2> DEFINE v == value(h, c)
             n == next[c]
             r == observed(t, h, c)
             b == h.gate.binding
  <2>1. v \in BOOLEAN
    BY DEF Concern, worker_ready, sink_ready, Sound, Base, HostRecord, Adapter
  <2>2. n \in 1..ObservationLimit
    BY <1>4
  <2>3. r = [h EXCEPT !.gate = observe_startup(@,
           [concern |-> c, binding |-> b, value |-> v,
            record |-> record(observer_of(c), u, n)])]
    OBVIOUS
  <2> HIDE DEF v, n, r, b, u
  <2>4. Sound(r, u) /\ r.results = h.results /\ Keeps(r, h)
    BY <1>7, <2>1, <2>2, <2>3, StartupSound
  <2> QED BY <2>4 DEF r
<1> HIDE DEF h0, observed, u
<1>8. Sound(h1, u) /\ h1.results = results /\ Keeps(h1, Host)
  BY <1>6, <1>7, KeepsOn DEF Concern
<1> HIDE DEF h1
<1>9. Sound(h2, u) /\ h2.results = results /\ Keeps(h2, Host)
  BY <1>7, <1>8, KeepsOn DEF Concern
<1> HIDE DEF h2
<1>10. Sound(h3, u) /\ h3.results = results /\ Keeps(h3, Host)
  BY <1>7, <1>9, KeepsOn DEF Concern
<1> HIDE DEF h3
<1>11. last_time' = u
  BY <1>1 DEF u
<1>12. Leaves(h3, u)
  BY <1>10, SameLeaves DEF Keeps
<1>13. Stays
  BY <1>2, <1>11, <1>12, Taken
<1> QED BY <1>5, <1>13
\* The observations about a replacement leave the operation alone.
LEMMA ReplacementIs ==
  ASSUME NEW g \in Gate, NEW now \in Time, now + 1 \in Time,
         NEW next \in [Concern -> 1..ObservationLimit],
         NEW q, q = observed_ready(g, now, next)
  PROVE  q \in Gate /\ SameReceipt(q, g) /\ Ahead(q, g)
<1> DEFINE b == g.candidate.binding
           rec(c) == record(observer_of(c), now, next[c])
           e(c) == [concern |-> c, binding |-> b, value |-> TRUE,
                    record |-> rec(c), valid_until |-> now + 1]
<1>1. ASSUME NEW h \in Gate, NEW c \in Concern
      PROVE  /\ observe_rebind_readiness(h, e(c)) \in Gate
             /\ SameReceipt(observe_rebind_readiness(h, e(c)), h)
             /\ Ahead(observe_rebind_readiness(h, e(c)), h)
  <2> DEFINE v == TRUE
             u == now + 1
             record1 == rec(c)
  <2>1. record1 \in EvidenceRecord
    BY ObservedIs
  <2>2. v \in BOOLEAN /\ u \in Time
    OBVIOUS
  <2>3. e(c) = [concern |-> c, binding |-> b, value |-> v,
                record |-> record1, valid_until |-> u]
    OBVIOUS
  <2> HIDE DEF v, u, record1, e, b
  <2>4. observe_rebind_readiness(h, e(c)) \in Gate
    BY <2>1, <2>2, <2>3, ReadinessType
  <2>5. SameReceipt(observe_rebind_readiness(h, e(c)), h)
    BY BindingCalls
  <2>6. Ahead(observe_rebind_readiness(h, e(c)), h)
    BY ReadinessAhead
  <2> QED BY <2>4, <2>5, <2>6
<1>2. q = observe_rebind_readiness(observe_rebind_readiness(
            observe_rebind_readiness(g, e("idle")), e("worker")), e("sink"))
  BY DEF observed_ready
<1> HIDE DEF e
<1>3. {"idle", "worker", "sink"} \subseteq Concern
  BY DEF Concern
<1> QED BY <1>1, <1>2, <1>3, AheadOn DEF SameReceipt

\* The candidate becomes the binding, or is withdrawn; the old work is over.
LEMMA CommitSound ==
  ASSUME NEW h, NEW t, Sound(h, t), NEW g \in Gate, SameReceipt(g, h.gate),
         old_work_closed(h.gate), NEW mode \in Completions,
         Ahead(g, h.gate), h.adapter.pending = {},
         NEW r, r = committed_or_withdrawn(h, g, mode, t)
  PROVE  Sound(r, t) /\ r.results = h.results /\ Keeps(r, h)
<1> DEFINE b == g.candidate.binding
           q == commit_rebind(g, b, t)
           p == withdraw_binding(g, b, t)
           a == replacement(h.adapter, mode)
           x == [h EXCEPT !.gate = q]
<1>1. /\ t \in Time /\ h \in HostRecord /\ h.adapter \in Adapter
      /\ GateOK(h.gate, t)
  BY DEF Sound, Base, HostRecord
<1>2. CASE commits_rebind(g, b, t)
  <2>1. r = [h EXCEPT !.gate = q, !.adapter = replacement(@, mode)]
    BY <1>2 DEF committed_or_withdrawn
  <2>2. q \in Gate /\ SameReceipt(q, h.gate)
    BY <1>1, CommitType, BindingCalls DEF SameReceipt
  <2>8. Ahead(q, h.gate)
    BY CommitAhead, AheadOn
  <2> HIDE DEF q
  <2>3. r = [x EXCEPT !.adapter = a]
    BY <1>1, <2>1, <2>2 DEF HostRecord
  <2>4. a \in Adapter /\ a.retained = h.adapter.retained /\ a.pending = {}
    <3>1. mode \in CompletionMode /\ "cooperative" \in CancellationMode
      BY ControlAssumption DEF CancellationMode
    <3> QED BY <1>1, <3>1 DEF replacement, new_adapter, Adapter
  <2>5. Sound(x, t) /\ x.results = h.results
    BY <2>2, SameReceiptSound
  <2>6. x.adapter = h.adapter
    BY <1>1, <2>2, GateFields
  <2>9. Keeps(x, h)
    BY <1>1, <2>2, <2>8, GateQuiet
  <2> HIDE DEF a, x
  <2>7. Sound(r, t) /\ Same(r, x)
    BY <2>3, <2>4, <2>5, <2>6, AdapterSound
  <2>10. Keeps(r, x)
    <3>1. x \in HostRecord /\ x.adapter.pending = {}
      BY <2>5, <2>6 DEF Sound, Base
    <3> QED BY <2>3, <2>4, <3>1, AdapterQuiet
  <2>11. Keeps(r, h)
    BY <2>9, <2>10, KeepsOn
  <2> QED BY <2>5, <2>7, <2>11 DEF Same
<1>3. CASE ~commits_rebind(g, b, t)
  <2>1. r = [h EXCEPT !.gate = p]
    BY <1>3 DEF committed_or_withdrawn
  <2>2. p \in Gate
    BY <1>1, WithdrawType
  <2>3. GateOK(g, t)
    BY <1>1, SameReceiptOK
  <2>4. ~withdraws_current(g)
    BY DEF withdraws_current, old_work_closed, current_is_releasable, SameReceipt,
           current_authority_matches, has_receipt
  <2>5. SameReceipt(p, g)
    <3>1. CASE withdraws_binding(g, b, t)
      BY <1>1, <2>3, <2>4, <3>1, WithdrawRevokes DEF SameReceipt
    <3>2. CASE ~withdraws_binding(g, b, t)
      BY <3>2 DEF withdraw_binding, SameReceipt
    <3> QED BY <3>1, <3>2
  <2>7. Ahead(p, h.gate)
    <3>1. Ahead(p, g)
      <4>1. CASE withdraws_binding(g, b, t)
        BY <1>1, <2>3, <4>1, WithdrawAhead
      <4>2. CASE ~withdraws_binding(g, b, t)
        BY <4>2, SameAhead DEF withdraw_binding
      <4> QED BY <4>1, <4>2
    <3> QED BY <3>1, AheadOn
  <2> HIDE DEF p
  <2>6. SameReceipt(p, h.gate)
    BY <2>5 DEF SameReceipt
  <2>8. Keeps(r, h)
    BY <1>1, <2>1, <2>2, <2>7, GateQuiet
  <2> QED BY <2>1, <2>2, <2>6, <2>8, SameReceiptSound
<1> QED BY <1>2, <1>3

LEMMA RebindStays ==
  ASSUME Sound(Host, last_time), sequences \in [Concern -> 0..ObservationLimit],
         RebindProvider
  PROVE  Stays /\ sequences' \in [Concern -> 0..ObservationLimit]
<1> DEFINE first == old_work_sequences
           next == replacement_sequences
           begins(h, expected, now) ==
             /\ ~refuses_rebind(h, now)
             /\ begins_rebind(h.gate, expected, old_work_ended(expected, now), now)
           begun(h, expected, provider, now) ==
             begin_rebind(h.gate, expected, provider, old_work_ended(expected, now), now)
<1>0. PICK t \in Reads, mode \in Completions, provider \in Provider,
           expected \in {gate.binding, InitialBinding} :
        \E h \in {poll(Host, t[1])} :
          /\ \A c \in Concern : sequences[c] + 1 < ObservationLimit
          /\ sequences' = IF refuses_rebind(h, t[2]) THEN sequences
                          ELSE IF begins(h, expected, t[2]) THEN next ELSE first
          /\ Becomes(IF begins(h, expected, t[2])
                       THEN rebound(h, begun(h, expected, provider, t[2]), mode, t[2], next)
                       ELSE h)
          /\ last_time' = t[2]
  BY DEF RebindProvider
<1>1. PICK h \in {poll(Host, t[1])} :
        /\ \A c \in Concern : sequences[c] + 1 < ObservationLimit
        /\ sequences' = IF refuses_rebind(h, t[2]) THEN sequences
                        ELSE IF begins(h, expected, t[2]) THEN next ELSE first
        /\ Becomes(IF begins(h, expected, t[2])
                     THEN rebound(h, begun(h, expected, provider, t[2]), mode, t[2], next)
                     ELSE h)
        /\ last_time' = t[2]
  BY <1>0
<1> DEFINE now == t[2]
           e == old_work_ended(expected, now)
           g1 == begun(h, expected, provider, now)
           g2 == observed_ready(g1, now, next)
           r == committed_or_withdrawn(h, g2, mode, now)
           isBegun == begins(h, expected, now)
<1>2. ObservationLimit \in Nat /\ "idle" \in Concern
  BY HostAssumption DEF Concern
<1>3. /\ \A c \in Concern : first[c] \in 1..ObservationLimit \/ first[c] = sequences[c]
      /\ \A c \in Concern : first[c] \in Nat /\ first[c] + 1 \in 1..ObservationLimit
      /\ first["idle"] \in 1..ObservationLimit
      /\ first \in [Concern -> 0..ObservationLimit]
  BY <1>1, <1>2 DEF old_work_sequences
<1>4. next \in [Concern -> 1..ObservationLimit]
  BY <1>3 DEF replacement_sequences
<1>5. next \in [Concern -> 0..ObservationLimit]
  BY <1>2, <1>4
<1>6. sequences' \in [Concern -> 0..ObservationLimit]
  BY <1>1, <1>3, <1>5
<1>7. /\ Sound(h, now) /\ now \in Time /\ h.results = results
      /\ h \in HostRecord /\ h.gate \in Gate /\ Keeps(h, Host)
  BY Polled DEF Sound, Base, GateOK
<1>8. CASE isBegun
  <2>1. Becomes(r)
    <3> DEFINE w == rebound(h, g1, mode, now, next)
    <3>1. Becomes(w)
      BY <1>1, <1>8
    <3>2. w = then(g2, LAMBDA g : committed_or_withdrawn(h, g, mode, now))
      BY DEF rebound
    <3> HIDE DEF g2, w
    <3>3. w = r
      BY <3>2 DEF then
    <3> HIDE DEF r
    <3> QED BY <3>1, <3>3
  <2>2. /\ begins_rebind(h.gate, expected, e, now) /\ now # LastTime
        /\ h.adapter.pending = {}
    BY <1>8 DEF refuses_rebind, is_quiescent
  <2>3. old_work_closed(h.gate)
    BY <2>2 DEF begins_rebind
  <2>4. now + 1 \in Time
    BY <1>7, <2>2, TimeIs
  <2>5. g1 \in Gate /\ SameReceipt(g1, h.gate) /\ Ahead(g1, h.gate)
    <3> DEFINE record1 == record(BindingObserver, now, first["idle"])
               u == now + 1
    <3>1. record1 \in EvidenceRecord
      <4>1. BindingObserver \in Source /\ first["idle"] \in Sequence
        BY <1>3, HostAssumption DEF Source
      <4> HIDE DEF now
      <4> QED BY <1>7, <4>1 DEF record, EvidenceRecord
    <3>2. g1 = begin_rebind(h.gate, expected, provider,
                 [binding |-> expected, record |-> record1, valid_until |-> u], now)
      BY DEF old_work_ended
    <3>3. u \in Time
      BY <2>4
    <3> HIDE DEF record1, u, g1, now
    <3>4. g1 \in Gate
      BY <1>7, <3>1, <3>2, <3>3, BeginType
    <3>5. SameReceipt(g1, h.gate)
      BY <1>7, <3>2, BindingCalls
    <3>6. Ahead(g1, h.gate)
      BY <1>7, <3>2, BeginAhead
    <3> QED BY <3>4, <3>5, <3>6
  <2> HIDE DEF g1, next, now
  <2>6. g2 \in Gate /\ SameReceipt(g2, g1) /\ Ahead(g2, g1)
    BY <1>4, <1>7, <2>4, <2>5, ReplacementIs
  <2> HIDE DEF g2
  <2>7. SameReceipt(g2, h.gate) /\ Ahead(g2, h.gate)
    BY <2>5, <2>6, AheadOn DEF SameReceipt
  <2>8. Sound(r, now) /\ r.results = h.results /\ Keeps(r, h)
    BY <1>7, <2>2, <2>3, <2>6, <2>7, CommitSound
  <2>9. last_time' = now
    BY <1>1 DEF now
  <2> HIDE DEF r
  <2>10. Leaves(r, now)
    BY <1>7, <2>8, SameLeaves DEF Keeps
  <2>11. Stays
    BY <2>1, <2>9, <2>10, Taken
  <2> QED BY <1>6, <2>11
<1>9. CASE ~isBegun
  <2>1. Becomes(h) /\ last_time' = now
    BY <1>1, <1>9
  <2> HIDE DEF now
  <2>2. Leaves(h, now)
    BY <1>7, SameLeaves DEF Keeps
  <2>3. Stays
    BY <2>1, <2>2, Taken
  <2> QED BY <1>6, <2>3
<1> QED BY <1>8, <1>9
\* A request is admitted: it is prepared, and it is a new operation.
LEMMA PrepareStays == ASSUME Sound(Host, last_time), Prepare PROVE Stays
<1> DEFINE look(t) == then(poll(Host, t[1]), LAMBDA x : observe_host_time(x, t[2]))
           q(t, d) == [requested_at |-> t[2], deadline |-> d, requirements |-> {}]
           entered(t, d, h) ==
             [h EXCEPT !.gate = admit(h.gate, q(t, d)),
                       !.current = {admit(h.gate, q(t, d)).receipt.authority},
                       !.prepared = {admit(h.gate, q(t, d)).receipt.authority}]
<1>0. PICK t \in Reads, d \in Optional(Deadlines) :
        \E h \in {look(t)} : /\ IF admits(h.gate, q(t, d)) THEN Becomes(entered(t, d, h))
                                ELSE Becomes(h)
                             /\ last_time' = t[2]
  BY DEF Prepare
<1>1. PICK h \in {look(t)} : /\ IF admits(h.gate, q(t, d)) THEN Becomes(entered(t, d, h))
                                ELSE Becomes(h)
                             /\ last_time' = t[2]
  BY <1>0
<1> DEFINE p == poll(Host, t[1])
           u == t[2]
<1>2. h = observe_host_time(p, u)
  <2>1. h = then(p, LAMBDA x : observe_host_time(x, u))
    BY <1>1
  <2> HIDE DEF p
  <2> QED BY <2>1 DEF then
<1>3. Sound(p, u) /\ p.results = results /\ u \in Time /\ Keeps(p, Host)
  BY Polled
<1> HIDE DEF look, p
<1>4. Sound(h, u) /\ h.results = results /\ (Carried(Host) => Carried(h))
  BY <1>2, <1>3, TimeSound, TimeKeeps DEF Calm, Same, Keeps
<1>5. CASE ~admits(h.gate, q(t, d))
  <2>1. Leaves(h, u)
    BY <1>4, SameLeaves
  <2>2. Becomes(h) /\ last_time' = u
    BY <1>1, <1>5
  <2> HIDE DEF u
  <2> QED BY <2>1, <2>2, Taken
<1>6. CASE admits(h.gate, q(t, d))
  <2> DEFINE g == admit(h.gate, q(t, d))
             b == g.receipt.authority
             r == entered(t, d, h)
             none == {}
  <2>1. Becomes(r) /\ last_time' = u
    BY <1>1, <1>6
  <2>2. d \in Optional(Time) /\ none \in Optional(Requirements)
    BY HostAssumption DEF Optional
  <2>3. /\ h \in HostRecord /\ GateOK(h.gate, u) /\ h.gate \in Gate
        /\ h.adapter \in Adapter
    BY <1>4 DEF Sound, Base, HostRecord
  <2>4. q(t, d) = [requested_at |-> u, deadline |-> d, requirements |-> none]
    OBVIOUS
  <2> HIDE DEF u, none, q
  <2>5. /\ GateOK(g, u) /\ has_receipt(g) /\ g.binding = h.gate.binding
        /\ h.gate.receipt.authority.operation_id < g.receipt.authority.operation_id
        /\ g.receipt.output = "pending" /\ g.receipt.stop_requested_at = {}
        /\ has_receipt(h.gate) => h.gate.receipt.outcome # "pending"
    BY <1>3, <1>6, <2>2, <2>3, <2>4, AdmissionIs
  <2>19. InForce(h.gate) => InForce(g) /\ Expects(g, "not_submitted", 1)
    BY <1>3, <1>6, <2>2, <2>3, <2>4, AdmissionTaken
  <2>6. r = [h EXCEPT !.gate = g, !.current = {b}, !.prepared = {b}]
    OBVIOUS
  <2> HIDE DEF g, r
  <2>7. g \in Gate /\ g.receipt \in Receipt /\ h.gate.receipt \in Receipt
    BY <2>3, <2>5 DEF GateOK, Gate
  <2>8. /\ b \in Issued /\ b.operation_id \in Nat
        /\ h.gate.receipt.authority.operation_id \in Nat
    <3>1. b \in Authority /\ h.gate.receipt.authority \in Authority
      BY <2>7 DEF Receipt
    <3> QED BY <2>5, <3>1, IssuedIs DEF has_receipt, Issued
  <2>9. /\ r \in HostRecord /\ r.gate = g /\ r.adapter = h.adapter
        /\ r.staged = h.staged /\ r.current = {b} /\ r.prepared = {b}
        /\ r.results = h.results /\ r.stops = h.stops /\ r.muted = h.muted
    <3> HIDE DEF b
    <3> QED BY <2>3, <2>6, <2>7, <2>8 DEF HostRecord
  <2>10. ASSUME NEW a \in Issued, Old(a, h.gate)
         PROVE  Old(a, g) /\ a # b
    <3>1. a.operation_id \in Nat
      BY IssuedIs
    <3> QED BY <2>5, <2>8, <2>10, <3>1 DEF Old
  <2>11. h.adapter.pending = {}
    <3>1. ASSUME NEW w \in h.adapter.pending PROVE FALSE
      <4>1. w \in Work /\ w.authority = h.gate.receipt.authority
            /\ h.gate.receipt.outcome = "pending"
        BY <1>4, <2>3 DEF Adapter, Sound, Base, WorkOK
      <4>2. has_receipt(h.gate)
        BY <4>1 DEF has_receipt, Work, Issued
      <4> QED BY <2>5, <4>1, <4>2
    <3> QED BY <3>1
  <2>12. ASSUME NEW list \in Seq(Issued), \A i \in DOMAIN list : Old(list[i], h.gate)
         PROVE  ~Holds(list, b) /\ \A i \in DOMAIN list : Old(list[i], g)
    <3>1. \A i \in DOMAIN list : list[i] \in Issued
      OBVIOUS
    <3> QED BY <2>10, <2>12, <3>1 DEF Holds
  <2>13. SinkOK(r.results, r.gate) /\ StopsOK(r.stops, r.gate)
    <3>1. h.results \in Seq(Issued) /\ h.stops \in Seq(Issued)
      BY <2>3 DEF HostRecord
    <3> QED BY <1>4, <2>5, <2>9, <2>12, <3>1 DEF Sound, Base, SinkOK, StopsOK
  <2>14. StagedOK(r, u)
    <3>1. \A i \in DOMAIN h.staged : /\ h.staged[i].authority \in Issued
                                     /\ Old(h.staged[i].authority, h.gate)
                                     /\ h.staged[i].observed_at <= u
      BY <1>4, StagedIs DEF Event
    <3>2. \A i \in DOMAIN r.staged : /\ Old(r.staged[i].authority, r.gate)
                                     /\ r.staged[i].observed_at <= u
                                     /\ r.staged[i].authority # r.gate.receipt.authority
      BY <2>9, <2>10, <3>1
    <3> QED BY <2>9, <2>11, <3>2 DEF StagedOK, Only
  <2>20. ASSUME Carried(h) PROVE Carried(r)
    <3>1. InForce(g) /\ Expects(g, "not_submitted", 1) /\ MutedOld(h)
      BY <2>19, <2>20 DEF Carried, MutedOld
    <3>2. MutedOld(r) /\ b.operation_id \notin r.muted
      <4>1. h.muted \subseteq Nat
        BY <2>3 DEF HostRecord
      <4> QED BY <2>5, <2>8, <2>9, <3>1, <4>1 DEF MutedOld
    <3>3. Trail(r.staged, b, Len(r.staged))
      <4> DEFINE list == h.staged
                 n == Len(list)
      <4>1. n \in Nat /\ DOMAIN list = 1..n /\ \A i \in 1..n : list[i] \in Event
        BY <2>3, EventAt DEF HostRecord
      <4>2. \A i \in 1..n : list[i].authority # b
        BY <1>4, <2>10, <4>1, StagedIs DEF Event
      <4> HIDE DEF list, n
      <4>3. Trail(list, b, n)
        BY <4>1, <4>2 DEF Trail, n
      <4> QED BY <2>9, <4>3 DEF list, n
    <3>4. IsPrepared(r) /\ g.receipt.settlement = "pending"
      BY <2>9, <2>11, <3>1, <3>3 DEF IsPrepared, Expects
    <3> QED BY <2>9, <3>1, <3>2, <3>4 DEF Carried, MutedOld
  <2>15. Old(b, g)
    BY <2>8 DEF Old
  <2>16. \A c \in h.adapter.retained : Old(c.authority, g)
    <3>1. \A c \in h.adapter.retained : c.authority \in Issued /\ Old(c.authority, h.gate)
      BY <1>4, <2>3 DEF Adapter, Callback, Sound, Base
    <3> QED BY <2>10, <3>1
  <2>17. Sound(r, u)
    BY <1>3, <2>5, <2>9, <2>11, <2>13, <2>14, <2>15, <2>16 DEF Sound, Base, WorkOK
  <2>18. Leaves(r, u)
    BY <1>4, <2>9, <2>17, <2>20, SameLeaves
  <2> QED BY <2>1, <2>18, Taken
<1> QED BY <1>5, <1>6

\* The prepared request is dispatched, unless polling discarded it.
LEMMA DispatchStays == ASSUME Sound(Host, last_time), DispatchPrepared PROVE Stays
<1> DEFINE handed(t, a, h) ==
             IF h.prepared = {} THEN h
             ELSE then([h EXCEPT !.prepared = {}], LAMBDA x : dispatch(x, a, t[2]))
           done(t, a, h) ==
             then(handed(t, a, h), LAMBDA x :
               IF h.adapter.mode = "deferred" THEN process_next(x, t[2], t[2]) ELSE x)
<1>0. PICK t \in Reads, a \in prepared :
        \E h \in {poll(Host, t[1])} : Becomes(done(t, a, h)) /\ last_time' = t[2]
  BY DEF DispatchPrepared
<1>1. PICK h \in {poll(Host, t[1])} : Becomes(done(t, a, h)) /\ last_time' = t[2]
  BY <1>0
<1> DEFINE u == t[2]
           x == [h EXCEPT !.prepared = {}]
           y == dispatch(x, a, u)
           z == IF h.prepared = {} THEN h ELSE y
           deferred == h.adapter.mode = "deferred"
           r == IF deferred THEN process_next(z, u, u) ELSE z
<1>2. /\ Sound(h, u) /\ Calm(h, Host) /\ h.results = results
      /\ u \in Time /\ u <= u /\ Keeps(h, Host)
  BY Polled, TimeIs
<1>3. done(t, a, h) = r
  <2> DEFINE s == handed(t, a, h)
             y1 == then(x, LAMBDA v : dispatch(v, a, u))
  <2>1. done(t, a, h) = then(s, LAMBDA v : IF deferred THEN process_next(v, u, u) ELSE v)
    OBVIOUS
  <2>2. s = IF h.prepared = {} THEN h ELSE y1
    OBVIOUS
  <2> HIDE DEF handed, done, s, x, u
  <2>3. y1 = y
    BY DEF then
  <2> HIDE DEF y1, y
  <2>4. s = z
    BY <2>2, <2>3
  <2> HIDE DEF z, deferred
  <2> QED BY <2>1, <2>4 DEF then
<1>4. Becomes(r) /\ last_time' = u
  BY <1>1, <1>3
<1> HIDE DEF handed, done, u
<1>5. Sound(z, u) /\ Same(z, h) /\ (Carried(h) => Carried(z))
  <2>1. CASE h.prepared = {}
    BY <1>2, <2>1 DEF Same
  <2>2. CASE h.prepared # {}
    <3>1. h \in HostRecord
      BY <1>2 DEF Sound, Base
    <3>2. /\ x \in HostRecord /\ x.gate = h.gate /\ x.adapter = h.adapter
          /\ x.staged = h.staged /\ x.current = h.current /\ x.prepared = {}
          /\ x.results = h.results /\ x.stops = h.stops /\ x.muted = h.muted
      BY <3>1 DEF HostRecord
    <3> HIDE DEF x
    <3>3. h.adapter.pending = {} /\ Only({"result"}, h)
      BY <1>2, <2>2 DEF Sound, Base, StagedOK
    <3>4. StagedOK(x, u) /\ Only({"result"}, x)
      BY <1>2, <3>2, <3>3 DEF Sound, Base, StagedOK, Only
    <3>5. Sound(x, u) /\ Same(x, h)
      BY <1>2, <3>2, <3>4 DEF Sound, Base, Same
    <3>6. a \in Issued /\ Old(a, x.gate)
      <4>1. Host.prepared = prepared /\ Host \in HostRecord /\ Old(a, Host.gate)
        BY DEF Sound, Base, Host
      <4>2. a \in Issued
        BY <4>1 DEF HostRecord
      <4> QED BY <1>2, <3>2, <4>1, <4>2 DEF Calm, Same, Old
    <3>7. Sound(y, u) /\ Same(y, x)
      BY <3>2, <3>3, <3>4, <3>5, <3>6, DispatchSound
    <3>9. ASSUME Carried(h) PROVE Carried(y)
      <4>1. InForce(x.gate) /\ MutedOld(x)
        BY <3>2, <3>9 DEF Carried, MutedOld
      <4>2. a \in h.prepared
        BY <1>2, <2>2 DEF Keeps, Host
      <4>3. \/ Loose(x)
            \/ /\ a = x.gate.receipt.authority /\ Expects(x.gate, "not_submitted", 1)
               /\ Trail(x.staged, a, Len(x.staged))
        BY <2>2, <3>2, <3>9, <4>2
        DEF Carried, Loose, IsOver, IsPrepared, IsWorking, IsReporting
      <4>4. InReach(x)
        BY <3>2, <3>3, <4>1, <4>3 DEF InReach
      <4> QED BY <3>5, <3>6, <4>3, <4>4, DispatchCarried
    <3> HIDE DEF y
    <3>8. Same(y, h)
      BY <3>5, <3>7, SameOn
    <3> QED BY <2>2, <3>7, <3>8, <3>9
  <2> QED BY <2>1, <2>2
<1> HIDE DEF z
<1>6. Same(z, Host)
  BY <1>2, <1>5, SameOn DEF Calm
<1>7. Sound(r, u) /\ Delivers(r, z, u) /\ (Carried(z) => Carried(r))
  <2>1. CASE deferred
    BY <1>2, <1>5, <2>1, ProcessSound, ProcessCarried
  <2>2. CASE ~deferred
    BY <1>5, <2>2 DEF Delivers
  <2> QED BY <2>1, <2>2
<1> HIDE DEF r
<1>8. Leaves(r, u)
  BY <1>2, <1>5, <1>6, <1>7, SameDelivers DEF Leaves, Keeps
<1> QED BY <1>4, <1>8, Taken
\* The caller cancels.
LEMMA CancelStays == ASSUME Sound(Host, last_time), RequestCancel PROVE Stays
<1> DEFINE stop(h) == should_request_native_stop(h.gate.receipt)
           cancelled(t, a, h) == [h EXCEPT !.gate = request_cancel(@, a, t[2])]
           controlled(t, a, h) ==
             then(cancelled(t, a, h), LAMBDA x : apply_control(x, a, stop(h), t[2]))
<1>0. PICK t \in Reads, a \in current :
        \E h \in {poll(Host, t[1])} :
          /\ Becomes(IF applies_cancel(h.gate, a, t[2]) THEN controlled(t, a, h) ELSE h)
          /\ last_time' = t[2]
  BY DEF RequestCancel
<1>1. PICK h \in {poll(Host, t[1])} :
        /\ Becomes(IF applies_cancel(h.gate, a, t[2]) THEN controlled(t, a, h) ELSE h)
        /\ last_time' = t[2]
  BY <1>0
<1> DEFINE u == t[2]
           g == request_cancel(h.gate, a, u)
           x == [h EXCEPT !.gate = g]
           s == stop(h)
           r == apply_control(x, a, s, u)
<1>2. Sound(h, u) /\ h.results = results /\ u \in Time /\ Keeps(h, Host)
  BY Polled
<1>3. CASE ~applies_cancel(h.gate, a, u)
  <2>1. Becomes(h) /\ last_time' = u
    BY <1>1, <1>3
  <2>2. Leaves(h, u)
    BY <1>2, SameLeaves DEF Keeps
  <2> HIDE DEF u
  <2> QED BY <2>1, <2>2, Taken
<1>4. CASE applies_cancel(h.gate, a, u)
  <2>1. controlled(t, a, h) = r
    <3>1. controlled(t, a, h) = then(x, LAMBDA v : apply_control(v, a, s, u))
      OBVIOUS
    <3> HIDE DEF controlled, x, s, u
    <3> QED BY <3>1 DEF then
  <2>2. Becomes(r) /\ last_time' = u
    BY <1>1, <1>4, <2>1
  <2> HIDE DEF controlled, u
  <2>3. GateOK(h.gate, u) /\ Base(h, u) /\ StopsOK(h.stops, h.gate)
    BY <1>2 DEF Sound, Base
  <2>4. has_receipt(h.gate) /\ a = h.gate.receipt.authority
    BY <1>4 DEF applies_cancel, is_controllable, current_authority_matches
  <2>5. Revoked(g, h.gate, u) /\ g.phase = h.gate.phase
    BY <1>2, <1>4, <2>3, CancelRevokes
  <2>11. Ahead(g, h.gate)
    BY <1>2, <1>4, <2>3, CancelAhead
  <2>12. h \in HostRecord /\ g \in Gate
    BY <2>3, <2>5 DEF Base, Revoked, GateOK
  <2> HIDE DEF g
  <2>13. Keeps(x, h)
    BY <2>11, <2>12, GateQuiet
  <2>6. Base(x, u) /\ Calm(x, h) /\ x.gate = g /\ x.stops = h.stops
    BY <2>3, <2>5, RevokedBase
  <2> HIDE DEF x
  <2>7. s <=> should_request_native_stop(h.gate.receipt)
    OBVIOUS
  <2>8. StopsOK(x.stops, h.gate) /\ Revoked(x.gate, h.gate, u)
    BY <2>3, <2>5, <2>6
  <2> HIDE DEF s, stop
  <2>9. Sound(r, u) /\ Calm(r, x)
    BY <2>4, <2>6, <2>7, <2>8, ControlSound
  <2>14. Keeps(r, x)
    BY <2>6, ControlKeeps
  <2> HIDE DEF r
  <2>15. Carried(Host) => Carried(r)
    BY <1>2, <2>13, <2>14 DEF Keeps
  <2>10. Leaves(r, u)
    BY <1>2, <2>6, <2>9, <2>15, SameLeaves DEF Calm, Same
  <2> QED BY <2>2, <2>10, Taken
<1> QED BY <1>3, <1>4

\* The deferred work is completed.
LEMMA CompleteStays == ASSUME Sound(Host, last_time), CompleteDeferred PROVE Stays
<1>0. PICK t \in Reads :
        /\ Becomes(then(poll(Host, t[1]), LAMBDA h :
             IF h.adapter.closed THEN h ELSE finish_pending(h, t[2])))
        /\ last_time' = t[2]
  BY DEF CompleteDeferred
<1> DEFINE u == t[2]
           h == poll(Host, t[1])
           f == finish_pending(h, u)
           r == IF h.adapter.closed THEN h ELSE f
<1>1. Sound(h, u) /\ h.results = results /\ Keeps(h, Host)
  BY Polled
<1>2. Becomes(r) /\ last_time' = u
  <2> DEFINE z == then(h, LAMBDA x : IF x.adapter.closed THEN x ELSE finish_pending(x, u))
  <2>1. Becomes(z) /\ last_time' = u
    BY <1>0
  <2> HIDE DEF h, u
  <2>2. z = r
    BY DEF then
  <2> HIDE DEF z, r
  <2> QED BY <2>1, <2>2
<1> HIDE DEF h, u
<1>3. Sound(f, u) /\ Same(f, h) /\ (Carried(h) => Carried(f))
  BY <1>1, FinishPendingSound, FinishPendingCarried
<1> HIDE DEF f
<1>4. Leaves(r, u)
  BY <1>1, <1>3, SameLeaves DEF Same, Keeps
<1> HIDE DEF r
<1> QED BY <1>2, <1>4, Taken

\* A replayed result in front changes nothing of what follows it.
LEMMA ReplayedCarried ==
  ASSUME NEW h, h.staged \in Seq(Event), Carried(h), NEW e \in Event, e.kind = "result",
         NEW r, r.staged = <<e>> \o h.staged, r.gate = h.gate, r.adapter = h.adapter,
         r.prepared = h.prepared, r.muted = h.muted
  PROVE  Carried(r)
<1> DEFINE g == h.gate
           a == g.receipt.authority
           list == h.staged
           more == <<e>> \o list
           n == Len(list)
           m == n + 1
<1>1. /\ n \in Nat /\ m \in Nat /\ Len(more) = m /\ m # 0
      /\ \A i \in 1..n : more[i + 1] = list[i]
  OBVIOUS
<1>2. r.staged = more /\ r.gate = g
  OBVIOUS
<1>3. ASSUME NEW b, Trail(list, a, b) PROVE Trail(more, a, b + 1)
  <2> HIDE DEF a, list
  <2> QED BY <1>3, TrailCons DEF list
<1> HIDE DEF a, more, n, list
<1>4. Trail(list, a, n) => Trail(more, a, m)
  BY <1>3
<1>5. Announced(list, g) => Announced(more, g)
  <2> SUFFICES ASSUME Announced(list, g) PROVE Announced(more, g)
    OBVIOUS
  <2> DEFINE b == n - 1
             c == b + 1
  <2>1. /\ n # 0 /\ Trail(list, a, b) /\ list[n].kind = "accepted"
        /\ list[n].sequence = 1 /\ Awaits(g, list[n])
    BY DEF Announced, n, a
  <2>2. n \in 1..n /\ c = n /\ m - 1 = n
    BY <1>1, <2>1
  <2>3. more[m] = list[n]
    BY <1>1, <2>2
  <2> HIDE DEF b, c
  <2>4. Trail(more, a, n)
    BY <1>3, <2>1, <2>2 DEF c
  <2> HIDE DEF m
  <2> QED BY <1>1, <2>1, <2>2, <2>3, <2>4 DEF Announced, a
<1>6. Leads(list, g) => Leads(more, g)
  <2> SUFFICES ASSUME Leads(list, g) PROVE Leads(more, g)
    OBVIOUS
  <2>1. PICK b \in 0..n - 1 : Trail(list, a, b) /\ Awaits(g, list[b + 1])
    BY DEF Leads, n, a
  <2>2. n # 0 /\ list[n].kind = "settled"
    BY DEF Leads, n
  <2> DEFINE c == b + 1
             d == c + 1
  <2>3. n \in 1..n /\ c \in 1..n /\ c \in 0..m - 1
    BY <1>1, <2>2
  <2>4. more[m] = list[n] /\ more[d] = list[c]
    BY <1>1, <2>3
  <2>5. Trail(more, a, c) /\ Awaits(g, more[d])
    BY <1>3, <2>1, <2>4
  <2> HIDE DEF m, c
  <2> QED BY <1>1, <2>2, <2>3, <2>4, <2>5 DEF Leads, a
<1> HIDE DEF m
<1>7. IsOver(h) => IsOver(r)
  BY <1>1, <1>2, <1>4 DEF IsOver, list, n, a
<1>8. IsPrepared(h) => IsPrepared(r)
  BY <1>1, <1>2, <1>4 DEF IsPrepared, list, n, a
<1>9. IsWorking(h) => IsWorking(r)
  BY <1>1, <1>2, <1>4, <1>5 DEF IsWorking, Reported, list, n, a
<1>10. IsReporting(h) => IsReporting(r)
  BY <1>2, <1>6 DEF IsReporting, list
<1> QED BY <1>7, <1>8, <1>9, <1>10 DEF Carried

\* A retained result is staged once more, in front.
LEMMA ReplayStays == ASSUME Sound(Host, last_time), ReplayRetainedResult PROVE Stays
<1>0. PICK t \in Clock, c \in adapter.retained :
        /\ last_time <= t
        /\ staged' = <<[kind |-> c.kind, authority |-> c.authority,
                        sequence |-> c.sequence, observed_at |-> t]>> \o staged
        /\ last_time' = t
        /\ UNCHANGED <<gate, adapter, current, prepared, results, stops, muted>>
  BY DEF ReplayRetainedResult
<1> DEFINE e == [kind |-> c.kind, authority |-> c.authority,
                 sequence |-> c.sequence, observed_at |-> t]
           more == <<e>> \o staged
           r == [Host EXCEPT !.staged = more]
<1>1. t \in Time /\ t <= t
  BY TimeIs
<1>2. Sound(Host, t)
  BY <1>0, <1>1, SoundLater
<1>3. /\ Host \in HostRecord /\ Host.staged = staged /\ Host.adapter = adapter
      /\ Host.adapter \in Adapter /\ staged \in Seq(Event)
  BY <1>2 DEF Sound, Base, Host, HostRecord
<1>4. c \in Callback /\ Old(c.authority, Host.gate)
  BY <1>2, <1>3 DEF Adapter, Sound, Base
<1>5. /\ e \in Event /\ e.kind = "result" /\ e.observed_at <= t
      /\ Old(e.authority, Host.gate)
  BY <1>1, <1>4 DEF Callback, Event, EventKind
<1>6. staged' = more /\ last_time' = t
  BY <1>0
<1> HIDE DEF e
<1>7. /\ more \in Seq(Event)
      /\ \A i \in DOMAIN more : more[i] = e \/ \E j \in DOMAIN staged : more[i] = staged[j]
  <2> DEFINE L == staged
  <2> HIDE DEF Event
  <2>1. L \in Seq(Event) /\ e \in Event
    BY <1>3, <1>5
  <2> HIDE DEF L
  <2>2. /\ <<e>> \o L \in Seq(Event) /\ Len(L) \in Nat /\ DOMAIN L = 1..Len(L)
        /\ DOMAIN (<<e>> \o L) = 1..Len(L) + 1
        /\ (<<e>> \o L)[1] = e
    BY <2>1
  <2>3. \A i \in 2..Len(L) + 1 : i - 1 \in 1..Len(L) /\ (<<e>> \o L)[i] = L[i - 1]
    BY <2>1, <2>2
  <2>4. \A i \in 1..Len(L) + 1 : i = 1 \/ i \in 2..Len(L) + 1
    BY <2>2
  <2> QED BY <2>2, <2>3, <2>4 DEF L
<1> HIDE DEF more
<1>8. /\ r \in HostRecord /\ r.staged = more /\ r.gate = Host.gate
      /\ r.adapter = Host.adapter /\ r.current = Host.current
      /\ r.prepared = Host.prepared /\ r.results = Host.results
      /\ r.stops = Host.stops /\ r.muted = Host.muted
  BY <1>3, <1>7 DEF HostRecord
<1> HIDE DEF r
<1>9. StagedOK(r, t)
  BY <1>2, <1>3, <1>5, <1>7, <1>8 DEF Sound, Base, StagedOK, Only
<1>10. Sound(r, t)
  BY <1>2, <1>8, <1>9 DEF Sound, Base
<1>11. Becomes(r)
  BY <1>0, <1>6, <1>8 DEF Becomes, Host
<1>12. r.results = results
  BY <1>8 DEF Host
<1>13. Carried(Host) => Carried(r)
  BY <1>3, <1>5, <1>8, ReplayedCarried DEF more
<1> QED BY <1>6, <1>10, <1>11, <1>12, <1>13, SameLeaves, Taken

LEMMA ProcessStays == ASSUME Sound(Host, last_time), ProcessNext PROVE Stays
<1>0. PICK t \in Reads : Becomes(process_next(Host, t[1], t[2])) /\ last_time' = t[2]
  BY DEF ProcessNext
<1> DEFINE v == t[1]
           u == t[2]
           r == process_next(Host, v, u)
<1>1. Sound(Host, v) /\ u \in Time /\ v <= u
  BY Polled
<1>2. Becomes(r) /\ last_time' = u
  BY <1>0
<1> HIDE DEF u, v
<1>3. Leaves(r, u)
  BY <1>1, ProcessSound, ProcessCarried DEF Leaves
<1> HIDE DEF r
<1> QED BY <1>2, <1>3, Taken

\* One iteration of process_all; the last one of a shutdown closes the adapter.
LEMMA IterateStays == ASSUME Sound(Host, last_time), Iterate PROVE Stays
<1> DEFINE closes(p) == p.staged = <<>> /\ loop = "shutdown"
<1>0. PICK t \in Reads :
        \E p \in {poll(Host, t[1])} :
          /\ Becomes(IF closes(p) THEN [p EXCEPT !.adapter = closed_adapter(@)]
                     ELSE process_next(Host, t[1], t[2]))
          /\ last_time' = t[2]
  BY DEF Iterate
<1>1. PICK p \in {poll(Host, t[1])} :
        /\ Becomes(IF closes(p) THEN [p EXCEPT !.adapter = closed_adapter(@)]
                   ELSE process_next(Host, t[1], t[2]))
        /\ last_time' = t[2]
  BY <1>0
<1> DEFINE v == t[1]
           u == t[2]
           b == closed_adapter(p.adapter)
           q == [p EXCEPT !.adapter = b]
           r == process_next(Host, v, u)
<1>2. /\ Sound(Host, v) /\ u \in Time /\ v <= u
      /\ Sound(p, u) /\ p.results = results /\ Keeps(p, Host)
  BY Polled
<1>3. Becomes(IF closes(p) THEN q ELSE r) /\ last_time' = u
  BY <1>1
<1> HIDE DEF closes, u, v
<1>4. CASE closes(p)
  <2>1. p.adapter \in Adapter
    BY <1>2 DEF Sound, Base, HostRecord
  <2>2. b \in Adapter /\ b.retained = {} /\ b.pending = p.adapter.pending
    BY <2>1 DEF closed_adapter, Adapter
  <2>3. Becomes(q)
    BY <1>3, <1>4
  <2> HIDE DEF b
  <2>4. Sound(q, u) /\ Same(q, p)
    BY <1>2, <2>2, AdapterSound
  <2>6. Keeps(q, p)
    BY <1>2, <2>2, AdapterQuiet DEF Sound, Base
  <2> HIDE DEF q
  <2>5. Leaves(q, u)
    BY <1>2, <2>4, <2>6, SameLeaves DEF Same, Keeps
  <2> QED BY <1>3, <2>3, <2>5, Taken
<1>5. CASE ~closes(p)
  <2>1. Leaves(r, u)
    BY <1>2, ProcessSound, ProcessCarried DEF Leaves
  <2>2. Becomes(r)
    BY <1>3, <1>5
  <2> HIDE DEF r
  <2> QED BY <1>3, <2>1, <2>2, Taken
<1> QED BY <1>4, <1>5

\* Admission is closed, and what is prepared or pending is reported.
LEMMA ShutdownStays == ASSUME Sound(Host, last_time), Shutdown PROVE Stays
<1>0. PICK t \in Reads :
        /\ Becomes(then(poll(Host, t[1]), LAMBDA h : close_and_drain(h, t[2])))
        /\ last_time' = t[2]
  BY DEF Shutdown
<1> DEFINE u == t[2]
           h == poll(Host, t[1])
           g == close_admission(h.gate)
           x == [h EXCEPT !.gate = g]
           y == discard_prepared(x, u)
           r == finish_pending(y, u)
<1>1. Sound(h, u) /\ h.results = results /\ Keeps(h, Host)
  BY Polled
<1>2. Becomes(r) /\ last_time' = u
  <2> DEFINE z == then(h, LAMBDA q : close_and_drain(q, u))
             y1 == then(x, LAMBDA q : discard_prepared(q, u))
             r1 == then(y1, LAMBDA q : finish_pending(q, u))
  <2>1. Becomes(z) /\ last_time' = u
    BY <1>0
  <2>2. close_and_drain(h, u) = r1
    BY DEF close_and_drain
  <2> HIDE DEF h, u
  <2>3. z = close_and_drain(h, u)
    BY DEF then
  <2> HIDE DEF x
  <2>4. y1 = y
    BY DEF then
  <2> HIDE DEF y, y1
  <2>5. r1 = r
    BY <2>4 DEF then
  <2> HIDE DEF r, r1, z
  <2> QED BY <2>1, <2>2, <2>3, <2>5
<1> HIDE DEF h, u
<1>3. h.gate \in Gate
  BY <1>1 DEF Sound, Base, GateOK
<1>4. g \in Gate /\ SameReceipt(g, h.gate) /\ Ahead(g, h.gate)
  BY <1>3, CloseType, BindingCalls, CloseAhead
<1> HIDE DEF g
<1>9. h \in HostRecord
  BY <1>1 DEF Sound, Base
<1>5. Sound(x, u) /\ x.results = h.results /\ Keeps(x, h)
  BY <1>1, <1>4, <1>9, SameReceiptSound, GateQuiet
<1> HIDE DEF x
<1>6. Sound(y, u) /\ y.results = x.results /\ Keeps(y, x)
  <2>1. Base(x, u) /\ StopsOK(x.stops, x.gate)
    BY <1>5 DEF Sound
  <2> QED BY <2>1, DiscardBase, DiscardKeeps DEF Sound
<1> HIDE DEF y
<1>7. Sound(r, u) /\ Same(r, y) /\ (Carried(y) => Carried(r))
  BY <1>6, FinishPendingSound, FinishPendingCarried
<1> HIDE DEF r
<1>10. Carried(Host) => Carried(r)
  BY <1>1, <1>5, <1>6, <1>7 DEF Keeps
<1>8. Leaves(r, u)
  BY <1>1, <1>5, <1>6, <1>7, <1>10, SameLeaves DEF Same
<1> QED BY <1>2, <1>8, Taken

\* The controls of the fixture.
LEMMA ConfigureStays == ASSUME Sound(Host, last_time), Configure PROVE Stays
<1>1. /\ UNCHANGED <<gate, staged, current, prepared, results, stops, muted>>
      /\ last_time' = last_time
  BY DEF Configure
<1>2. adapter \in Adapter /\ Host.adapter = adapter
  BY DEF Sound, Base, HostRecord, Host
<1>3. /\ adapter' \in Adapter /\ adapter'.pending = adapter.pending
      /\ adapter'.retained \subseteq adapter.retained
  <2>1. ASSUME NEW control \in Controls, NEW on \in BOOLEAN,
               adapter' = set_control(adapter, control, on)
        PROVE  <1>3
    <3>1. control \in Control
      BY ControlAssumption
    <3> QED BY <1>2, <2>1, <3>1 DEF set_control, Control, Adapter
  <2>2. ASSUME NEW mode \in Modes, adapter' = [adapter EXCEPT !.cancellation = mode]
        PROVE  <1>3
    <3>1. mode \in CancellationMode
      BY ControlAssumption
    <3> QED BY <1>2, <2>2, <3>1 DEF Adapter
  <2> QED BY <2>1, <2>2 DEF Configure
<1> DEFINE b == adapter'
           r == [Host EXCEPT !.adapter = b]
<1> HIDE DEF b
<1>4. Sound(r, last_time) /\ Same(r, Host)
  BY <1>2, <1>3, AdapterSound DEF b
<1>7. Keeps(r, Host)
  BY <1>2, <1>3, AdapterQuiet DEF b, Sound, Base
<1>5. Becomes(r)
  <2>1. Host \in HostRecord
    BY DEF Sound, Base
  <2> QED BY <1>1, <2>1 DEF Becomes, Host, b
<1> HIDE DEF r
<1>6. r.results = results /\ (Carried(Host) => Carried(r))
  BY <1>4, <1>7 DEF Same, Host, Keeps
<1> QED BY <1>1, <1>4, <1>5, <1>6, SameLeaves, Taken

LEMMA ProcessAllStays ==
  ASSUME Sound(Host, last_time),
         UNCHANGED <<gate, adapter, staged, current, prepared, last_time, results, stops,
                     muted>>
  PROVE  Stays
<1>1. Host' = Host /\ last_time' = last_time
  BY DEF Host
<1> QED BY <1>1 DEF Stays, Delivers
-----------------------------------------------------------------------------
(* The invariant *)

\* At the start there is no operation to carry.
LEMMA InitIInv == Init => IInv
<1> SUFFICES ASSUME Init PROVE IInv
  OBVIOUS
<1>1. PICK m \in Completions : adapter = new_adapter(m)
  BY DEF Init
<1>2. adapter \in Adapter /\ adapter.pending = {} /\ adapter.retained = {}
  <2>1. m \in CompletionMode /\ "cooperative" \in CancellationMode
    BY ControlAssumption DEF CancellationMode
  <2> QED BY <1>1, <2>1 DEF new_adapter, Adapter
<1>3. /\ gate = initial_gate /\ staged = <<>> /\ current = {} /\ prepared = {}
      /\ results = <<>> /\ stops = <<>> /\ muted = {} /\ last_time = 0
      /\ sequences = [c \in Concern |-> 0]
  BY DEF Init
<1>4. gate \in Gate
  BY <1>3, InitialGateType
<1> DEFINE r == Host
           g == gate
<1>5. /\ r.gate = g /\ r.adapter = adapter /\ r.staged = <<>> /\ r.current = {}
      /\ r.prepared = {} /\ r.results = <<>> /\ r.stops = <<>> /\ r \in HostRecord
      /\ r.muted = {}
  BY <1>2, <1>3, <1>4 DEF Host, HostRecord
<1>6. g.receipt = NoReceipt /\ g.next_operation_id = 1 /\ ~has_candidate(g)
  <2>1. NoCandidate.binding.generation = 0
    BY BindingAssumption DEF NoCandidate, new_candidate, NoBinding
  <2> QED BY <1>3, <2>1 DEF initial_gate, has_candidate
<1>7. /\ NoReceipt.authority.operation_id = 0
      /\ NoReceipt.authority.admitted_at = StartedAt
      /\ NoReceipt.disposition = "current" /\ NoReceipt.outcome = "pending"
      /\ NoReceipt.dispatch = "pending" /\ NoReceipt.dispatched_at = {}
      /\ NoReceipt.cancelled_at = {} /\ NoReceipt.expired_at = {}
      /\ NoReceipt.withdrawn_at = {}
      /\ \A k \in EvidenceKind : NoReceipt.evidence[k] = {}
  BY DEF NoReceipt, new_receipt, NoAuthority
<1> HIDE DEF r, g
<1>8. GateOK(g, 0)
  <2>1. Timed(NoReceipt, 0)
    BY <1>7, TimeIs DEF Timed, revocations
  <2>2. Reliable(NoReceipt)
    <3>1. Terminal \subseteq EvidenceKind
      BY DEF Terminal, EvidenceKind, NativeKind
    <3> QED BY <1>7, <3>1 DEF Reliable, is_revoked, revocations
  <2> QED BY <1>4, <1>6, <1>7, <2>1, <2>2 DEF GateOK, g
<1>9. ~has_receipt(g)
  BY <1>6, <1>7 DEF has_receipt
<1>10. Sound(r, 0)
  BY <1>2, <1>5, <1>8, <1>9, TimeIs
  DEF Sound, Base, SinkOK, StopsOK, Distinct, WorkOK, StagedOK, Only
<1>11. sequences \in [Concern -> 0..ObservationLimit]
  BY <1>3, HostAssumption
<1>12. Carried(r)
  BY <1>5, <1>6, <1>9, LooseCarried DEF Loose, InForce, MutedOld
<1> QED BY <1>3, <1>10, <1>11, <1>12 DEF IInv, r

\* Every step keeps the invariant, and delivers at most what it may.
LEMMA StepStays ==
  ASSUME IInv, [Next]_vars
  PROVE  IInv' /\ Delivers(Host', Host, last_time')
<1>1. /\ Sound(Host, last_time) /\ sequences \in [Concern -> 0..ObservationLimit]
      /\ Carried(Host)
  BY DEF IInv
<1>2. Stays /\ sequences' \in [Concern -> 0..ObservationLimit]
  <2>1. CASE Initialize
    BY <1>1, <2>1, InitializeStays
  <2>2. CASE RebindProvider
    BY <1>1, <2>2, RebindStays
  <2>3. CASE WithdrawBinding
    BY <1>1, <2>3, WithdrawStays DEF WithdrawBinding
  <2>4. CASE Prepare
    BY <1>1, <2>4, PrepareStays DEF Prepare
  <2>5. CASE DispatchPrepared
    BY <1>1, <2>5, DispatchStays DEF DispatchPrepared
  <2>6. CASE RequestCancel
    BY <1>1, <2>6, CancelStays DEF RequestCancel
  <2>7. CASE Poll
    BY <1>1, <2>7, PollStays DEF Poll
  <2>8. CASE CompleteDeferred
    BY <1>1, <2>8, CompleteStays DEF CompleteDeferred
  <2>9. CASE ReplayRetainedResult
    BY <1>1, <2>9, ReplayStays DEF ReplayRetainedResult
  <2>10. CASE ProcessNext
    BY <1>1, <2>10, ProcessStays DEF ProcessNext
  <2>11. CASE ProcessAll
    BY <1>1, <2>11, ProcessAllStays DEF ProcessAll
  <2>12. CASE Iterate
    BY <1>1, <2>12, IterateStays DEF Iterate
  <2>13. CASE Shutdown
    BY <1>1, <2>13, ShutdownStays DEF Shutdown
  <2>14. CASE Configure
    BY <1>1, <2>14, ConfigureStays DEF Configure
  <2>15. CASE UNCHANGED vars
    BY <1>1, <2>15, ProcessAllStays DEF vars
  <2> QED BY <2>1, <2>2, <2>3, <2>4, <2>5, <2>6, <2>7, <2>8, <2>9, <2>10, <2>11, <2>12,
             <2>13, <2>14, <2>15 DEF Next
<1> QED BY <1>1, <1>2 DEF Stays, IInv

\* The invariant holds in every state of the host.
THEOREM InvariantHolds == Spec => []IInv
<1>1. Init => IInv
  BY InitIInv
<1>2. IInv /\ [Next]_vars => IInv'
  BY StepStays
<1> QED BY <1>1, <1>2, PTL DEF Spec

\* sample_execution.cpp: the sink and the gate agree at every moment.  The sink
\* takes no result twice, however often it was replayed, and the receipt says the
\* output was accepted exactly when the sink took it.
THEOREM SinkAlwaysAgreesWithGate == Spec => []SinkAgreesWithGate
<1>1. IInv => SinkAgreesWithGate
  BY DEF IInv, Sound, Base, SinkOK, Distinct, Holds, Host, SinkAgreesWithGate
<1> QED BY <1>1, InvariantHolds, PTL

\* sample_execution.cpp: no operation is lost.  As long as the gate holds it there is
\* a prepared request, work in the adapter or a staged callback to carry it on, or the
\* fixture has dropped its settlement: process_all and shutdown end with the operation
\* released, and whatever was withdrawn, expired, cancelled, discarded or replayed
\* before, the gate refuses none of the reports that are left.
THEOREM OperationIsAlwaysCarried == Spec => []OperationIsCarried
<1>1. IInv => OperationIsCarried
  <2> SUFFICES ASSUME Carried(Host), has_receipt(gate),
                      gate.receipt.disposition # "released"
               PROVE  \/ prepared # {} \/ adapter.pending # {} \/ staged # <<>>
                      \/ gate.receipt.authority.operation_id \in muted
    BY DEF IInv, OperationIsCarried
  <2>1. ~IsOver(Host) /\ ~IsReleased(Host.gate)
    BY DEF IsOver, IsReleased, Host
  <2>2. CASE gate.receipt.authority.operation_id \notin muted
    <3>1. IsPrepared(Host) \/ IsWorking(Host) \/ IsReporting(Host)
      BY <2>1, <2>2 DEF Carried, Host
    <3> QED BY <3>1 DEF IsPrepared, IsWorking, IsReporting, Leads, Host
  <2> QED BY <2>2
<1> QED BY <1>1, InvariantHolds, PTL

\* sample_execution.cpp: the adapter was asked to stop exactly when the receipt says
\* so, and once; work that was revoked and still runs was asked to stop.
THEOREM StopsAlwaysAgree == Spec => []StopsAgree
<1>1. IInv => StopsAgree
  <2> SUFFICES ASSUME IInv PROVE StopsAgree
    OBVIOUS
  <2>1. /\ Base(Host, last_time) /\ StopsOK(stops, gate) /\ GateOK(gate, last_time)
        /\ WorkOK(adapter, gate)
    BY DEF IInv, Sound, Base, Host
  <2>2. ASSUME NEW w \in adapter.pending, is_revoked(gate.receipt)
        PROVE  \E i \in DOMAIN stops : stops[i] = w.authority
    <3>1. /\ w.authority = gate.receipt.authority /\ gate.receipt.dispatch = "submitted"
          /\ gate.receipt.outcome = "pending"
      BY <2>1 DEF WorkOK
    <3>2. gate.receipt.stop_requested_at # {}
      BY <2>1, <2>2, <3>1 DEF GateOK, Reliable
    <3>3. has_receipt(gate)
      <4>1. w \in Work
        BY <2>1 DEF Base, HostRecord, Adapter, Host
      <4> QED BY <3>1, <4>1 DEF Work, Issued, has_receipt
    <3> QED BY <2>1, <3>1, <3>2, <3>3 DEF StopsOK, Holds
  <2> QED BY <2>1, <2>2 DEF StopsOK, Distinct, Holds, StopsAgree
<1> QED BY <1>1, InvariantHolds, PTL

\* sample_execution.cpp: a result reaches the sink only for the operation and the
\* binding that are current, before its deadline and before any revocation, whatever
\* was staged, replayed or withdrawn, and whenever the clock moved within the call.
THEOREM DeliveryIsAlwaysWithinAuthority == Spec => DeliveredWithinAuthority
<1> DEFINE A == results' # results =>
                  LET authority == results'[Len(results')]
                  IN  /\ authority = gate.receipt.authority
                      /\ authority.binding = gate.binding
                      /\ ~is_revoked(gate'.receipt)
                      /\ ~has_reached_deadline(gate.receipt, last_time')
                      /\ gate.phase \notin {"withdrawn", "preparing"}
<1>1. IInv /\ [Next]_vars => [A]_vars
  <2> SUFFICES ASSUME IInv, [Next]_vars, results' # results PROVE A
    OBVIOUS
  <2>1. Delivers(Host', Host, last_time')
    BY StepStays
  <2>2. /\ results' = Append(results, gate.receipt.authority)
        /\ gate.receipt.authority.binding = gate.binding
        /\ ~is_revoked(gate'.receipt)
        /\ ~has_reached_deadline(gate.receipt, last_time')
        /\ gate.phase \notin {"withdrawn", "preparing"}
    BY <2>1 DEF Delivers, Host
  <2>3. results \in Seq(Issued)
    BY DEF IInv, Sound, Base, HostRecord, Host
  <2>4. results'[Len(results')] = gate.receipt.authority
    BY <2>2, <2>3
  <2> QED BY <2>2, <2>4
<1> QED BY <1>1, InvariantHolds, PTL DEF Spec, DeliveredWithinAuthority
=============================================================================
