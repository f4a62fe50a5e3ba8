------------------------- MODULE ObservationWatches -------------------------
(***************************************************************************)
(* What the navigation owner concludes from the messages it receives: the    *)
(* classes RuntimeObservationWatch, ObstacleWatch, MotionWindow and          *)
(* ClosureObservations of src/integrations/ros2/nav2_observation, each as    *)
(* operators on its state record w.                                         *)
(*                                                                         *)
(* The code keeps stamps and times of receipt and compares them with now.    *)
(* Here a sample carries its age in ticks, which Tick of the owner advances  *)
(* and which counts no further than the limit it is compared with; a stamp   *)
(* is reduced to whether it is newer than the last one, and whether it lies  *)
(* after the boundary given to can_resume.  A sample whose stamp is already  *)
(* too old for the clock arrives with the age of the limit.                  *)
(***************************************************************************)
EXTENDS Integers, Sequences

CONSTANTS
  Budget,        \* RuntimeObservationWatch::kBudgetMs, in ticks
  ScanLimit,     \* the age at which a scan is no longer fresh (1500 ms)
  CostmapLimit,  \* the same of the costmap (3000 ms)
  Frames,        \* the frames of a window of ObstacleWatch (3)
  QuietSamples,  \* the samples of a quiet window (10)
  QuietTime      \* and the stamps it spans (1 s)

ASSUME WatchAssumption ==
  /\ {Budget, ScanLimit, CostmapLimit, Frames} \subseteq Nat \ {0}
  /\ {QuietSamples, QuietTime} \subseteq Nat \ {0}

older(age, limit) == IF age < limit THEN age + 1 ELSE limit

-----------------------------------------------------------------------------
(* RuntimeObservationWatch *)

Stream == {"clock", "odometry"}

new_runtime_watch ==
  [active |-> FALSE, lost |-> {}, age |-> [s \in Stream |-> 0]]

start_watch(w) == [new_runtime_watch EXCEPT !.active = TRUE]

expired(w, s) == w.active /\ w.age[s] >= Budget

\* What stale() returns: the stream that was lost, or none.
stale(w) ==
  IF w.lost # {} THEN w.lost
  ELSE IF expired(w, "clock") THEN {"clock"}
  ELSE IF expired(w, "odometry") THEN {"odometry"}
  ELSE {}

latch_expiry(w) == [w EXCEPT !.lost = stale(w)]

renewed(w, s, progresses) ==
  IF progresses THEN [w EXCEPT !.age[s] = 0] ELSE w

\* Mutant: a message renews the stream without looking at what went before.
MutantNoLatch(w, s, progresses) == renewed(w, s, progresses)

\* observe_clock and observe_odometry; progresses: the sample is valid and its
\* stamp is newer than the one the stream holds.
observe_stream(w, s, progresses) == renewed(latch_expiry(w), s, progresses)

\* A tick without a message of these streams.
aged_runtime(w, streams) ==
  [w EXCEPT !.age = [s \in Stream |->
     IF s \in streams THEN older(@[s], Budget) ELSE @[s]]]

-----------------------------------------------------------------------------
(* ObstacleWatch *)

\* Where the closest return of a scan lies: at most 1.05 m, at most 1.3 m,
\* further away; or the scan is not valid.
Clearance == {"close", "near", "clear", "invalid"}
Occupancy == {"free", "occupied", "invalid"}

new_obstacle_watch ==
  [scan |-> {}, costmap |-> {}, close |-> <<>>, clear |-> <<>>]

\* The last Frames samples; one that is not there is an invalid one.
push(window, sample) ==
  LET longer == Append(window, sample)
  IN  IF Len(longer) > Frames THEN Tail(longer) ELSE longer

take_scan(w, m) ==
  LET sample == [age |-> m.age, after |-> m.after]
  IN  [w EXCEPT !.scan = {[age |-> m.age, after |-> m.after,
                             value |-> m.value]},
                !.clear = IF m.value = "clear" THEN push(@, sample) ELSE <<>>,
                !.close = IF m.value = "close" THEN push(@, sample) ELSE <<>>]

\* Mutant: a frame that was delivered before counts again.
MutantRepeatedFrame(w, m) == take_scan(w, m)

\* m : [newer, age, after, value]
observe_scan(w, m) == IF m.newer THEN take_scan(w, m) ELSE w

observe_costmap(w, m) ==
  IF m.newer
    THEN [w EXCEPT !.costmap = {[age |-> m.age, after |-> m.after,
                                 value |-> m.value]}]
    ELSE w

scan_fresh(w) == \E s \in w.scan : s.value # "invalid" /\ s.age < ScanLimit

costmap_fresh(w) ==
  \E c \in w.costmap : c.value # "invalid" /\ c.age < CostmapLimit

occupied(w) == \E c \in w.costmap : c.value = "occupied"

ready(w) ==
  /\ scan_fresh(w) /\ costmap_fresh(w) /\ ~occupied(w)
  /\ \E s \in w.scan : s.value = "clear"

full_and_fresh(window) ==
  Len(window) = Frames /\ \A i \in 1..Len(window) : window[i].age < ScanLimit

\* after_ms and after_ns: every sample was made and received after the boundary.
can_resume(w) ==
  /\ ready(w)
  /\ \A c \in w.costmap : c.after
  /\ full_and_fresh(w.clear)
  /\ \A i \in 1..Len(w.clear) : w.clear[i].after

decision(w) ==
  IF ~scan_fresh(w) \/ ~costmap_fresh(w) THEN "unknown"
  ELSE IF full_and_fresh(w.close) /\ occupied(w) THEN "blocked"
  ELSE "continue"

aged_obstacle(w) ==
  LET aged(window) ==
        [i \in 1..Len(window) |->
           [window[i] EXCEPT !.age = older(@, ScanLimit)]]
  IN  [scan |-> {[s EXCEPT !.age = older(@, ScanLimit)] : s \in w.scan},
       costmap |-> {[c EXCEPT !.age = older(@, CostmapLimit)] : c \in w.costmap},
       close |-> aged(w.close), clear |-> aged(w.clear)]

-----------------------------------------------------------------------------
(* MotionWindow *)

new_window == [status |-> "pending", count |-> 0, span |-> 0]

\* A sample stamped after the window began: "still" or "moving", or "bad"
\* when its frame, its values, its stamp or the clock refuses it.  span counts
\* the ticks between the first still sample and the last one.
observe_motion(w, sample, step) ==
  LET still == [w EXCEPT !.count = IF @ < QuietSamples THEN @ + 1 ELSE @,
                         !.span = IF w.count = 0 THEN 0
                                  ELSE IF @ + step < QuietTime THEN @ + step
                                  ELSE QuietTime]
  IN  IF w.status # "pending" THEN w
      ELSE IF sample = "bad" THEN [w EXCEPT !.status = "rejected"]
      ELSE IF sample = "moving"
        THEN IF w.count = 0 THEN w ELSE [w EXCEPT !.status = "rejected"]
      ELSE IF still.count >= QuietSamples /\ still.span >= QuietTime
        THEN [still EXCEPT !.status = "observed"]
      ELSE still

-----------------------------------------------------------------------------
(* ClosureObservations, of one task scope and its generation of the drive *)

Child == {"planner", "controller"}

new_facts(generation) ==
  [generation |-> generation, parent |-> FALSE,
   link |-> [c \in Child |-> {}], ack |-> [c \in Child |-> {}],
   bt_closed |-> FALSE, drive |-> "open", rejected |-> FALSE]

\* Mutant: a link or an acknowledgement of one child is enough.
MutantAnyWorker(w) ==
  /\ ~w.rejected /\ w.parent
  /\ \E c \in Child : w.link[c] # {} /\ w.link[c] = w.ack[c]

workers_closed(w) ==
  /\ ~w.rejected /\ w.parent
  /\ \A c \in Child : w.link[c] # {} /\ w.link[c] = w.ack[c]

\* A check that fails rejects the facts for good, and throws.
rejected_facts(w) == [w EXCEPT !.rejected = TRUE]

observe_child(w, child, acknowledges, identity) ==
  LET before == IF acknowledges THEN w.ack[child] ELSE w.link[child]
      seen == IF acknowledges THEN [w EXCEPT !.ack[child] = {identity}]
              ELSE [w EXCEPT !.link[child] = {identity}]
      agree == \A l \in seen.link[child], a \in seen.ack[child] : l = a
  IN  IF ~(before \subseteq {identity}) THEN rejected_facts(w)
      ELSE IF agree THEN seen
      ELSE rejected_facts(seen)

observe_bt(w, joined) ==
  IF workers_closed(w) /\ joined THEN [w EXCEPT !.bt_closed = TRUE]
  ELSE rejected_facts(w)

judged_drive(w, generation, requested) ==
  IF generation # w.generation \/ ~requested
    THEN [rejected_facts(w) EXCEPT !.drive = "rejected"]
  ELSE IF w.drive = "open" THEN [w EXCEPT !.drive = "closed"]
  ELSE w

\* Mutant: the retained acknowledgement of an earlier generation is judged.
MutantJudgesRetained(w, generation, requested) ==
  judged_drive(w, generation, requested)

\* requested: the acknowledgement is stamped after the request to close.
observe_drive(w, generation, requested) ==
  IF generation < w.generation THEN w
  ELSE judged_drive(w, generation, requested)

facts_closed(w) == workers_closed(w) /\ w.bt_closed /\ w.drive = "closed"
=============================================================================
