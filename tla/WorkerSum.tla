------------------------------ MODULE WorkerSum ------------------------------
(***************************************************************************)
(* What the worker of src/compute/compute_worker.cpp computes, and the       *)
(* closed form in which its host (compute_execution.cpp) and the recovery    *)
(* client (recovery_client.cpp) expect it.  ComputeProcess leaves the sums    *)
(* out: by the theorems here every frame of the worker carries the sum that   *)
(* belongs to its number of iterations.                                      *)
(***************************************************************************)
EXTENDS Integers

Period == 1000
PeriodSum == 332833500
MaximumIterations == 100000000

VARIABLES
  limit,     \* the iterations of the run
  completed, \* the iterations done
  sum        \* the sum of their squares

vars == <<limit, completed, sum>>

Init == limit \in 1..MaximumIterations /\ completed = 0 /\ sum = 0

Iterate ==
  LET value == completed % Period
  IN  /\ completed < limit
      /\ sum' = sum + value * value
      /\ completed' = completed + 1
      /\ limit' = limit

Spec == Init /\ [][Iterate]_vars

\* The unsigned arithmetic of the code does not wrap: see SumFits.
expected_sum(iterations) ==
  LET remainder == iterations % Period
  IN  (iterations \div Period) * PeriodSum +
        IF remainder = 0 THEN 0
        ELSE ((remainder - 1) * remainder * (2 * remainder - 1)) \div 6

-----------------------------------------------------------------------------
\* The sum of every frame is the one the owner expects of its iterations.
SumIsExpected == sum = expected_sum(completed)

\* No sum is above 33283682833500, far below the 2^64 it may not reach.
SumFits == sum <= 100001 * PeriodSum
=============================================================================
