--------------------------- MODULE SmallWorkflow ---------------------------
(***************************************************************************)
(* A workflow of two steps for WorkflowEngine, a one-shot one with a retry *)
(* and a cycle step, on the product's task table, and routers for it.      *)
(***************************************************************************)
EXTENDS TaskStateMachine

SmallKey         == {"PLAN", "FIX"}
SmallCycle       == {"FIX"}
SmallMaxAttempts == [k \in SmallKey |-> IF k = "PLAN" THEN 2 ELSE 1]
SmallEntry       == [k \in SmallKey |-> IF k = "PLAN" THEN "PLANNING" ELSE "QUEUED"]
NoMoves(k)       == {}
MayBlock(k)      == IF k = "FIX" THEN {"BLOCKED"} ELSE {}

\* All walks, as a set so that TLC computes them once.
walks == {<<from, to, path(taskTransitions, from, to)>> : from, to \in TaskStatus}
SmallRoute(from, to) == (CHOOSE r \in walks : r[1] = from /\ r[2] = to)[3]
SmallLegal(from, to) == can(taskTransitions, from, to)
SmallStatus    == TaskStatus
SmallRetryable == HUMAN_ATTENTION_STATUSES

(***************************************************************************)
(* A router for the two steps, with the execution bound of guardDecision.  *)
(***************************************************************************)
choice(type, k) == [type |-> type, key |-> k]

stepOver(rows, k) == \E i \in DOMAIN rows :
                      rows[i].key = k /\ rows[i].status \in {"SUCCEEDED", "SKIPPED"}

tried(rows) ==
  LET sum[n \in 0..Len(rows)] == IF n = 0 THEN 0 ELSE sum[n - 1] + rows[n].attempt
  IN  sum[Len(rows)]

offer(rows, k, bound) == IF tried(rows) >= bound
                         THEN choice("WAIT_FOR_HUMAN", "none") ELSE choice("RUN_STEP", k)

Route(rows, bound) ==
  IF \E i \in DOMAIN rows : rows[i].status = "FAILED" THEN choice("FAIL", "none")
  ELSE IF ~stepOver(rows, "PLAN") THEN offer(rows, "PLAN", bound)
  ELSE IF ~stepOver(rows, "FIX")  THEN offer(rows, "FIX", bound)
  ELSE choice("COMPLETE", "none")

\* The router alone, within two and within three executions; with the checks
\* that end a run before it is asked; and with a permission gate that settings
\* may close before the second step.
FixedTwo(rows)   == {Route(rows, 2)}
FixedThree(rows) == {Route(rows, 3)}
Guarded(rows)    == {Route(rows, 3), choice("ABORT", "none")}
Gated(rows)      == {Route(rows, 4)} \cup
  {choice("WAIT_FOR_HUMAN", "none") : d \in {r \in {rows} : stepOver(r, "PLAN")}}
=============================================================================
