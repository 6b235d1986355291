------------------------- MODULE EngineeringWorkflow -------------------------
(***************************************************************************)
(* The routing policy of the engineering loop, as pure operators: the step *)
(* table and decideEngineeringStep of packages/workflow, and the worker's  *)
(* readState and guardDecision that surround it.                           *)
(*                                                                         *)
(* A run is known to these operators by                                    *)
(*   st    the persisted workflow state: verdicts, counters, worktree      *)
(*   opts  what the run was started with and the project's settings        *)
(*   rows  the run's step rows, in the order of their sequence number      *)
(***************************************************************************)
EXTENDS Integers, Sequences, SequencesExt

NoStep == "none"

(***************************************************************************)
(* ENGINEERING_TASK_STEPS. entryStatus "none" is the code's null. Titles,  *)
(* descriptions and agent roles are left out.                              *)
(***************************************************************************)
stepDefinition(status, permission, attempts, isOptional) ==
  [entryStatus |-> status, requiredPermission |-> permission,
   maxAttempts |-> attempts, optional |-> isOptional]

ENGINEERING_TASK_STEPS ==
  [ANALYZE_REPOSITORY |-> stepDefinition("PLANNING",     0, 2, FALSE),
   PLAN               |-> stepDefinition("PLANNING",     1, 2, FALSE),
   CREATE_TASKS       |-> stepDefinition("PLAN_READY",   1, 2, FALSE),
   CREATE_WORKTREE    |-> stepDefinition("QUEUED",       2, 3, FALSE),
   IMPLEMENT          |-> stepDefinition("IMPLEMENTING", 2, 2, FALSE),
   RUN_TESTS          |-> stepDefinition("TESTING",      2, 1, FALSE),
   UI_QA              |-> stepDefinition("REVIEWING",    1, 1, TRUE),
   REVIEW             |-> stepDefinition("REVIEWING",    1, 2, FALSE),
   FIX                |-> stepDefinition("FIXING",       2, 2, FALSE),
   RETEST             |-> stepDefinition("TESTING",      2, 1, FALSE),
   FINAL_REVIEW       |-> stepDefinition("REVIEWING",    1, 2, FALSE),
   DOCUMENT           |-> stepDefinition("REVIEWING",    1, 1, TRUE),
   PREPARE_PR         |-> stepDefinition("PR_READY",     3, 2, TRUE),
   COMPLETE           |-> stepDefinition("none",         0, 1, FALSE)]

StepKey == DOMAIN ENGINEERING_TASK_STEPS

getStep(key) == ENGINEERING_TASK_STEPS[key]

\* Steps that get a fresh row for every cycle instead of reusing one.
CYCLE_STEPS == {"FIX", "RETEST", "RUN_TESTS", "REVIEW", "FINAL_REVIEW"}

(***************************************************************************)
(* PERMISSION_LEVEL_ORDER: LEVEL_0_OBSERVE .. LEVEL_5_DEPLOY.              *)
(***************************************************************************)
PermissionLevel == 0..5
permissionAtLeast(actual, required) == actual >= required

(***************************************************************************)
(* The persisted state of a fresh run. `worktree` stands for worktreePath  *)
(* and the branch, base and checkout recorded with it.                     *)
(***************************************************************************)
createInitialWorkflowState ==
  [testsPassed |-> FALSE, verificationPending |-> FALSE,
   reviewApproved |-> FALSE, hasBlockingFindings |-> FALSE,
   reviewCycle |-> 0, attempt |-> 0, worktree |-> FALSE, cancelled |-> FALSE]

-----------------------------------------------------------------------------
(***************************************************************************)
(* readState: what the step rows say. A SKIPPED step is done as well; only *)
(* a FAILED row that used its last attempt counts as failed.               *)
(***************************************************************************)
completedSteps(rows) ==
  {rows[i].stepKey : i \in {j \in DOMAIN rows :
                              rows[j].status \in {"SUCCEEDED", "SKIPPED"}}}

failedRows(rows) ==
  {i \in DOMAIN rows : /\ rows[i].status = "FAILED"
                       /\ rows[i].attempt >= getStep(rows[i].stepKey).maxAttempts}

failedSteps(rows) == {rows[i].stepKey : i \in failedRows(rows)}

isCancelled(status, st) == status = "CANCELLED" \/ st.cancelled

-----------------------------------------------------------------------------
run(key)   == [type |-> "RUN_STEP", step |-> key]
verdict(t) == [type |-> t, step |-> NoStep]

(***************************************************************************)
(* The first failed step that is not optional decides: a failed COMPLETE   *)
(* is a question for a person, any other failed step fails the run.        *)
(***************************************************************************)
mandatoryFailures_any(rows) == failedRows(rows)

mandatoryFailures(rows) ==
  {i \in failedRows(rows) : ~getStep(rows[i].stepKey).optional}

firstIndex(S) == IF S = {} THEN 0 ELSE CHOOSE i \in S : \A j \in S : i <= j

decideFailure(rows) ==
  verdict(IF rows[firstIndex(mandatoryFailures(rows))].stepKey = "COMPLETE"
          THEN "WAIT_FOR_HUMAN" ELSE "FAIL")

decideRepair_oneMore(st, opts) ==
  IF st.verificationPending THEN run("RETEST")
  ELSE IF \/ st.reviewCycle > opts.maxReviewCycles
          \/ st.attempt > opts.maxAttempts
       THEN verdict("WAIT_FOR_HUMAN")
       ELSE run("FIX")

\* The bounded fix loop: re-verify, else fix, else hand over.
decideRepair(st, opts) ==
  IF st.verificationPending THEN run("RETEST")
  ELSE IF \/ st.reviewCycle >= opts.maxReviewCycles
          \/ st.attempt >= opts.maxAttempts
       THEN verdict("WAIT_FOR_HUMAN")
       ELSE run("FIX")

decideReview(st, opts) ==
  IF st.reviewCycle >= opts.maxReviewCycles THEN verdict("WAIT_FOR_HUMAN")
  ELSE IF st.reviewCycle >= opts.maxReviewCycles - 1 THEN run("FINAL_REVIEW")
  ELSE run("REVIEW")

\* Everything after the approval: documentation, pull request, completion.
decideDelivery(opts, rows) ==
  LET done(k)  == k \in completedSteps(rows)
      open(k)  == ~done(k) /\ k \notin failedSteps(rows)
      wantsPr  == opts.createPullRequest /\ ~done("PREPARE_PR")
  IN  IF opts.documentationEnabled /\ open("DOCUMENT")   THEN run("DOCUMENT")
      ELSE IF wantsPr /\ ~permissionAtLeast(opts.permissionLevel, 3)
                                                         THEN verdict("WAIT_FOR_HUMAN")
      ELSE IF wantsPr /\ open("PREPARE_PR")              THEN run("PREPARE_PR")
      ELSE IF ~done("COMPLETE")                          THEN run("COMPLETE")
      ELSE verdict("COMPLETE")

(***************************************************************************)
(* decideEngineeringStep. The order of the tests is the code's.            *)
(***************************************************************************)
needsUiQa(st, opts, rows) ==
  /\ opts.uiQaEnabled
  /\ st.testsPassed
  /\ "UI_QA" \notin completedSteps(rows) \cup failedSteps(rows)

needsRepair(st) ==
  ~st.testsPassed \/ (~st.reviewApproved /\ st.hasBlockingFindings)

decideEngineeringStep(status, st, opts, rows) ==
  LET done(k) == k \in completedSteps(rows)
  IN  IF isCancelled(status, st)                THEN verdict("CANCELLED")
      ELSE IF mandatoryFailures(rows) # {}      THEN decideFailure(rows)
      ELSE IF ~done("ANALYZE_REPOSITORY")       THEN run("ANALYZE_REPOSITORY")
      ELSE IF ~opts.skipPlanning /\ ~done("PLAN")         THEN run("PLAN")
      ELSE IF ~opts.skipPlanning /\ ~done("CREATE_TASKS") THEN run("CREATE_TASKS")
      ELSE IF ~permissionAtLeast(opts.permissionLevel, 2)
                                                THEN verdict("WAIT_FOR_HUMAN")
      ELSE IF ~done("CREATE_WORKTREE")          THEN run("CREATE_WORKTREE")
      ELSE IF ~done("IMPLEMENT")                THEN run("IMPLEMENT")
      ELSE IF ~done("RUN_TESTS")                THEN run("RUN_TESTS")
      ELSE IF needsUiQa(st, opts, rows)         THEN run("UI_QA")
      ELSE IF needsRepair(st)                   THEN decideRepair(st, opts)
      ELSE IF ~st.reviewApproved                THEN decideReview(st, opts)
      ELSE decideDelivery(opts, rows)

-----------------------------------------------------------------------------
(***************************************************************************)
(* guardDecision: the engine's backstop over the router. maxExecutions is  *)
(* MAX_STEP_EXECUTIONS; executions count every attempt of every row.       *)
(***************************************************************************)
executions(rows) == FoldLeft(LAMBDA total, row : total + row.attempt, 0, rows)

guardDecision_oneMore(decision, st, opts, rows, maxExecutions) ==
  IF /\ decision.type = "RUN_STEP"
     /\ \/ executions(rows) > maxExecutions
        \/ /\ decision.step \in {"REVIEW", "FINAL_REVIEW"}
           /\ st.reviewCycle >= opts.maxReviewCycles
  THEN verdict("WAIT_FOR_HUMAN")
  ELSE decision

guardDecision(decision, st, opts, rows, maxExecutions) ==
  IF /\ decision.type = "RUN_STEP"
     /\ \/ executions(rows) >= maxExecutions
        \/ /\ decision.step \in {"REVIEW", "FINAL_REVIEW"}
           /\ st.reviewCycle >= opts.maxReviewCycles
  THEN verdict("WAIT_FOR_HUMAN")
  ELSE decision
=============================================================================
