---------------------------- MODULE StepHandlers ----------------------------
(***************************************************************************)
(* The step handlers of apps/worker/src/workflow/steps, reduced to what    *)
(* they return: the status of the step and the patch they merge into the   *)
(* persisted state. What the outside world answered (an agent, the checks, *)
(* git, GitHub) is the argument `answer`, a member of Answers(key); a      *)
(* handler that throws is recorded as FAILED, which "failed" also covers.  *)
(*                                                                         *)
(* repo  the task has a repository                                         *)
(* ws    a workspace path is known (state.worktreePath ?? task.worktreePath)*)
(***************************************************************************)
EXTENDS EngineeringWorkflow

Answers(key) ==
  CASE key \in {"IMPLEMENT", "FIX"}       -> {"ok", "blocked", "failed"}
    [] key \in {"RUN_TESTS", "RETEST"}    -> {"passed", "failing", "failed"}
    [] key \in {"REVIEW", "FINAL_REVIEW"} -> {"approved", "declined", "blocking",
                                              "failed"}
    [] key = "UI_QA"                      -> {"empty", "clean", "blocking",
                                              "failed"}
    [] key = "DOCUMENT"                   -> {"ok", "empty", "failed"}
    [] key = "PREPARE_PR"                 -> {"ok", "empty", "failed"}
    [] OTHER                              -> {"ok", "failed"}

result(status, st) == [status |-> status, st |-> st]

\* The lease and its branch, base and checkout, recorded in the state.
provisioned(st) == [st EXCEPT !.worktree = TRUE]

analyzeRepositoryStep(st, repo, answer) ==
  IF ~repo THEN result("SKIPPED", st)
  ELSE IF answer = "failed" THEN result("FAILED", st)
  ELSE result("SUCCEEDED", provisioned(st))

planStep(st, ws, answer) ==
  result(IF ~ws \/ answer = "failed" THEN "FAILED" ELSE "SUCCEEDED", st)

createTasksStep(st, answer) ==
  result(IF answer = "failed" THEN "FAILED" ELSE "SUCCEEDED", st)

createWorktreeStep(st, repo, answer) ==
  IF ~repo THEN result("SKIPPED", st)
  ELSE IF answer = "failed" THEN result("FAILED", st)
  ELSE result("SUCCEEDED", provisioned(st))

runImplementer_keepsTests(st, ws, answer) ==
  IF ~ws \/ answer \in {"failed", "blocked"} THEN result("FAILED", st)
  ELSE result("SUCCEEDED",
              [st EXCEPT !.reviewApproved = FALSE, !.hasBlockingFindings = FALSE,
                         !.attempt = @ + 1])

\* New code invalidates every verdict about the old one.
runImplementer(st, ws, answer) ==
  IF ~ws \/ answer \in {"failed", "blocked"} THEN result("FAILED", st)
  ELSE result("SUCCEEDED",
              [st EXCEPT !.testsPassed = FALSE, !.verificationPending = TRUE,
                         !.reviewApproved = FALSE, !.hasBlockingFindings = FALSE,
                         !.attempt = @ + 1])

runChecks_ranIsPassed(st, answer) ==
  IF answer = "failed" THEN result("FAILED", st)
  ELSE result("SUCCEEDED", [st EXCEPT !.testsPassed = TRUE,
                                      !.verificationPending = FALSE])

\* Running the checks succeeds whether or not they pass.
runChecks(st, answer) ==
  IF answer = "failed" THEN result("FAILED", st)
  ELSE result("SUCCEEDED", [st EXCEPT !.testsPassed = (answer = "passed"),
                                      !.verificationPending = FALSE])

\* A review that does not approve always sends the work back.
runReview(st, ws, answer) ==
  IF ~ws \/ answer = "failed" THEN result("FAILED", st)
  ELSE result("SUCCEEDED",
              [st EXCEPT !.reviewApproved = (answer = "approved"),
                         !.hasBlockingFindings = (answer # "approved"),
                         !.reviewCycle = @ + 1])

\* "empty": no screenshot was captured for the task.
uiQaStep(st, ws, answer) ==
  IF ~ws \/ answer = "empty" THEN result("SKIPPED", st)
  ELSE IF answer = "failed" THEN result("FAILED", st)
  ELSE IF answer = "blocking"
  THEN result("SUCCEEDED", [st EXCEPT !.hasBlockingFindings = TRUE])
  ELSE result("SUCCEEDED", st)

\* "empty": the agent produced no storable document.
documentStep(st, ws, answer) ==
  IF ~ws \/ answer = "empty" THEN result("SKIPPED", st)
  ELSE result(IF answer = "failed" THEN "FAILED" ELSE "SUCCEEDED", st)

\* "empty": no repository or no branch to open a pull request from.
preparePullRequestStep(st, answer) ==
  result(CASE answer = "ok" -> "SUCCEEDED" [] answer = "empty" -> "SKIPPED"
           [] OTHER -> "FAILED", st)

\* "failed": a gate of the definition of done is not met.
completeStep(st, answer) ==
  result(IF answer = "failed" THEN "FAILED" ELSE "SUCCEEDED", st)

STEP_HANDLERS(key, st, repo, ws, answer) ==
  CASE key = "ANALYZE_REPOSITORY"         -> analyzeRepositoryStep(st, repo, answer)
    [] key = "PLAN"                       -> planStep(st, ws, answer)
    [] key = "CREATE_TASKS"               -> createTasksStep(st, answer)
    [] key = "CREATE_WORKTREE"            -> createWorktreeStep(st, repo, answer)
    [] key \in {"IMPLEMENT", "FIX"}       -> runImplementer(st, ws, answer)
    [] key \in {"RUN_TESTS", "RETEST"}    -> runChecks(st, answer)
    [] key = "UI_QA"                      -> uiQaStep(st, ws, answer)
    [] key \in {"REVIEW", "FINAL_REVIEW"} -> runReview(st, ws, answer)
    [] key = "DOCUMENT"                   -> documentStep(st, ws, answer)
    [] key = "PREPARE_PR"                 -> preparePullRequestStep(st, answer)
    [] key = "COMPLETE"                   -> completeStep(st, answer)

-----------------------------------------------------------------------------
(***************************************************************************)
(* How WorkflowEngine.executeStep keeps the rows. A one-shot step reuses   *)
(* its first row that has not SUCCEEDED; a cycle step always gets a new    *)
(* one. 0 stands for "no row to reuse".                                    *)
(***************************************************************************)
reusableRow(rows, key) ==
  IF key \in CYCLE_STEPS THEN 0
  ELSE firstIndex({i \in DOMAIN rows : /\ rows[i].stepKey = key
                                       /\ rows[i].status # "SUCCEEDED"})

\* The row a claimed execution works on, and the rows once it is claimed.
claimedIndex(rows, reuse) == IF reuse = 0 THEN Len(rows) + 1 ELSE reuse

claimRow_sameAttempt(rows, key, reuse) ==
  IF reuse = 0
  THEN Append(rows, [stepKey |-> key, status |-> "RUNNING", attempt |-> 1])
  ELSE [rows EXCEPT ![reuse].status = "RUNNING"]

claimRow(rows, key, reuse) ==
  IF reuse = 0
  THEN Append(rows, [stepKey |-> key, status |-> "RUNNING", attempt |-> 1])
  ELSE [rows EXCEPT ![reuse].status = "RUNNING", ![reuse].attempt = @ + 1]

settledStatus_oneMore(status, key, attempt) ==
  IF status = "FAILED" /\ attempt <= getStep(key).maxAttempts
  THEN "PENDING" ELSE status

\* A failure with attempts left goes back to PENDING.
settledStatus(status, key, attempt) ==
  IF status = "FAILED" /\ attempt < getStep(key).maxAttempts
  THEN "PENDING" ELSE status

settleRow(rows, i, status) ==
  [rows EXCEPT ![i].status =
     settledStatus(status, rows[i].stepKey, rows[i].attempt)]
=============================================================================
