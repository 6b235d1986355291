---------------------------- MODULE WorkflowLoop ----------------------------
(***************************************************************************)
(* One workflow run of the engineering loop, from the first advance to its *)
(* end: the router, the engine's bookkeeping of steps, the step handlers   *)
(* and the evidence they leave in the database and in the worktree.        *)
(*                                                                         *)
(* One call of WorkflowEngine.advance is one action here: this module asks *)
(* whether the POLICY is right. What happens when calls overlap, crash or  *)
(* race a cancellation is the subject of WorkflowEngine.                   *)
(***************************************************************************)
EXTENDS StepHandlers, TaskStateMachine

CONSTANTS
  Projects,           \* settings a project may have, now or after an edit
  Starts,             \* how a run may be started
  Leftovers,          \* what earlier runs of the task may have left behind
  Providers,          \* repository providers of the task; "NONE": no repository
  MaxStepExecutions,  \* MAX_STEP_EXECUTIONS (60 in the code)
  MaxFailures,        \* bound: step executions that fail or throw
  MaxEdits,           \* bound: project edits while the run lives
  MaxAdHocTests       \* bound: test runs requested beside the workflow

ASSUME LoopAssumption ==
  /\ MaxStepExecutions \in Nat \ {0}
  /\ MaxFailures \in Nat /\ MaxEdits \in Nat /\ MaxAdHocTests \in Nat
  /\ Providers \subseteq {"NONE", "LOCAL", "GITHUB"}
  /\ Projects \subseteq [permissionLevel : PermissionLevel, uiQaEnabled : BOOLEAN,
                         documentationEnabled : BOOLEAN, maxReviewCycles : Nat \ {0},
                         maxAttempts : Nat \ {0}]
  /\ Leftovers \subseteq [latestTest : {"none", "passed", "failed", "unfinished"},
                          worktree : BOOLEAN, blocking : BOOLEAN, pr : BOOLEAN,
                          clean : BOOLEAN]
  /\ Starts \subseteq [skipPlanning : BOOLEAN, planOnly : BOOLEAN,
                       snapshot : BOOLEAN]

VARIABLES
  run_,      \* the WorkflowRun row: status, persisted state, step rows
  task,      \* the Task row: status, and whether worktreePath is set
  project,   \* the project's settings as they are now
  start,     \* how the run was started, and the settings it captured
  provider,  \* provider of the task's repository
  evidence,  \* what the database and the worktree hold about the work
  edits, adHoc

vars == <<run_, task, project, start, provider, evidence, edits, adHoc>>

-----------------------------------------------------------------------------
(***************************************************************************)
(* What advance() hands to the router: the live project, or the frozen     *)
(* settings of an execution snapshot with the permission narrowed by the   *)
(* live one.                                                               *)
(***************************************************************************)
narrowPermission_frozen(snapshot, live) == snapshot
narrowPermission(snapshot, live) == IF live < snapshot THEN live ELSE snapshot

settings ==
  IF start.snapshot
  THEN [start.captured EXCEPT
          !.permissionLevel = narrowPermission(@, project.permissionLevel)]
  ELSE project

opts ==
  [skipPlanning         |-> start.skipPlanning,
   createPullRequest    |-> ~start.planOnly,
   permissionLevel      |-> settings.permissionLevel,
   uiQaEnabled          |-> settings.uiQaEnabled,
   documentationEnabled |-> settings.documentationEnabled,
   maxReviewCycles      |-> settings.maxReviewCycles,
   maxAttempts          |-> settings.maxAttempts]

decision ==
  guardDecision(decideEngineeringStep(run_.status, run_.st, opts, run_.rows),
                run_.st, opts, run_.rows, MaxStepExecutions)

Active == run_.status \in {"PENDING", "RUNNING"}
repo == provider # "NONE"
workspace == run_.st.worktree \/ task.worktree

\* TaskTransitions.to: the shortest legal walk, which must exist. (The pairs
\* that have one, as a constant so that TLC computes them once.)
routes == {pair \in TaskStatus \X TaskStatus :
             path(taskTransitions, pair[1], pair[2]) # <<>>}
reaches(from, to) == <<from, to>> \in routes

-----------------------------------------------------------------------------
Init ==
  /\ project \in Projects
  /\ provider \in Providers
  /\ \E s \in Starts :
       start = [skipPlanning |-> s.skipPlanning, planOnly |-> s.planOnly,
                snapshot |-> s.snapshot, captured |-> project]
  /\ run_ = [status |-> "PENDING", st |-> createInitialWorkflowState,
             rows |-> <<>>]
  /\ \* A manual retry queues the task first; any other run starts from backlog.
     \E l \in Leftovers :
       /\ l.worktree => provider # "NONE"
       /\ task = [status |-> IF start.skipPlanning THEN "QUEUED" ELSE "BACKLOG",
                  worktree |-> l.worktree]
       /\ evidence = [latestTest |-> l.latestTest, blocking |-> l.blocking,
                      pr |-> l.pr, clean |-> l.clean,
                      tested |-> FALSE, approved |-> FALSE, approval |-> FALSE]
  /\ edits = 0 /\ adHoc = 0

\* What the outside world may answer, within the bound on failures.
failures ==
  executions(run_.rows)
    - Cardinality({i \in DOMAIN run_.rows :
                     run_.rows[i].status \in {"SUCCEEDED", "SKIPPED"}})

answers(key) ==
  {a \in Answers(key) : a \in {"failed", "blocked"} => failures < MaxFailures}

(***************************************************************************)
(* executeStep, without the leases: the task enters the step's status, the *)
(* handler answers, and row and state are persisted together. `ev` is what *)
(* the handler left behind and `to` where it took the task.                *)
(***************************************************************************)
execute(key, answer, ev, to) ==
  LET reuse   == reusableRow(run_.rows, key)
      outcome == STEP_HANDLERS(key, run_.st, repo, workspace, answer)
      claimed == claimRow(run_.rows, key, reuse)
      entry   == getStep(key).entryStatus
      entered == IF entry = "none" THEN task.status ELSE entry
  IN  /\ reaches(task.status, entered)
      /\ reaches(entered, IF to = "none" THEN entered ELSE to)
      /\ run_' = [status |-> "RUNNING", st |-> outcome.st,
                  rows |-> settleRow(claimed, claimedIndex(run_.rows, reuse),
                                     outcome.status)]
      /\ task' = [task EXCEPT
                    !.status = IF to = "none" THEN entered ELSE to,
                    !.worktree = @ \/ (/\ repo
                                       /\ key \in {"ANALYZE_REPOSITORY",
                                                   "CREATE_WORKTREE"})]
      /\ evidence' = ev
      /\ UNCHANGED <<project, start, provider, edits, adHoc>>

\* An agent that can write to the worktree may leave edits nobody verified.
touched(ev, edit) ==
  IF edit THEN [ev EXCEPT !.clean = FALSE, !.tested = FALSE, !.approved = FALSE]
  ELSE ev

AnalyzeRepository ==
  \E a \in answers("ANALYZE_REPOSITORY"), edit \in BOOLEAN :
    /\ edit => repo
    /\ execute("ANALYZE_REPOSITORY", a, touched(evidence, edit), "none")

Plan ==
  \E a \in answers("PLAN"), edit \in BOOLEAN :
    /\ edit => workspace
    /\ execute("PLAN", a, touched(evidence, edit), "none")

CreateTasks ==
  \E a \in answers("CREATE_TASKS") :
    execute("CREATE_TASKS", a, evidence, "none")

CreateWorktree ==
  \E a \in answers("CREATE_WORKTREE") :
    execute("CREATE_WORKTREE", a, evidence, "none")

(***************************************************************************)
(* IMPLEMENT and FIX. attemptCount grows before the agent starts. After a  *)
(* success the worktree is committed; a commit that fails is swallowed, so *)
(* the edits may stay uncommitted. A blocked implementer blocks the task.  *)
(***************************************************************************)
Implement(key) ==
  \E a \in answers(key), edit \in BOOLEAN, committed \in BOOLEAN :
    /\ edit => workspace
    /\ committed => a = "ok" /\ workspace
    /\ LET edited == touched(evidence, edit)
       IN  execute(key, a,
                   IF committed THEN [edited EXCEPT !.clean = TRUE] ELSE edited,
                   IF a = "blocked" /\ workspace THEN "BLOCKED" ELSE "none")

\* RUN_TESTS and RETEST: a TestRun row is created first, so a runner that
\* dies leaves the newest row without a verdict.
RunChecks(key) ==
  \E a \in answers(key) :
    execute(key, a,
            [evidence EXCEPT
               !.latestTest = CASE a = "passed"  -> "passed"
                                [] a = "failing" -> "failed"
                                [] OTHER         -> "unfinished",
               !.tested = IF a = "failed" THEN @ ELSE a = "passed"],
            "none")

UiQa ==
  \E a \in answers("UI_QA"), edit \in BOOLEAN :
    /\ edit => workspace /\ a # "empty"
    /\ execute("UI_QA", a,
               [touched(evidence, edit) EXCEPT
                  !.blocking = @ \/ (a = "blocking" /\ workspace)],
               "none")

\* REVIEW and FINAL_REVIEW. The diff is captured before the reviewer starts;
\* an approval resolves every open finding of the task.
Review(key) ==
  \E a \in answers(key), edit \in BOOLEAN :
    /\ edit => workspace
    /\ LET seen == IF workspace /\ a # "failed"
                   THEN [evidence EXCEPT
                           !.approved = (a = "approved"),
                           !.blocking = CASE a = "approved" -> FALSE
                                          [] a = "blocking" -> TRUE
                                          [] OTHER          -> @]
                   ELSE evidence
       IN  execute(key, a, touched(seen, edit), "none")

Document ==
  \E a \in answers("DOCUMENT"), edit \in BOOLEAN :
    /\ edit => workspace
    /\ execute("DOCUMENT", a, touched(evidence, edit), "none")

\* A failed delivery leaves the task in PR_READY; only a repository with a
\* branch has a pull request to open.
PreparePullRequest ==
  \E a \in answers("PREPARE_PR") :
    /\ (a = "empty") = ~(repo /\ task.worktree)
    /\ execute("PREPARE_PR", a,
               [evidence EXCEPT !.pr = @ \/ a = "ok"],
               IF a = "ok" THEN "PR_CREATED" ELSE "none")

(***************************************************************************)
(* COMPLETE re-derives the definition of done from the database and from   *)
(* the worktree. acceptanceCriteriaRecorded is advisory and left out.      *)
(***************************************************************************)
gatesMet_uncommitted ==
  /\ evidence.latestTest = "passed"
  /\ run_.st.reviewApproved
  /\ ~evidence.blocking
  /\ provider = "GITHUB" => evidence.pr

gatesMet ==
  /\ evidence.latestTest = "passed"
  /\ run_.st.reviewApproved
  /\ ~evidence.blocking
  /\ workspace => evidence.clean
  /\ provider = "GITHUB" => evidence.pr

Complete ==
  execute("COMPLETE", IF gatesMet THEN "ok" ELSE "failed", evidence, "none")

-----------------------------------------------------------------------------
(***************************************************************************)
(* advance() when the decision is not a step: finishWorkflow closes the    *)
(* run and walks the task there in one transaction.                        *)
(***************************************************************************)
finish(status, target, ev) ==
  /\ reaches(task.status, target)
  /\ run_' = [run_ EXCEPT !.status = status]
  /\ task' = [task EXCEPT !.status = target]
  /\ evidence' = ev
  /\ UNCHANGED <<project, start, provider, edits, adHoc>>

FinishComplete == finish("SUCCEEDED", "COMPLETED", evidence)
FinishFail     == finish("FAILED", "FAILED", evidence)
\* Parking also leaves a pending Approval row for the inbox.
WaitForHuman   == finish("WAITING_FOR_HUMAN",
                         "NEEDS_HUMAN_REVIEW", [evidence EXCEPT !.approval = TRUE])

\* A project administrator edits the project while the run is alive. (Its
\* settings column, and so UI QA and documentation, no request can change.)
EditProject ==
  /\ Active
  /\ edits < MaxEdits
  /\ edits' = edits + 1
  /\ \E p \in Projects \ {project} :
       /\ project' = p
       /\ \A f \in {"uiQaEnabled", "documentationEnabled", "maxAttempts"} :
            p[f] = project[f]
  /\ UNCHANGED <<run_, task, start, provider, evidence, adHoc>>

\* A test run requested through the API, beside the workflow, on the same
\* worktree: it becomes the newest TestRun of the task.
AdHocTests ==
  /\ Active
  /\ adHoc < MaxAdHocTests
  /\ adHoc' = adHoc + 1
  /\ \E r \in {"passed", "failed", "unfinished"} :
       evidence' = [evidence EXCEPT !.latestTest = r]
  /\ UNCHANGED <<run_, task, project, start, provider, edits>>

\* advance(): read, route, and do what the router says.
Advance ==
  /\ Active
  /\ \E d \in {decision} :
       \/ d = run("ANALYZE_REPOSITORY") /\ AnalyzeRepository
       \/ d = run("PLAN")               /\ Plan
       \/ d = run("CREATE_TASKS")       /\ CreateTasks
       \/ d = run("CREATE_WORKTREE")    /\ CreateWorktree
       \/ \E k \in {"IMPLEMENT", "FIX"}       : d = run(k) /\ Implement(k)
       \/ \E k \in {"RUN_TESTS", "RETEST"}    : d = run(k) /\ RunChecks(k)
       \/ d = run("UI_QA")              /\ UiQa
       \/ \E k \in {"REVIEW", "FINAL_REVIEW"} : d = run(k) /\ Review(k)
       \/ d = run("DOCUMENT")           /\ Document
       \/ d = run("PREPARE_PR")         /\ PreparePullRequest
       \/ d = run("COMPLETE")           /\ Complete
       \/ d = verdict("COMPLETE")       /\ FinishComplete
       \/ d = verdict("FAIL")           /\ FinishFail
       \/ d = verdict("WAIT_FOR_HUMAN") /\ WaitForHuman

\* A finished run is not advanced again.
Ended == ~Active /\ UNCHANGED vars

Next == Advance \/ EditProject \/ AdHocTests \/ Ended

\* Every advance that may continue enqueues the next one, so while nothing
\* crashes the queue keeps calling advance() until the run has ended.
Spec == Init /\ [][Next]_vars /\ WF_vars(Advance)

-----------------------------------------------------------------------------
RunStatus == {"PENDING", "RUNNING", "WAITING_FOR_HUMAN", "SUCCEEDED", "FAILED",
              "CANCELLED", "SKIPPED"}

\* The variables hold what their tables and columns can hold.
TypeOK ==
  /\ run_.status \in RunStatus
  /\ \A i \in DOMAIN run_.rows :
       /\ run_.rows[i].stepKey \in StepKey
       /\ run_.rows[i].status \in RunStatus
       /\ run_.rows[i].attempt \in 1..getStep(run_.rows[i].stepKey).maxAttempts
  /\ run_.st.reviewCycle \in Nat /\ run_.st.attempt \in Nat
  /\ task.status \in TaskStatus /\ task.worktree \in BOOLEAN
  /\ project \in Projects
  /\ evidence.latestTest \in {"none", "passed", "failed", "unfinished"}
  /\ edits \in 0..MaxEdits /\ adHoc \in 0..MaxAdHocTests

(***************************************************************************)
(* Delivered work is verified work: when a run has SUCCEEDED, the code now *)
(* in the worktree is committed, is the code the checks passed on and the  *)
(* reviewer approved, no blocking finding is open, and a GitHub repository *)
(* has its pull request. Holds whatever the agents edited on the way,      *)
(* reviewers and documenters included, and whatever failed in between.     *)
(***************************************************************************)
DeliveredWorkIsVerified ==
  run_.status = "SUCCEEDED" =>
    /\ evidence.clean /\ evidence.tested /\ evidence.approved
    /\ ~evidence.blocking
    /\ provider = "GITHUB" => evidence.pr

(***************************************************************************)
(* The reviewer is never shown code that the checks have not passed on:    *)
(* each review starts with the verdict of the checks newer than the last   *)
(* implementation or fix. (Edits an agent leaves behind while reviewing or *)
(* doing UI QA are caught later, by the clean-worktree gate of COMPLETE.)  *)
(***************************************************************************)
ReviewFollowsPassingChecks ==
  run_'.st.reviewCycle > run_.st.reviewCycle /\ adHoc = 0 =>
    evidence.latestTest = "passed"

(***************************************************************************)
(* Permission is a live bound: no step implements, fixes or provisions for *)
(* implementation unless the project NOW allows LEVEL_2_CODE, and no pull  *)
(* request is opened unless it NOW allows LEVEL_3_PR, even when the run    *)
(* was started from a snapshot captured under a wider permission.          *)
(***************************************************************************)
WriteNeedsLivePermission ==
  /\ run_'.st.attempt > run_.st.attempt => project.permissionLevel >= 2
  /\ evidence'.pr /\ ~evidence.pr       => project.permissionLevel >= 3

(***************************************************************************)
(* Repairs are bounded by the settings the run is held to: a second        *)
(* implementation happens only while attempts and review cycles are left.  *)
(***************************************************************************)
RepairIsBounded ==
  run_'.st.attempt > run_.st.attempt /\ run_.st.attempt > 0 =>
    /\ run_.st.attempt < settings.maxAttempts
    /\ run_.st.reviewCycle < settings.maxReviewCycles

(***************************************************************************)
(* An optional step (UI QA, documentation, pull request) never fails a     *)
(* run: a FAILED run has a mandatory step that used its last attempt.      *)
(***************************************************************************)
OnlyMandatoryStepsFailRuns ==
  run_.status = "FAILED" =>
    \E i \in DOMAIN run_.rows :
      LET row == run_.rows[i]
      IN  /\ row.status = "FAILED"
          /\ row.stepKey \in StepKey \ {"UI_QA", "DOCUMENT", "PREPARE_PR"}
          /\ row.attempt = getStep(row.stepKey).maxAttempts

\* No run executes more steps than MAX_STEP_EXECUTIONS, retries included.
ExecutionsAreBounded == executions(run_.rows) <= MaxStepExecutions

(***************************************************************************)
(* Every run ends: it succeeds, fails or is parked for a person, however   *)
(* agents, checks and reviewers answer.                                    *)
(***************************************************************************)
Termination == <>(~Active)
=============================================================================
