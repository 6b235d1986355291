----------------------------- MODULE LoopProofs -----------------------------
(***************************************************************************)
(* How a run may end and what its steps may do, for every project, every   *)
(* way to start a run, everything an earlier run may have left behind, and *)
(* any number of edits, failures and test runs beside the workflow.        *)
(***************************************************************************)
EXTENDS MCWorkflowLoop, WellFoundedInduction, TLAPS

Done == completedSteps(run_.rows)

Row == [stepKey : StepKey, status : {"SUCCEEDED", "SKIPPED", "FAILED", "PENDING"},
        attempt : Nat]
State == [testsPassed : BOOLEAN, verificationPending : BOOLEAN, reviewApproved : BOOLEAN,
          hasBlockingFindings : BOOLEAN, reviewCycle : Nat, attempt : Nat,
          worktree : BOOLEAN, cancelled : BOOLEAN]
Evidence == [latestTest : {"none", "passed", "failed", "unfinished"}, blocking : BOOLEAN,
             pr : BOOLEAN, clean : BOOLEAN, tested : BOOLEAN, approved : BOOLEAN,
             approval : BOOLEAN]

LoopTypes ==
  /\ run_ \in [status : RunStatus, st : State, rows : Seq(Row)]
  /\ task \in [status : TaskStatus, worktree : BOOLEAN]
  /\ project \in Projects
  /\ start \in [skipPlanning : BOOLEAN, planOnly : BOOLEAN, snapshot : BOOLEAN,
                captured : Projects]
  /\ evidence \in Evidence
  /\ edits \in 0..MaxEdits /\ adHoc \in 0..MaxAdHocTests

\* A row that failed for good has used its attempts, one that may be run
\* again has not.
RowOK(row) ==
  /\ row.attempt \in 1..getStep(row.stepKey).maxAttempts
  /\ row.status = "FAILED" => row.attempt = getStep(row.stepKey).maxAttempts
  /\ row.status = "PENDING" => row.attempt < getStep(row.stepKey).maxAttempts

RowsOK(rows) == \A i \in DOMAIN rows : RowOK(rows[i])

\* What the state says goes back to steps that were done.
StateInv ==
  /\ run_.st.verificationPending => ~run_.st.testsPassed
  /\ run_.st.testsPassed => "RUN_TESTS" \in Done
  /\ run_.st.attempt > 0 => "IMPLEMENT" \in Done
  /\ run_.st.reviewApproved => workspace

\* The verdicts of the state are about the committed code.
EvidenceInv ==
  /\ evidence.clean /\ run_.st.testsPassed => evidence.tested
  /\ evidence.clean /\ run_.st.reviewApproved => evidence.approved
  /\ adHoc = 0 /\ run_.st.testsPassed => evidence.latestTest = "passed"

Verified ==
  /\ evidence.clean /\ evidence.tested /\ evidence.approved /\ ~evidence.blocking
  /\ provider = "GITHUB" => evidence.pr

\* The router has nothing left to run but COMPLETE.
Ready ==
  /\ {"ANALYZE_REPOSITORY", "CREATE_WORKTREE", "IMPLEMENT", "RUN_TESTS"} \subseteq Done
  /\ opts.skipPlanning \/ {"PLAN", "CREATE_TASKS"} \subseteq Done
  /\ ~needsUiQa(run_.st, opts, run_.rows)
  /\ ~needsRepair(run_.st) /\ run_.st.reviewApproved
  /\ opts.documentationEnabled => "DOCUMENT" \in Done \cup failedSteps(run_.rows)
  /\ opts.createPullRequest => "PREPARE_PR" \in Done \cup failedSteps(run_.rows)

Sealed == "COMPLETE" \in Done => Verified /\ Ready

LoopInv == /\ LoopTypes /\ RowsOK(run_.rows) /\ StateInv /\ EvidenceInv /\ Sealed
           /\ DeliveredWorkIsVerified /\ OnlyMandatoryStepsFailRuns

StepOK == ReviewFollowsPassingChecks /\ RepairIsBounded /\ WriteNeedsLivePermission

-----------------------------------------------------------------------------
(* The tables. *)

LEMMA Keys ==
  StepKey = {"ANALYZE_REPOSITORY", "PLAN", "CREATE_TASKS", "CREATE_WORKTREE", "IMPLEMENT",
             "RUN_TESTS", "UI_QA", "REVIEW", "FIX", "RETEST", "FINAL_REVIEW", "DOCUMENT",
             "PREPARE_PR", "COMPLETE"}
BY DEF StepKey, ENGINEERING_TASK_STEPS

LEMMA Statuses ==
  TaskStatus = {"BACKLOG", "PLANNING", "PLAN_READY", "QUEUED", "IMPLEMENTING",
                "IMPLEMENTATION_READY", "TESTING", "TEST_FAILED", "REVIEWING",
                "CHANGES_REQUESTED", "FIXING", "APPROVED", "PR_READY", "PR_CREATED",
                "MERGED", "COMPLETED", "BLOCKED", "FAILED", "CANCELLED",
                "NEEDS_HUMAN_REVIEW"}
BY DEF TaskStatus, taskTransitions

LEMMA Steps ==
  ASSUME NEW key \in StepKey
  PROVE  /\ getStep(key).maxAttempts \in 1..3
         /\ getStep(key).entryStatus \in TaskStatus \cup {"none"}
         /\ getStep(key).optional <=> key \in {"UI_QA", "DOCUMENT", "PREPARE_PR"}
<1>1. /\ key \in {"ANALYZE_REPOSITORY", "PLAN", "CREATE_TASKS", "CREATE_WORKTREE", "IMPLEMENT",
                  "RUN_TESTS", "UI_QA", "REVIEW", "FIX", "RETEST", "FINAL_REVIEW", "DOCUMENT",
                  "PREPARE_PR", "COMPLETE"}
  BY Keys
<1> QED BY <1>1, Statuses DEF getStep, ENGINEERING_TASK_STEPS, stepDefinition

LEMMA Least ==
  ASSUME NEW S \in SUBSET Nat, S # {}
  PROVE  \E m \in S : \A n \in S : m <= n
<1> DEFINE R == {ss \in Nat \X Nat : ss[1] < ss[2]}
<1>1. IsWellFoundedOn(R, Nat)
  BY NatLessThanWellFounded DEF OpToRel
<1>2. \E m \in S : \A n \in S : ~ (<<n, m>> \in R)
  <2> HIDE DEF R
  <2> QED BY <1>1, WFMin, Zenon
<1>3. PICK m \in S : \A n \in S : ~ (<<n, m>> \in R) BY <1>2
<1>4. ASSUME NEW n \in S PROVE m <= n
  <2>1. n \in Nat /\ m \in Nat OBVIOUS
  <2>2. <<n, m>> \notin R BY <1>3
  <2>3. <<n, m>>[1] = n /\ <<n, m>>[2] = m OBVIOUS
  <2>4. <<n, m>> \in Nat \X Nat BY <2>1
  <2>5. ~(n < m) BY <2>2, <2>3, <2>4
  <2> QED BY <2>1, <2>5
<1> QED BY <1>4

LEMMA FirstIndex ==
  ASSUME NEW S \in SUBSET Nat
  PROVE  IF S = {} THEN firstIndex(S) = 0 ELSE firstIndex(S) \in S
BY Least DEF firstIndex

-----------------------------------------------------------------------------
(* The rows after a step. *)

RowsAfter(rows, key, status) ==
  LET reuse == reusableRow(rows, key)
  IN settleRow(claimRow(rows, key, reuse), claimedIndex(rows, reuse), status)

\* Only the claimed row changes, it is the step's, and it stays in bounds.
LEMMA RowsKept ==
  ASSUME NEW rows \in Seq(Row), RowsOK(rows), NEW key \in StepKey,
         key \in CYCLE_STEPS \/ key \notin completedSteps(rows),
         key \notin failedSteps(rows),
         NEW status \in {"SUCCEEDED", "SKIPPED", "FAILED"}
  PROVE  /\ RowsAfter(rows, key, status) \in Seq(Row)
         /\ RowsOK(RowsAfter(rows, key, status))
         /\ completedSteps(RowsAfter(rows, key, status)) =
              completedSteps(rows)
                \cup (IF status \in {"SUCCEEDED", "SKIPPED"} THEN {key} ELSE {})
         /\ failedSteps(rows) \subseteq failedSteps(RowsAfter(rows, key, status))
<1> DEFINE reuse == reusableRow(rows, key)
           new == RowsAfter(rows, key, status)
           n == Len(rows)
           max == getStep(key).maxAttempts
<1>0. rows \in [1..n -> Row] /\ n \in Nat /\ DOMAIN rows = 1..n OBVIOUS
<1>1. max \in 1..3 BY Steps
<1>2. CASE reuse = 0
  <2> DEFINE fresh == [stepKey |-> key, status |-> "RUNNING", attempt |-> 1]
             last == [stepKey |-> key, status |-> settledStatus(status, key, 1), attempt |-> 1]
  <2>1. PICK r : r = Append(rows, fresh) OBVIOUS
  <2>2. /\ r[n + 1] = fresh /\ r \in [1..(n + 1) -> Row \cup {fresh}]
        /\ \A i \in 1..n : r[i] = rows[i]
    <3> HIDE DEF fresh
    <3>1. rows \in Seq(Row \cup {fresh}) BY <1>0
    <3>2. r \in Seq(Row \cup {fresh}) /\ Len(r) = n + 1 BY <1>0, <2>1, <3>1
    <3>3. r[n + 1] = fresh /\ \A i \in 1..n : r[i] = rows[i] BY <1>0, <2>1, <3>1
    <3> QED BY <3>2, <3>3
  <2>3. last \in Row /\ RowOK(last)
    BY <1>1 DEF Row, RowOK, settledStatus
  <2>4. /\ last.stepKey = key
        /\ last.status \in {"SUCCEEDED", "SKIPPED"} <=> status \in {"SUCCEEDED", "SKIPPED"}
    BY DEF settledStatus
  <2>5. /\ new \in Seq(Row) /\ DOMAIN new = 1..(n + 1) /\ new[n + 1] = last
        /\ \A i \in 1..n : new[i] = rows[i]
    <3>1. r[n + 1].stepKey = key /\ r[n + 1].attempt = 1 BY <2>2
    <3>2. PICK v : v = settledStatus(status, r[n + 1].stepKey, r[n + 1].attempt) OBVIOUS
    <3>3. v = settledStatus(status, key, 1) BY <3>1, <3>2
    <3>4. new = [r EXCEPT ![n + 1].status = v]
      BY <1>2, <2>1, <3>2 DEF RowsAfter, settleRow, claimRow, claimedIndex
    <3>5. [r[n + 1] EXCEPT !.status = v] = last BY <2>2, <3>3
    <3> HIDE DEF new, last, fresh
    <3>6. new = [r EXCEPT ![n + 1] = last] BY <3>4, <3>5
    <3>7. /\ DOMAIN new = 1..(n + 1) /\ new[n + 1] = last
          /\ \A i \in 1..n : new[i] = rows[i]
      BY <1>0, <2>2, <3>6
    <3>8. new \in [1..(n + 1) -> Row]
      <4>1. \A i \in 1..(n + 1) : new[i] \in Row BY <1>0, <2>3, <3>7
      <4>2. new = [i \in 1..(n + 1) |-> new[i]] BY <1>0, <2>2, <3>6
      <4> QED BY <4>1, <4>2
    <3> QED BY <1>0, <3>7, <3>8
  <2> HIDE DEF last, new
  <2>6. RowsOK(new) BY <1>0, <2>3, <2>5 DEF RowsOK
  <2>7. completedSteps(new) =
          completedSteps(rows) \cup (IF status \in {"SUCCEEDED", "SKIPPED"} THEN {key} ELSE {})
    BY <1>0, <2>4, <2>5 DEF completedSteps
  <2>8. failedSteps(rows) \subseteq failedSteps(new)
    BY <1>0, <2>5 DEF failedSteps, failedRows
  <2> QED BY <2>5, <2>6, <2>7, <2>8 DEF new
<1>3. CASE reuse # 0
  <2>1. /\ reuse \in 1..n /\ rows[reuse].stepKey = key /\ rows[reuse].status # "SUCCEEDED"
        /\ key \notin CYCLE_STEPS
    <3> DEFINE I == {i \in DOMAIN rows : /\ rows[i].stepKey = key
                                         /\ rows[i].status # "SUCCEEDED"}
    <3>1. key \notin CYCLE_STEPS /\ reuse = firstIndex(I) BY <1>3 DEF reusableRow
    <3>2. I \in SUBSET Nat BY <1>0
    <3>3. reuse \in I
      <4> HIDE DEF I, reuse
      <4> QED BY <1>3, <3>1, <3>2, FirstIndex
    <3> HIDE DEF reuse
    <3> QED BY <1>0, <3>1, <3>3
  <2> DEFINE old == rows[reuse]
             last == [stepKey |-> key, attempt |-> old.attempt + 1,
                      status |-> settledStatus(status, key, old.attempt + 1)]
  <2>2. old \in Row /\ RowOK(old) BY <1>0, <2>1 DEF RowsOK
  <2>3. old.status = "PENDING"
    <3>1. old.status # "SKIPPED" BY <1>0, <2>1 DEF completedSteps
    <3>2. old.status # "FAILED"
      <4>1. old.status = "FAILED" => old.attempt >= getStep(old.stepKey).maxAttempts
        BY <1>1, <2>1, <2>2 DEF RowOK
      <4> QED BY <1>0, <2>1, <4>1 DEF failedSteps, failedRows
    <3> QED BY <2>1, <2>2, <3>1, <3>2 DEF Row
  <2>4. old.attempt \in Nat /\ old.attempt + 1 \in 1..max BY <1>1, <2>1, <2>2, <2>3 DEF RowOK
  <2>5. new = [rows EXCEPT ![reuse] = last]
    <3> HIDE DEF reuse
    <3>1. PICK r : r = [rows EXCEPT ![reuse].status = "RUNNING", ![reuse].attempt = @ + 1]
      OBVIOUS
    <3>2. r = [rows EXCEPT ![reuse] = [stepKey |-> key, status |-> "RUNNING",
                                       attempt |-> old.attempt + 1]]
      BY <1>0, <2>1, <2>2, <3>1 DEF Row
    <3>3. PICK v : v = settledStatus(status, r[reuse].stepKey, r[reuse].attempt) OBVIOUS
    <3>4. new = [r EXCEPT ![reuse].status = v]
      BY <1>3, <3>1, <3>3 DEF RowsAfter, settleRow, claimRow, claimedIndex, reuse
    <3>5. r[reuse] = [stepKey |-> key, status |-> "RUNNING", attempt |-> old.attempt + 1]
      BY <1>0, <2>1, <3>2
    <3>6. r[reuse].stepKey = key /\ r[reuse].attempt = old.attempt + 1 BY <3>5
    <3>7. v = settledStatus(status, key, old.attempt + 1) BY <3>3, <3>6
    <3> HIDE DEF new
    <3>8. [r[reuse] EXCEPT !.status = v] = last
      <4> HIDE DEF old
      <4> QED BY <3>5, <3>7
    <3> HIDE DEF last, old
    <3>9. [r EXCEPT ![reuse].status = v] = [r EXCEPT ![reuse] = last] BY <3>8
    <3>10. [r EXCEPT ![reuse] = last] = [rows EXCEPT ![reuse] = last] BY <1>0, <2>1, <3>2
    <3> QED BY <3>4, <3>9, <3>10
  <2>6. last \in Row /\ RowOK(last)
    BY <1>1, <2>4 DEF Row, RowOK, settledStatus
  <2>7. /\ last.stepKey = key
        /\ last.status \in {"SUCCEEDED", "SKIPPED"} <=> status \in {"SUCCEEDED", "SKIPPED"}
    BY DEF settledStatus
  <2> HIDE DEF last, new, reuse, old
  <2>8. /\ new \in [1..n -> Row] /\ DOMAIN new = 1..n /\ new[reuse] = last
        /\ \A i \in 1..n : i # reuse => new[i] = rows[i]
    BY <1>0, <2>1, <2>5, <2>6
  <2>9. new \in Seq(Row) BY <1>0, <2>8
  <2>10. RowsOK(new) BY <1>0, <2>6, <2>8 DEF RowsOK
  <2>11. completedSteps(new) =
           completedSteps(rows) \cup (IF status \in {"SUCCEEDED", "SKIPPED"} THEN {key} ELSE {})
    <3>1. rows[reuse].status = "PENDING" BY <2>3 DEF old
    <3> QED BY <1>0, <2>1, <2>7, <2>8, <3>1 DEF completedSteps
  <2>12. failedSteps(rows) \subseteq failedSteps(new)
    <3>1. rows[reuse].status = "PENDING" BY <2>3 DEF old
    <3> QED BY <1>0, <2>1, <2>8, <3>1 DEF failedSteps, failedRows
  <2> QED BY <2>9, <2>10, <2>11, <2>12 DEF new
<1> QED BY <1>2, <1>3

-----------------------------------------------------------------------------
(* The router. *)

LEMMA Verdicts ==
  /\ \A key : run(key).type = "RUN_STEP" /\ run(key).step = key
  /\ \A kind : verdict(kind).type = kind
BY DEF run, verdict

\* What the run is held to, and that an edit of the project can narrow it.
LEMMA Settings ==
  ASSUME LoopTypes
  PROVE  /\ settings.permissionLevel \in Int /\ project.permissionLevel \in Int
         /\ settings.permissionLevel <= project.permissionLevel
         /\ settings.maxReviewCycles \in Nat /\ settings.maxAttempts \in Nat
         /\ settings.uiQaEnabled \in BOOLEAN /\ settings.documentationEnabled \in BOOLEAN
<1> DEFINE Record == [permissionLevel : PermissionLevel, uiQaEnabled : BOOLEAN,
                      documentationEnabled : BOOLEAN, maxReviewCycles : Nat \ {0},
                      maxAttempts : Nat \ {0}]
<1>1. project \in Record /\ start.captured \in Record
  BY LoopAssumption DEF LoopTypes
<1>2. PICK c : c = start.captured OBVIOUS
<1>3. PICK v : v = narrowPermission(c.permissionLevel, project.permissionLevel) OBVIOUS
<1>4. v \in PermissionLevel /\ v <= project.permissionLevel
  BY <1>1, <1>2, <1>3 DEF narrowPermission, PermissionLevel
<1>5. start.snapshot => settings = [c EXCEPT !.permissionLevel = v]
  BY <1>2, <1>3 DEF settings
<1>6. ~start.snapshot => settings = project BY DEF settings
<1> QED BY <1>1, <1>2, <1>4, <1>5, <1>6 DEF PermissionLevel

\* Why a step is run at all.
LEMMA Routed ==
  ASSUME LoopTypes, NEW key \in StepKey, decision = run(key)
  PROVE  /\ key \in CYCLE_STEPS \/ key \notin Done
         /\ key \notin failedSteps(run_.rows)
         /\ key \in {"IMPLEMENT", "FIX"} => project.permissionLevel >= 2
         /\ key = "FIX" => /\ run_.st.reviewCycle < settings.maxReviewCycles
                           /\ run_.st.attempt < settings.maxAttempts
                           /\ "IMPLEMENT" \in Done
         /\ key = "RUN_TESTS" => "RUN_TESTS" \notin Done
         /\ key = "RETEST" => run_.st.verificationPending /\ "RUN_TESTS" \in Done
         /\ key \in {"REVIEW", "FINAL_REVIEW"} => run_.st.testsPassed
         /\ key = "PREPARE_PR" => project.permissionLevel >= 3
         /\ key = "COMPLETE" => Ready
         /\ Ready => "COMPLETE" \notin Done
<1> DEFINE D == decideEngineeringStep(run_.status, run_.st, opts, run_.rows)
<1>1. D.type = "RUN_STEP" /\ D.step = key
  <2>1. D = run(key)
    <3> HIDE DEF D
    <3>1. decision = D \/ decision = verdict("WAIT_FOR_HUMAN")
      BY DEF decision, guardDecision, D
    <3> QED BY <3>1, Verdicts
  <2> QED BY <2>1, Verdicts
<1>2. mandatoryFailures(run_.rows) = {}
  <2>1. \E kind \in {"WAIT_FOR_HUMAN", "FAIL"} : decideFailure(run_.rows) = verdict(kind)
    BY DEF decideFailure
  <2> QED BY <1>1, <2>1, Verdicts DEF decideEngineeringStep
<1>3. key \in failedSteps(run_.rows) => key \in {"UI_QA", "DOCUMENT", "PREPARE_PR"}
  <2> SUFFICES ASSUME key \in failedSteps(run_.rows)
      PROVE  key \in {"UI_QA", "DOCUMENT", "PREPARE_PR"}
    OBVIOUS
  <2>1. PICK i \in failedRows(run_.rows) : run_.rows[i].stepKey = key BY DEF failedSteps
  <2>2. getStep(run_.rows[i].stepKey).optional BY <1>2 DEF mandatoryFailures
  <2> QED BY <2>1, <2>2, Steps
<1>4. /\ opts.permissionLevel = settings.permissionLevel
      /\ opts.maxReviewCycles = settings.maxReviewCycles
      /\ opts.maxAttempts = settings.maxAttempts
  BY DEF opts
<1> HIDE DEF D
<1>5. PICK o : o = opts OBVIOUS
<1>6. PICK st : st = run_.st OBVIOUS
<1>7. PICK rows : rows = run_.rows OBVIOUS
<1>8. D = decideEngineeringStep(run_.status, st, o, rows) BY <1>5, <1>6, <1>7 DEF D
<1>9. Done = completedSteps(rows) /\ mandatoryFailures(rows) = {} BY <1>2, <1>7 DEF Done
<1>10. key \in CYCLE_STEPS \/ key \notin Done
  <2>1. \/ key \in {"RETEST", "FIX", "FINAL_REVIEW", "REVIEW"} \/ key \notin completedSteps(rows)
    BY <1>1, <1>8, <1>9, Verdicts
    DEF decideEngineeringStep, decideRepair, decideReview, decideDelivery, needsUiQa
  <2> QED BY <1>9, <2>1 DEF CYCLE_STEPS
<1>11. key \notin failedSteps(rows)
  BY <1>1, <1>3, <1>7, <1>8, <1>9, Verdicts
  DEF decideEngineeringStep, decideRepair, decideReview, decideDelivery, needsUiQa
<1>12. key \in {"IMPLEMENT", "FIX"} => permissionAtLeast(o.permissionLevel, 2)
  BY <1>1, <1>8, <1>9, Verdicts
  DEF decideEngineeringStep, decideRepair, decideReview, decideDelivery
<1>13. key = "FIX" => /\ ~(st.reviewCycle >= o.maxReviewCycles)
                     /\ ~(st.attempt >= o.maxAttempts) /\ "IMPLEMENT" \in Done
  BY <1>1, <1>8, <1>9, Verdicts
  DEF decideEngineeringStep, decideRepair, decideReview, decideDelivery
<1>14. /\ key = "RUN_TESTS" => "RUN_TESTS" \notin Done
       /\ key = "RETEST" => st.verificationPending /\ "RUN_TESTS" \in Done
       /\ key \in {"REVIEW", "FINAL_REVIEW"} => st.testsPassed
  BY <1>1, <1>8, <1>9, Verdicts
  DEF decideEngineeringStep, decideRepair, decideReview, decideDelivery, needsRepair
<1>15. key = "PREPARE_PR" => permissionAtLeast(o.permissionLevel, 3)
  BY <1>1, <1>8, <1>9, Verdicts
  DEF decideEngineeringStep, decideRepair, decideReview, decideDelivery
<1>16. key = "COMPLETE" => Ready
  BY <1>1, <1>5, <1>6, <1>7, <1>8, <1>9, Verdicts
  DEF decideEngineeringStep, decideRepair, decideReview, decideDelivery, Ready
<1>17. Ready => "COMPLETE" \notin Done
  BY <1>1, <1>5, <1>6, <1>7, <1>8, <1>9, Verdicts
  DEF decideEngineeringStep, decideRepair, decideReview, decideDelivery, Ready
<1>18. /\ key \in {"IMPLEMENT", "FIX"} => project.permissionLevel >= 2
       /\ key = "PREPARE_PR" => project.permissionLevel >= 3
  BY <1>4, <1>5, <1>12, <1>15, Settings DEF permissionAtLeast
<1>19. LoopTypes => run_.st.reviewCycle \in Nat /\ run_.st.attempt \in Nat
  BY DEF LoopTypes, State
<1>20. key = "FIX" => /\ run_.st.reviewCycle < settings.maxReviewCycles
                     /\ run_.st.attempt < settings.maxAttempts /\ "IMPLEMENT" \in Done
  BY <1>4, <1>5, <1>6, <1>13, <1>19, Settings
<1> QED BY <1>6, <1>7, <1>10, <1>11, <1>14, <1>16, <1>17, <1>18, <1>20

-----------------------------------------------------------------------------
(* The handlers. *)

outcome(key, a) == STEP_HANDLERS(key, run_.st, repo, workspace, a)

QuietSteps == {"ANALYZE_REPOSITORY", "PLAN", "CREATE_TASKS", "CREATE_WORKTREE", "UI_QA",
               "DOCUMENT", "PREPARE_PR", "COMPLETE"}

SameVerdicts(st, old) ==
  /\ st.testsPassed = old.testsPassed /\ st.verificationPending = old.verificationPending
  /\ st.reviewApproved = old.reviewApproved
  /\ st.attempt = old.attempt /\ st.reviewCycle = old.reviewCycle

NewCode(st, old) ==
  /\ ~st.testsPassed /\ st.verificationPending /\ ~st.reviewApproved
  /\ st.attempt = old.attempt + 1 /\ st.reviewCycle = old.reviewCycle

Checked(st, old, passed) ==
  /\ st.testsPassed = passed /\ ~st.verificationPending
  /\ st.reviewApproved = old.reviewApproved
  /\ st.attempt = old.attempt /\ st.reviewCycle = old.reviewCycle

Reviewed(st, old, approved) ==
  /\ st.testsPassed = old.testsPassed /\ st.verificationPending = old.verificationPending
  /\ st.reviewApproved = approved
  /\ st.attempt = old.attempt /\ st.reviewCycle = old.reviewCycle + 1

\* What each kind of step makes of the state.
LEMMA Outcomes ==
  ASSUME LoopTypes, NEW key \in StepKey, NEW a
  PROVE  /\ outcome(key, a).status \in {"SUCCEEDED", "SKIPPED", "FAILED"}
         /\ outcome(key, a).st \in State
         /\ run_.st.worktree => outcome(key, a).st.worktree
         /\ outcome(key, a).status = "FAILED" => outcome(key, a).st = run_.st
         /\ key \in QuietSteps => SameVerdicts(outcome(key, a).st, run_.st)
         /\ key \in {"IMPLEMENT", "FIX"} =>
              IF ~workspace \/ a \in {"failed", "blocked"}
              THEN outcome(key, a) = result("FAILED", run_.st)
              ELSE /\ outcome(key, a).status = "SUCCEEDED"
                   /\ NewCode(outcome(key, a).st, run_.st)
         /\ key \in {"RUN_TESTS", "RETEST"} =>
              IF a = "failed" THEN outcome(key, a) = result("FAILED", run_.st)
              ELSE /\ outcome(key, a).status = "SUCCEEDED"
                   /\ Checked(outcome(key, a).st, run_.st, a = "passed")
         /\ key \in {"REVIEW", "FINAL_REVIEW"} =>
              IF ~workspace \/ a = "failed" THEN outcome(key, a) = result("FAILED", run_.st)
              ELSE /\ outcome(key, a).status = "SUCCEEDED"
                   /\ Reviewed(outcome(key, a).st, run_.st, a = "approved")
<1> DEFINE st == run_.st
           out == outcome(key, a)
<1>0. \A s, x : result(s, x).status = s /\ result(s, x).st = x BY DEF result
<1>1. st \in State BY DEF LoopTypes
<1>2. CASE key \in QuietSteps
  <2>1. \/ out = result("SUCCEEDED", provisioned(st)) \/ out = result("SKIPPED", st)
        \/ out = result("FAILED", st) \/ out = result("SUCCEEDED", st)
        \/ out = result("SUCCEEDED", [st EXCEPT !.hasBlockingFindings = TRUE])
    BY <1>2 DEF QuietSteps, outcome, STEP_HANDLERS, analyzeRepositoryStep, planStep,
       createTasksStep, createWorktreeStep, uiQaStep, documentStep, preparePullRequestStep,
       completeStep
  <2>2. /\ key \notin {"IMPLEMENT", "FIX"} /\ key \notin {"RUN_TESTS", "RETEST"}
        /\ key \notin {"REVIEW", "FINAL_REVIEW"}
    BY <1>2 DEF QuietSteps
  <2> HIDE DEF out
  <2>3. /\ out.status \in {"SUCCEEDED", "SKIPPED", "FAILED"} /\ out.st \in State
        /\ st.worktree => out.st.worktree
        /\ out.status = "FAILED" => out.st = st
        /\ SameVerdicts(out.st, st)
    <3> HIDE DEF st
    <3>1. /\ provisioned(st) \in State /\ provisioned(st).worktree
          /\ SameVerdicts(provisioned(st), st)
      BY <1>1 DEF State, provisioned, SameVerdicts
    <3>2. PICK found : found = [st EXCEPT !.hasBlockingFindings = TRUE] OBVIOUS
    <3>3. found \in State /\ found.worktree = st.worktree /\ SameVerdicts(found, st)
      BY <1>1, <3>2 DEF State, SameVerdicts
    <3>4. SameVerdicts(st, st) BY DEF SameVerdicts
    <3>5. \/ out = result("SUCCEEDED", provisioned(st)) \/ out = result("SKIPPED", st)
          \/ out = result("FAILED", st) \/ out = result("SUCCEEDED", st)
          \/ out = result("SUCCEEDED", found)
      BY <2>1, <3>2
    <3> QED BY <1>1, <1>0, <3>1, <3>3, <3>4, <3>5
  <2> QED BY <2>2, <2>3 DEF out
<1>3. CASE key \in {"IMPLEMENT", "FIX"}
  <2>1. out = runImplementer(st, workspace, a) BY <1>3 DEF outcome, STEP_HANDLERS
  <2>2. key \notin QuietSteps BY <1>3 DEF QuietSteps
  <2> HIDE DEF out
  <2>3. /\ out.status \in {"SUCCEEDED", "SKIPPED", "FAILED"} /\ out.st \in State
        /\ st.worktree => out.st.worktree
        /\ out.status = "FAILED" => out.st = st
        /\ IF ~workspace \/ a \in {"failed", "blocked"} THEN out = result("FAILED", st)
           ELSE out.status = "SUCCEEDED" /\ NewCode(out.st, st)
    <3> HIDE DEF st
    <3>1. PICK new : new = [st EXCEPT !.testsPassed = FALSE, !.verificationPending = TRUE,
                                      !.reviewApproved = FALSE, !.hasBlockingFindings = FALSE,
                                      !.attempt = @ + 1]
      OBVIOUS
    <3>2. new \in State /\ new.worktree = st.worktree /\ NewCode(new, st)
      <4>1. PICK n \in Nat : n = st.attempt + 1 BY <1>1 DEF State
      <4>2. PICK old : old = [st EXCEPT !.testsPassed = FALSE, !.verificationPending = TRUE]
        OBVIOUS
      <4>3. old \in State BY <1>1, <4>2 DEF State
      <4>4. new = [old EXCEPT !.reviewApproved = FALSE, !.hasBlockingFindings = FALSE,
                              !.attempt = n]
        BY <1>1, <3>1, <4>1, <4>2 DEF State
      <4>5. new \in State BY <4>1, <4>3, <4>4 DEF State
      <4>6. new.worktree = st.worktree /\ NewCode(new, st)
        BY <1>1, <3>1 DEF State, NewCode
      <4> QED BY <4>5, <4>6
    <3>3. out = IF ~workspace \/ a \in {"failed", "blocked"} THEN result("FAILED", st)
                ELSE result("SUCCEEDED", new)
      BY <2>1, <3>1 DEF runImplementer
    <3> QED BY <1>0, <1>1, <3>2, <3>3
  <2> QED BY <1>3, <2>2, <2>3 DEF out
<1>4. CASE key \in {"RUN_TESTS", "RETEST"}
  <2>1. out = runChecks(st, a) BY <1>4 DEF outcome, STEP_HANDLERS
  <2>2. key \notin QuietSteps BY <1>4 DEF QuietSteps
  <2> HIDE DEF out
  <2>3. /\ out.status \in {"SUCCEEDED", "SKIPPED", "FAILED"} /\ out.st \in State
        /\ st.worktree => out.st.worktree
        /\ out.status = "FAILED" => out.st = st
        /\ IF a = "failed" THEN out = result("FAILED", st)
           ELSE out.status = "SUCCEEDED" /\ Checked(out.st, st, a = "passed")
    <3> HIDE DEF st
    <3> QED BY <1>1, <2>1 DEF State, result, runChecks, Checked
  <2> QED BY <1>4, <2>2, <2>3 DEF out
<1>5. CASE key \in {"REVIEW", "FINAL_REVIEW"}
  <2>1. out = runReview(st, workspace, a) BY <1>5 DEF outcome, STEP_HANDLERS
  <2>2. key \notin QuietSteps BY <1>5 DEF QuietSteps
  <2> HIDE DEF out
  <2>3. /\ out.status \in {"SUCCEEDED", "SKIPPED", "FAILED"} /\ out.st \in State
        /\ st.worktree => out.st.worktree
        /\ out.status = "FAILED" => out.st = st
        /\ IF ~workspace \/ a = "failed" THEN out = result("FAILED", st)
           ELSE out.status = "SUCCEEDED" /\ Reviewed(out.st, st, a = "approved")
    <3> HIDE DEF st
    <3>1. PICK new : new = [st EXCEPT !.reviewApproved = (a = "approved"),
                                      !.hasBlockingFindings = (a # "approved"),
                                      !.reviewCycle = @ + 1]
      OBVIOUS
    <3>2. new \in State /\ new.worktree = st.worktree
      <4>1. PICK n \in Nat : n = st.reviewCycle + 1 BY <1>1 DEF State
      <4>2. PICK b \in BOOLEAN : b = (a = "approved") OBVIOUS
      <4>3. new = [st EXCEPT !.reviewApproved = b, !.hasBlockingFindings = ~b,
                             !.reviewCycle = n]
        BY <1>1, <3>1, <4>1, <4>2 DEF State
      <4> QED BY <1>1, <4>1, <4>3 DEF State
    <3>3. Reviewed(new, st, a = "approved") BY <1>1, <3>1 DEF State, Reviewed
    <3>4. out = IF ~workspace \/ a = "failed" THEN result("FAILED", st)
                ELSE result("SUCCEEDED", new)
      BY <2>1, <3>1 DEF runReview
    <3> QED BY <1>0, <1>1, <3>2, <3>3, <3>4
  <2> QED BY <1>5, <2>2, <2>3 DEF out
<1> QED BY <1>2, <1>3, <1>4, <1>5, Keys DEF QuietSteps

-----------------------------------------------------------------------------
(* A step that was executed. *)

Executes(key, a, ev) ==
  /\ run_' \in [status : RunStatus, st : State, rows : Seq(Row)]
  /\ run_'.status = "RUNNING" /\ run_'.st = outcome(key, a).st
  /\ RowsOK(run_'.rows)
  /\ Done' = Done \cup (IF outcome(key, a).status = "FAILED" THEN {} ELSE {key})
  /\ failedSteps(run_.rows) \subseteq failedSteps(run_'.rows)
  /\ task' \in [status : TaskStatus, worktree : BOOLEAN]
  /\ workspace => workspace'
  /\ evidence' = ev
  /\ UNCHANGED <<project, start, provider, edits, adHoc>>

LEMMA Executed ==
  ASSUME LoopInv, NEW key \in StepKey, decision = run(key), NEW a, NEW ev,
         NEW to \in {"none", "BLOCKED", "PR_CREATED"}, execute(key, a, ev, to)
  PROVE  Executes(key, a, ev)
<1> DEFINE reuse == reusableRow(run_.rows, key)
           rows2 == RowsAfter(run_.rows, key, outcome(key, a).status)
<1>1. LoopTypes /\ run_.rows \in Seq(Row) /\ RowsOK(run_.rows) BY DEF LoopInv, LoopTypes
<1>2. /\ key \in CYCLE_STEPS \/ key \notin completedSteps(run_.rows)
      /\ key \notin failedSteps(run_.rows)
  BY <1>1, Routed DEF Done
<1>3. /\ outcome(key, a).status \in {"SUCCEEDED", "SKIPPED", "FAILED"}
      /\ outcome(key, a).st \in State
      /\ run_.st.worktree => outcome(key, a).st.worktree
  BY <1>1, Outcomes
<1>4. /\ rows2 \in Seq(Row) /\ RowsOK(rows2)
      /\ completedSteps(rows2) =
           completedSteps(run_.rows)
             \cup (IF outcome(key, a).status \in {"SUCCEEDED", "SKIPPED"} THEN {key} ELSE {})
      /\ failedSteps(run_.rows) \subseteq failedSteps(rows2)
  <2>1. PICK s : s = outcome(key, a).status OBVIOUS
  <2>2. PICK rows : rows = run_.rows OBVIOUS
  <2>3. rows \in Seq(Row) /\ RowsOK(rows) BY <1>1, <2>2
  <2>4. key \in CYCLE_STEPS \/ key \notin completedSteps(rows) BY <1>2, <2>2
  <2>5. key \notin failedSteps(rows) BY <1>2, <2>2
  <2>6. s \in {"SUCCEEDED", "SKIPPED", "FAILED"} BY <1>3, <2>1
  <2>7. /\ RowsAfter(rows, key, s) \in Seq(Row) /\ RowsOK(RowsAfter(rows, key, s))
        /\ completedSteps(RowsAfter(rows, key, s)) =
             completedSteps(rows) \cup (IF s \in {"SUCCEEDED", "SKIPPED"} THEN {key} ELSE {})
        /\ failedSteps(rows) \subseteq failedSteps(RowsAfter(rows, key, s))
    BY ONLY <2>3, <2>4, <2>5, <2>6, key \in StepKey, RowsKept
  <2> QED BY <2>1, <2>2, <2>7
<1>5. run_' = [status |-> "RUNNING", st |-> outcome(key, a).st, rows |-> rows2]
  BY DEF execute, outcome, RowsAfter
<1>6. /\ task.worktree => task'.worktree
      /\ task' \in [status : TaskStatus, worktree : BOOLEAN]
  <2>1. PICK s : s = IF to = "none"
                     THEN IF getStep(key).entryStatus = "none" THEN task.status
                          ELSE getStep(key).entryStatus
                     ELSE to
    OBVIOUS
  <2>2. PICK w : w = (task.worktree \/ (/\ repo
                                       /\ key \in {"ANALYZE_REPOSITORY", "CREATE_WORKTREE"}))
    OBVIOUS
  <2>3. s \in TaskStatus
    BY <1>1, <2>1, Steps, Statuses DEF LoopTypes
  <2>4. task' = [task EXCEPT !.status = s, !.worktree = w]
    BY <2>1, <2>2 DEF execute
  <2>5. w \in BOOLEAN /\ (task.worktree => w) BY <2>2
  <2> QED BY <1>1, <2>3, <2>4, <2>5 DEF LoopTypes
<1>7. evidence' = ev /\ UNCHANGED <<project, start, provider, edits, adHoc>> BY DEF execute
<1> HIDE DEF rows2
<1>8. run_'.status = "RUNNING" /\ run_'.st = outcome(key, a).st /\ run_'.rows = rows2
  BY <1>5
<1>9. run_' \in [status : RunStatus, st : State, rows : Seq(Row)]
  BY <1>3, <1>4, <1>5 DEF RunStatus
<1>10. Done' = Done \cup (IF outcome(key, a).status = "FAILED" THEN {} ELSE {key})
  <2>1. Done' = completedSteps(rows2) BY <1>8 DEF Done
  <2> QED BY <1>3, <1>4, <2>1 DEF Done
<1>11. workspace => workspace' BY <1>3, <1>6, <1>8 DEF workspace
<1> QED BY <1>4, <1>6, <1>7, <1>8, <1>9, <1>10, <1>11 DEF Executes

\* What is left to show of a step.
LEMMA Stepped ==
  ASSUME LoopInv, NEW key \in StepKey, decision = run(key), NEW a, NEW ev \in Evidence,
         Executes(key, a, ev), StateInv', EvidenceInv', key = "COMPLETE" => Sealed'
  PROVE  LoopInv'
<1>1. LoopTypes' BY DEF LoopInv, LoopTypes, Executes
<1>2. RowsOK(run_.rows)' BY DEF Executes
<1>3. Sealed'
  <2>1. "COMPLETE" \notin Done BY Routed DEF LoopInv, Sealed
  <2>2. key # "COMPLETE" => "COMPLETE" \notin Done' BY <2>1 DEF Executes
  <2> QED BY <2>2 DEF Sealed
<1>4. DeliveredWorkIsVerified' /\ OnlyMandatoryStepsFailRuns'
  BY DEF Executes, DeliveredWorkIsVerified, OnlyMandatoryStepsFailRuns
<1> QED BY <1>1, <1>2, <1>3, <1>4 DEF LoopInv

\* A step that changes no verdict.
LEMMA Quiet ==
  ASSUME LoopInv, NEW key \in QuietSteps \ {"COMPLETE"}, decision = run(key), NEW a,
         NEW ev \in Evidence, Executes(key, a, ev), ev.latestTest = evidence.latestTest,
         ev.clean => /\ evidence.clean
                     /\ ev.tested = evidence.tested /\ ev.approved = evidence.approved,
         ev.pr /\ ~evidence.pr => key = "PREPARE_PR"
  PROVE  LoopInv' /\ StepOK
<1>1. key \in StepKey BY Keys DEF QuietSteps
<1>2. LoopTypes /\ StateInv /\ EvidenceInv BY DEF LoopInv
<1>3. /\ run_'.st = outcome(key, a).st /\ SameVerdicts(run_'.st, run_.st)
  BY <1>1, <1>2, Outcomes DEF Executes
<1>4. Done \subseteq Done' /\ (workspace => workspace') BY DEF Executes
<1>5. StateInv' BY <1>2, <1>3, <1>4 DEF StateInv, SameVerdicts
<1>6. evidence' = ev /\ adHoc' = adHoc BY DEF Executes
<1>7. EvidenceInv' BY <1>2, <1>3, <1>6 DEF EvidenceInv, SameVerdicts
<1>8. LoopInv' BY <1>1, <1>5, <1>7, Stepped
<1>9. run_.st.attempt \in Nat /\ run_.st.reviewCycle \in Nat BY <1>2 DEF LoopTypes, State
<1>10. ReviewFollowsPassingChecks /\ RepairIsBounded
  BY <1>3, <1>9 DEF ReviewFollowsPassingChecks, RepairIsBounded, SameVerdicts
<1>11. WriteNeedsLivePermission
  <2>1. ev.pr /\ ~evidence.pr => project.permissionLevel >= 3 BY <1>1, <1>2, Routed
  <2> QED BY <1>3, <1>6, <1>9, <2>1 DEF WriteNeedsLivePermission, SameVerdicts
<1> QED BY <1>8, <1>10, <1>11 DEF StepOK

\* IMPLEMENT and FIX: new code, or a failure that leaves none.
LEMMA ImplementStep ==
  ASSUME LoopInv, NEW key \in {"IMPLEMENT", "FIX"}, decision = run(key), Implement(key)
  PROVE  LoopInv' /\ StepOK
<1>1. LoopTypes /\ StateInv /\ EvidenceInv BY DEF LoopInv
<1>2. key \in StepKey /\ key # "COMPLETE" BY Keys
<1>3. PICK a, edit, committed, ev, to :
        /\ edit \in BOOLEAN /\ committed \in BOOLEAN
        /\ committed => a = "ok" /\ workspace
        /\ ev = IF committed THEN [touched(evidence, edit) EXCEPT !.clean = TRUE]
                ELSE touched(evidence, edit)
        /\ to = IF a = "blocked" /\ workspace THEN "BLOCKED" ELSE "none"
        /\ execute(key, a, ev, to)
  BY DEF Implement
<1>4. /\ ev \in Evidence /\ ev.latestTest = evidence.latestTest /\ ev.pr = evidence.pr
      /\ ~committed /\ ev.clean => evidence.clean /\ ev = evidence
  BY <1>1, <1>3 DEF LoopTypes, Evidence, touched
<1>5. to \in {"none", "BLOCKED", "PR_CREATED"} BY <1>3
<1>6. Executes(key, a, ev) BY <1>2, <1>3, <1>5, Executed
<1>7. /\ run_'.st = outcome(key, a).st /\ evidence' = ev /\ adHoc' = adHoc
      /\ Done \subseteq Done' /\ (workspace => workspace')
  BY <1>6 DEF Executes
<1>8. run_.st.attempt \in Nat /\ run_.st.reviewCycle \in Nat BY <1>1 DEF LoopTypes, State
<1>9. /\ project.permissionLevel >= 2
      /\ key = "FIX" => /\ run_.st.reviewCycle < settings.maxReviewCycles
                        /\ run_.st.attempt < settings.maxAttempts
      /\ key = "FIX" => "IMPLEMENT" \in Done
      /\ key = "IMPLEMENT" => "IMPLEMENT" \notin Done
  BY <1>1, <1>2, Routed DEF CYCLE_STEPS
<1>10. CASE ~workspace \/ a \in {"failed", "blocked"}
  <2>1. run_'.st = run_.st
    BY <1>1, <1>2, <1>7, <1>10, Outcomes DEF result
  <2>2. ~committed BY <1>3, <1>10
  <2>3. StateInv' BY <1>1, <1>7, <2>1 DEF StateInv
  <2>4. EvidenceInv' BY <1>1, <1>4, <1>7, <2>1, <2>2 DEF EvidenceInv
  <2>5. LoopInv' BY <1>2, <1>4, <1>6, <2>3, <2>4, Stepped
  <2>6. StepOK
    BY <1>4, <1>7, <1>8, <2>1
    DEF StepOK, ReviewFollowsPassingChecks, RepairIsBounded, WriteNeedsLivePermission
  <2> QED BY <2>5, <2>6
<1>11. CASE ~(~workspace \/ a \in {"failed", "blocked"})
  <2>1. NewCode(run_'.st, run_.st) /\ outcome(key, a).status = "SUCCEEDED"
    BY <1>1, <1>2, <1>7, <1>11, Outcomes
  <2>2. "IMPLEMENT" \in Done' BY <1>6, <1>7, <1>9, <2>1 DEF Executes
  <2>3. StateInv' BY <2>1, <2>2 DEF StateInv, NewCode
  <2>4. EvidenceInv' BY <2>1 DEF EvidenceInv, NewCode
  <2>5. LoopInv' BY <1>2, <1>4, <1>6, <2>3, <2>4, Stepped
  <2>6. run_.st.attempt > 0 => key = "FIX" BY <1>1, <1>9 DEF StateInv
  <2>7. StepOK
    BY <1>4, <1>7, <1>8, <1>9, <2>1, <2>6
    DEF StepOK, ReviewFollowsPassingChecks, RepairIsBounded, WriteNeedsLivePermission, NewCode
  <2> QED BY <2>5, <2>7
<1> QED BY <1>10, <1>11

\* RUN_TESTS and RETEST: the verdict is that of the newest test run.
LEMMA ChecksStep ==
  ASSUME LoopInv, NEW key \in {"RUN_TESTS", "RETEST"}, decision = run(key), RunChecks(key)
  PROVE  LoopInv' /\ StepOK
<1>1. LoopTypes /\ StateInv /\ EvidenceInv BY DEF LoopInv
<1>2. key \in StepKey /\ key # "COMPLETE" BY Keys
<1>3. PICK a, ev :
        /\ ev = [evidence EXCEPT !.latestTest = CASE a = "passed"  -> "passed"
                                                  [] a = "failing" -> "failed"
                                                  [] OTHER         -> "unfinished",
                                 !.tested = IF a = "failed" THEN @ ELSE a = "passed"]
        /\ execute(key, a, ev, "none")
  BY DEF RunChecks
<1>4. /\ ev \in Evidence /\ ev.clean = evidence.clean /\ ev.pr = evidence.pr
      /\ ev.approved = evidence.approved
      /\ a = "passed" => ev.latestTest = "passed" /\ ev.tested
  BY <1>1, <1>3 DEF LoopTypes, Evidence
<1>5. Executes(key, a, ev) BY <1>2, <1>3, Executed
<1>6. /\ run_'.st = outcome(key, a).st /\ evidence' = ev /\ adHoc' = adHoc
      /\ Done \subseteq Done' /\ (workspace => workspace')
  BY <1>5 DEF Executes
<1>7. run_.st.attempt \in Nat /\ run_.st.reviewCycle \in Nat BY <1>1 DEF LoopTypes, State
<1>8. ~run_.st.testsPassed
  <2>1. /\ key = "RUN_TESTS" => "RUN_TESTS" \notin Done
        /\ key = "RETEST" => run_.st.verificationPending
    BY <1>1, <1>2, Routed
  <2> QED BY <1>1, <2>1 DEF StateInv
<1>9. \/ a = "failed" /\ run_'.st = run_.st
      \/ /\ Checked(run_'.st, run_.st, a = "passed")
         /\ "RUN_TESTS" \in Done'
  <2>1. CASE a = "failed" BY <1>1, <1>2, <1>6, <2>1, Outcomes DEF result
  <2>2. CASE a # "failed"
    <3>1. Checked(run_'.st, run_.st, a = "passed") /\ outcome(key, a).status = "SUCCEEDED"
      BY <1>1, <1>2, <1>6, <2>2, Outcomes
    <3>2. "RUN_TESTS" \in Done'
      <4>1. key = "RETEST" => "RUN_TESTS" \in Done BY <1>1, <1>2, Routed
      <4> QED BY <1>5, <1>6, <3>1, <4>1 DEF Executes
    <3> QED BY <3>1, <3>2
  <2> QED BY <2>1, <2>2
<1>10. StateInv' BY <1>1, <1>6, <1>9 DEF StateInv, Checked
<1>11. EvidenceInv' BY <1>1, <1>4, <1>6, <1>8, <1>9 DEF EvidenceInv, Checked
<1>12. LoopInv' BY <1>2, <1>4, <1>5, <1>10, <1>11, Stepped
<1>13. StepOK
  BY <1>4, <1>6, <1>7, <1>9
  DEF StepOK, ReviewFollowsPassingChecks, RepairIsBounded, WriteNeedsLivePermission, Checked
<1> QED BY <1>12, <1>13

\* REVIEW and FINAL_REVIEW: an approval is of the code in the worktree.
LEMMA ReviewStep ==
  ASSUME LoopInv, NEW key \in {"REVIEW", "FINAL_REVIEW"}, decision = run(key), Review(key)
  PROVE  LoopInv' /\ StepOK
<1>1. LoopTypes /\ StateInv /\ EvidenceInv BY DEF LoopInv
<1>2. key \in StepKey /\ key # "COMPLETE" BY Keys
<1> DEFINE shown(x) == IF workspace /\ x # "failed"
                       THEN [evidence EXCEPT !.approved = (x = "approved"),
                                             !.blocking = CASE x = "approved" -> FALSE
                                                            [] x = "blocking" -> TRUE
                                                            [] OTHER          -> @]
                       ELSE evidence
<1>3. PICK a, edit, seen, ev : /\ edit \in BOOLEAN /\ seen = shown(a)
                               /\ ev = touched(seen, edit) /\ execute(key, a, ev, "none")
  <2>1. \E a, edit : edit \in BOOLEAN /\ execute(key, a, touched(shown(a), edit), "none")
    BY Zenon DEF Review
  <2> HIDE DEF shown
  <2> QED BY <2>1
<1>4. /\ seen \in Evidence /\ seen.latestTest = evidence.latestTest
      /\ seen.pr = evidence.pr /\ seen.clean = evidence.clean /\ seen.tested = evidence.tested
      /\ seen.approved = IF workspace /\ a # "failed" THEN a = "approved" ELSE evidence.approved
  BY <1>1, <1>3 DEF LoopTypes, Evidence
<1>5. /\ ev \in Evidence /\ ev.latestTest = evidence.latestTest /\ ev.pr = evidence.pr
      /\ ev.clean => ev = seen
  <2>1. CASE edit
    <3>1. ev = [seen EXCEPT !.clean = FALSE, !.tested = FALSE, !.approved = FALSE]
      BY <1>3, <2>1 DEF touched
    <3> QED BY <1>4, <3>1 DEF Evidence
  <2>2. CASE ~edit
    <3>1. ev = seen BY <1>3, <2>2 DEF touched
    <3> QED BY <1>4, <3>1
  <2> QED BY <1>3, <2>1, <2>2
<1>6. Executes(key, a, ev) BY <1>2, <1>3, Executed
<1>7. /\ run_'.st = outcome(key, a).st /\ evidence' = ev /\ adHoc' = adHoc
      /\ Done \subseteq Done' /\ (workspace => workspace')
  BY <1>6 DEF Executes
<1>8. run_.st.attempt \in Nat /\ run_.st.reviewCycle \in Nat BY <1>1 DEF LoopTypes, State
<1>9. run_.st.testsPassed BY <1>1, <1>2, Routed
<1>10. \/ (~workspace \/ a = "failed") /\ run_'.st = run_.st
       \/ workspace /\ a # "failed" /\ Reviewed(run_'.st, run_.st, a = "approved")
  BY <1>1, <1>2, <1>7, Outcomes DEF result
<1>11. StateInv' BY <1>1, <1>7, <1>10 DEF StateInv, Reviewed
<1>12. EvidenceInv' BY <1>1, <1>4, <1>5, <1>7, <1>10 DEF EvidenceInv, Reviewed
<1>13. LoopInv' BY <1>2, <1>5, <1>6, <1>11, <1>12, Stepped
<1>14. adHoc = 0 => evidence.latestTest = "passed" BY <1>1, <1>9 DEF EvidenceInv
<1>15. StepOK
  BY <1>5, <1>7, <1>8, <1>10, <1>14
  DEF StepOK, ReviewFollowsPassingChecks, RepairIsBounded, WriteNeedsLivePermission, Reviewed
<1> QED BY <1>13, <1>15

\* What an agent leaves behind never looks verified.
LEMMA Touched ==
  ASSUME evidence \in Evidence, NEW edit \in BOOLEAN
  PROVE  /\ touched(evidence, edit) \in Evidence
         /\ touched(evidence, edit).latestTest = evidence.latestTest
         /\ touched(evidence, edit).pr = evidence.pr
         /\ touched(evidence, edit).clean => touched(evidence, edit) = evidence
<1>1. PICK ev : ev = [evidence EXCEPT !.clean = FALSE, !.tested = FALSE, !.approved = FALSE]
  OBVIOUS
<1>2. /\ ev \in Evidence /\ ~ev.clean
      /\ ev.latestTest = evidence.latestTest /\ ev.pr = evidence.pr
  BY <1>1 DEF Evidence
<1>3. touched(evidence, edit) = IF edit THEN ev ELSE evidence BY <1>1 DEF touched
<1> QED BY <1>2, <1>3

LEMMA TouchedStep ==
  ASSUME LoopInv, NEW key \in QuietSteps \ {"COMPLETE"}, decision = run(key), NEW a,
         NEW edit \in BOOLEAN, execute(key, a, touched(evidence, edit), "none")
  PROVE  LoopInv' /\ StepOK
<1>1. key \in StepKey BY Keys DEF QuietSteps
<1>2. evidence \in Evidence BY DEF LoopInv, LoopTypes
<1>3. PICK ev : ev = touched(evidence, edit) OBVIOUS
<1>4. /\ ev \in Evidence /\ ev.latestTest = evidence.latestTest /\ ev.pr = evidence.pr
      /\ ev.clean => ev = evidence
  BY <1>2, <1>3, Touched
<1>5. execute(key, a, ev, "none") BY <1>3
<1>6. Executes(key, a, ev) BY <1>1, <1>5, Executed
<1> QED BY <1>4, <1>6, Quiet

LEMMA UiQaStep ==
  ASSUME LoopInv, decision = run("UI_QA"), UiQa
  PROVE  LoopInv' /\ StepOK
<1>1. "UI_QA" \in StepKey /\ "UI_QA" \in QuietSteps \ {"COMPLETE"} BY Keys DEF QuietSteps
<1>2. evidence \in Evidence BY DEF LoopInv, LoopTypes
<1>3. PICK a, edit, seen, ev :
        /\ edit \in BOOLEAN /\ seen = touched(evidence, edit)
        /\ ev = [seen EXCEPT !.blocking = @ \/ (a = "blocking" /\ workspace)]
        /\ execute("UI_QA", a, ev, "none")
  BY DEF UiQa
<1>4. /\ seen \in Evidence /\ seen.latestTest = evidence.latestTest /\ seen.pr = evidence.pr
      /\ seen.clean => seen = evidence
  BY <1>2, <1>3, Touched
<1>5. /\ ev \in Evidence /\ ev.latestTest = seen.latestTest /\ ev.pr = seen.pr
      /\ ev.clean = seen.clean /\ ev.tested = seen.tested /\ ev.approved = seen.approved
  BY <1>3, <1>4 DEF Evidence
<1>6. Executes("UI_QA", a, ev) BY <1>1, <1>3, Executed
<1> QED BY <1>1, <1>4, <1>5, <1>6, Quiet

LEMMA PreparePullRequestStep ==
  ASSUME LoopInv, decision = run("PREPARE_PR"), PreparePullRequest
  PROVE  LoopInv' /\ StepOK
<1>1. "PREPARE_PR" \in StepKey /\ "PREPARE_PR" \in QuietSteps \ {"COMPLETE"}
  BY Keys DEF QuietSteps
<1>2. evidence \in Evidence BY DEF LoopInv, LoopTypes
<1>3. PICK a, ev, to :
        /\ ev = [evidence EXCEPT !.pr = @ \/ a = "ok"]
        /\ to = IF a = "ok" THEN "PR_CREATED" ELSE "none"
        /\ execute("PREPARE_PR", a, ev, to)
  BY DEF PreparePullRequest
<1>4. /\ ev \in Evidence /\ ev.latestTest = evidence.latestTest
      /\ ev.clean = evidence.clean /\ ev.tested = evidence.tested
      /\ ev.approved = evidence.approved
  BY <1>2, <1>3 DEF Evidence
<1>5. to \in {"none", "BLOCKED", "PR_CREATED"} BY <1>3
<1>6. Executes("PREPARE_PR", a, ev) BY <1>1, <1>3, <1>5, Executed
<1> QED BY <1>1, <1>4, <1>6, Quiet

\* COMPLETE succeeds only where the gates hold, and then the work is verified.
LEMMA CompleteStep ==
  ASSUME LoopInv, decision = run("COMPLETE"), Complete
  PROVE  LoopInv' /\ StepOK
<1>1. LoopTypes /\ StateInv /\ EvidenceInv BY DEF LoopInv
<1>2. "COMPLETE" \in StepKey /\ "COMPLETE" \in QuietSteps BY Keys DEF QuietSteps
<1>3. PICK a : /\ a = IF gatesMet THEN "ok" ELSE "failed"
               /\ execute("COMPLETE", a, evidence, "none")
  BY DEF Complete
<1>4. Executes("COMPLETE", a, evidence) BY <1>2, <1>3, Executed
<1>5. /\ run_'.st = outcome("COMPLETE", a).st /\ evidence' = evidence /\ adHoc' = adHoc
      /\ Done \subseteq Done' /\ (workspace => workspace') /\ opts' = opts
      /\ failedSteps(run_.rows) \subseteq failedSteps(run_'.rows) /\ provider' = provider
  BY <1>4 DEF Executes, opts, settings
<1>6. /\ outcome("COMPLETE", a).st = run_.st
      /\ outcome("COMPLETE", a).status = IF a = "failed" THEN "FAILED" ELSE "SUCCEEDED"
  BY DEF outcome, STEP_HANDLERS, completeStep, result
<1>7. StateInv' BY <1>1, <1>5, <1>6 DEF StateInv
<1>8. EvidenceInv' BY <1>1, <1>5, <1>6 DEF EvidenceInv
<1>9. Sealed'
  <2> SUFFICES ASSUME "COMPLETE" \in Done' PROVE Verified' /\ Ready'
    BY DEF Sealed
  <2>1. Ready /\ "COMPLETE" \notin Done BY <1>1, <1>2, Routed
  <2>2. a # "failed"
    BY <1>4, <1>6, <2>1 DEF Executes
  <2>3. gatesMet BY <1>3, <2>2
  <2>4. run_.st.testsPassed /\ run_.st.reviewApproved BY <2>1 DEF Ready, needsRepair
  <2>5. Verified BY <1>1, <2>3, <2>4 DEF gatesMet, Verified, StateInv, EvidenceInv
  <2>6. Verified' BY <1>5, <2>5 DEF Verified
  <2>7. ~needsUiQa(run_'.st, opts', run_'.rows)
    <3>1. ~needsUiQa(run_.st, opts, run_.rows) BY <2>1 DEF Ready
    <3> QED BY <1>5, <1>6, <3>1 DEF needsUiQa, Done
  <2>8. ~needsRepair(run_'.st) BY <1>5, <1>6, <2>1 DEF Ready
  <2>9. Ready' BY <1>5, <1>6, <2>1, <2>7, <2>8 DEF Ready
  <2> QED BY <2>6, <2>9
<1>10. LoopInv'
  <2>1. evidence \in Evidence BY <1>1 DEF LoopTypes
  <2> QED BY <1>2, <1>4, <1>7, <1>8, <1>9, <2>1, Stepped
<1>11. run_.st.attempt \in Nat /\ run_.st.reviewCycle \in Nat BY <1>1 DEF LoopTypes, State
<1>12. StepOK
  BY <1>5, <1>6, <1>11
  DEF StepOK, ReviewFollowsPassingChecks, RepairIsBounded, WriteNeedsLivePermission
<1> QED BY <1>10, <1>12

-----------------------------------------------------------------------------
(* The end of a run, edits and test runs beside it. *)

\* What no action but a step or an end of the run may touch.
LEMMA Beside ==
  ASSUME LoopInv, run_' = run_, task' = task, start' = start, provider' = provider,
         project' \in Projects, edits' \in 0..MaxEdits, adHoc' \in 0..MaxAdHocTests,
         opts'.skipPlanning = opts.skipPlanning,
         opts'.createPullRequest = opts.createPullRequest,
         opts'.uiQaEnabled = opts.uiQaEnabled,
         opts'.documentationEnabled = opts.documentationEnabled,
         evidence' \in Evidence, evidence'.clean = evidence.clean,
         evidence'.tested = evidence.tested, evidence'.approved = evidence.approved,
         evidence'.blocking = evidence.blocking, evidence'.pr = evidence.pr,
         adHoc' = 0 => adHoc = 0 /\ evidence'.latestTest = evidence.latestTest
  PROVE  LoopInv' /\ StepOK
<1>1. LoopTypes' BY DEF LoopInv, LoopTypes
<1>2. RowsOK(run_.rows)' BY DEF LoopInv
<1>3. Done' = Done /\ workspace' = workspace BY DEF Done, workspace
<1>4. StateInv' BY <1>3 DEF LoopInv, StateInv
<1>5. EvidenceInv' BY DEF LoopInv, EvidenceInv
<1>6. Sealed'
  <2>1. Verified => Verified' BY DEF Verified
  <2>2. needsUiQa(run_.st, opts, run_.rows)' <=> needsUiQa(run_.st, opts, run_.rows)
    BY DEF needsUiQa
  <2>3. Ready => Ready' BY <1>3, <2>2 DEF Ready
  <2> QED BY <1>3, <2>1, <2>3 DEF LoopInv, Sealed
<1>7. DeliveredWorkIsVerified' /\ OnlyMandatoryStepsFailRuns'
  BY DEF LoopInv, DeliveredWorkIsVerified, OnlyMandatoryStepsFailRuns
<1>8. run_.st.attempt \in Nat /\ run_.st.reviewCycle \in Nat BY DEF LoopInv, LoopTypes, State
<1>9. StepOK
  BY <1>8 DEF StepOK, ReviewFollowsPassingChecks, RepairIsBounded, WriteNeedsLivePermission
<1> QED BY <1>1, <1>2, <1>4, <1>5, <1>6, <1>7, <1>9 DEF LoopInv

LEMMA EditStep ==
  ASSUME LoopInv, EditProject
  PROVE  LoopInv' /\ StepOK
<1>1. /\ LoopTypes /\ evidence \in Evidence /\ adHoc \in 0..MaxAdHocTests
      /\ edits \in 0..MaxEdits
  BY DEF LoopInv, LoopTypes
<1>2. /\ run_' = run_ /\ task' = task /\ start' = start /\ provider' = provider
      /\ evidence' = evidence /\ adHoc' = adHoc /\ edits' \in 0..MaxEdits
  BY <1>1, LoopAssumption DEF EditProject
<1>3. PICK p \in Projects : /\ project' = p /\ p.uiQaEnabled = project.uiQaEnabled
                            /\ p.documentationEnabled = project.documentationEnabled
  BY DEF EditProject
<1>4. /\ opts'.skipPlanning = opts.skipPlanning
      /\ opts'.createPullRequest = opts.createPullRequest
  BY <1>2 DEF opts
<1>5. /\ settings'.uiQaEnabled = settings.uiQaEnabled
      /\ settings'.documentationEnabled = settings.documentationEnabled
  <2>1. CASE start.snapshot
    <3>1. start.captured \in Projects BY <1>1 DEF LoopTypes
    <3>2. PICK v, w : /\ settings = [start.captured EXCEPT !.permissionLevel = v]
                      /\ settings' = [start.captured EXCEPT !.permissionLevel = w]
      BY <1>2, <2>1 DEF settings
    <3> QED BY <3>1, <3>2, LoopAssumption
  <2>2. CASE ~start.snapshot BY <1>2, <1>3, <2>2 DEF settings
  <2> QED BY <2>1, <2>2
<1>6. /\ opts'.uiQaEnabled = opts.uiQaEnabled
      /\ opts'.documentationEnabled = opts.documentationEnabled
  BY <1>5 DEF opts
<1> QED BY <1>1, <1>2, <1>3, <1>4, <1>6, Beside

LEMMA AdHocStep ==
  ASSUME LoopInv, AdHocTests
  PROVE  LoopInv' /\ StepOK
<1>1. /\ LoopTypes /\ evidence \in Evidence /\ adHoc \in 0..MaxAdHocTests
      /\ edits \in 0..MaxEdits /\ project \in Projects
  BY DEF LoopInv, LoopTypes
<1>2. /\ run_' = run_ /\ task' = task /\ start' = start /\ provider' = provider
      /\ project' = project /\ edits' = edits /\ adHoc' \in 1..MaxAdHocTests
  BY <1>1, LoopAssumption DEF AdHocTests
<1>3. PICK verdict_ \in {"passed", "failed", "unfinished"} :
        evidence' = [evidence EXCEPT !.latestTest = verdict_]
  BY DEF AdHocTests
<1>4. /\ evidence' \in Evidence /\ evidence'.clean = evidence.clean
      /\ evidence'.tested = evidence.tested /\ evidence'.approved = evidence.approved
      /\ evidence'.blocking = evidence.blocking /\ evidence'.pr = evidence.pr
  BY <1>1, <1>3 DEF Evidence
<1>5. opts' = opts BY <1>2 DEF opts, settings
<1>6. adHoc' # 0 BY <1>2
<1> QED BY <1>1, <1>2, <1>4, <1>5, <1>6, Beside

LEMMA Finishes ==
  ASSUME LoopInv, NEW status \in RunStatus, NEW target \in TaskStatus,
         NEW ev \in Evidence, finish(status, target, ev),
         ev.clean = evidence.clean, ev.tested = evidence.tested,
         ev.approved = evidence.approved, ev.blocking = evidence.blocking,
         ev.pr = evidence.pr, ev.latestTest = evidence.latestTest,
         status = "SUCCEEDED" => Verified,
         status = "FAILED" =>
           \E i \in failedRows(run_.rows) : ~getStep(run_.rows[i].stepKey).optional
  PROVE  LoopInv' /\ StepOK
<1>1. LoopTypes /\ RowsOK(run_.rows) /\ evidence \in Evidence BY DEF LoopInv, LoopTypes
<1>2. /\ run_' = [run_ EXCEPT !.status = status] /\ task' = [task EXCEPT !.status = target]
      /\ evidence' = ev /\ UNCHANGED <<project, start, provider, edits, adHoc>>
  BY DEF finish
<1>3. /\ run_'.st = run_.st /\ run_'.rows = run_.rows /\ run_'.status = status
      /\ run_' \in [status : RunStatus, st : State, rows : Seq(Row)]
  BY <1>1, <1>2 DEF LoopTypes
<1>4. /\ ev.clean = evidence.clean /\ ev.tested = evidence.tested
      /\ ev.approved = evidence.approved /\ ev.blocking = evidence.blocking
      /\ ev.pr = evidence.pr /\ ev.latestTest = evidence.latestTest
  OBVIOUS
<1>5. LoopTypes' BY <1>1, <1>2, <1>3 DEF LoopTypes
<1>6. Done' = Done /\ workspace' = workspace /\ opts' = opts
  BY <1>1, <1>2, <1>3 DEF Done, workspace, opts, settings, LoopTypes
<1>7. RowsOK(run_.rows)' BY <1>1, <1>3
<1>8. StateInv' BY <1>3, <1>6 DEF LoopInv, StateInv
<1>9. EvidenceInv' BY <1>2, <1>3, <1>4 DEF LoopInv, EvidenceInv
<1>10. Verified => Verified' BY <1>2, <1>4 DEF Verified
<1>11. Sealed'
  <2>1. Ready => Ready' BY <1>3, <1>6 DEF Ready
  <2> QED BY <1>6, <1>10, <2>1 DEF LoopInv, Sealed
<1>12. DeliveredWorkIsVerified' BY <1>3, <1>10 DEF DeliveredWorkIsVerified, Verified
<1>13. OnlyMandatoryStepsFailRuns'
  <2> SUFFICES ASSUME status = "FAILED"
      PROVE  \E i \in DOMAIN run_.rows :
               /\ run_.rows[i].status = "FAILED"
               /\ run_.rows[i].stepKey \in StepKey \ {"UI_QA", "DOCUMENT", "PREPARE_PR"}
               /\ run_.rows[i].attempt = getStep(run_.rows[i].stepKey).maxAttempts
    BY <1>3 DEF OnlyMandatoryStepsFailRuns
  <2>1. PICK i \in failedRows(run_.rows) : ~getStep(run_.rows[i].stepKey).optional OBVIOUS
  <2>2. i \in DOMAIN run_.rows /\ run_.rows[i].status = "FAILED" BY <2>1 DEF failedRows
  <2>3. run_.rows[i].stepKey \in StepKey
    <3>1. run_.rows \in Seq(Row) BY <1>1 DEF LoopTypes
    <3>2. run_.rows[i] \in Row BY <2>2, <3>1
    <3> QED BY <3>2 DEF Row
  <2>4. run_.rows[i].stepKey \notin {"UI_QA", "DOCUMENT", "PREPARE_PR"} BY <2>1, <2>3, Steps
  <2>5. run_.rows[i].attempt = getStep(run_.rows[i].stepKey).maxAttempts
    BY <1>1, <2>2 DEF RowsOK, RowOK
  <2> QED BY <2>2, <2>3, <2>4, <2>5
<1>14. StepOK
  <2>1. run_.st.attempt \in Nat /\ run_.st.reviewCycle \in Nat BY <1>1 DEF LoopTypes, State
  <2> QED BY <1>2, <1>3, <1>4, <2>1
      DEF StepOK, ReviewFollowsPassingChecks, RepairIsBounded, WriteNeedsLivePermission
<1> QED BY <1>5, <1>7, <1>8, <1>9, <1>11, <1>12, <1>13, <1>14 DEF LoopInv

\* The router closes a run only behind a COMPLETE that was done, and fails one
\* only over a mandatory step.
LEMMA Closings ==
  ASSUME LoopInv, NEW kind \in {"COMPLETE", "FAIL"}, decision = verdict(kind)
  PROVE  /\ kind = "COMPLETE" => "COMPLETE" \in Done
         /\ kind = "FAIL" => mandatoryFailures(run_.rows) # {}
<1> DEFINE D == decideEngineeringStep(run_.status, run_.st, opts, run_.rows)
<1>1. D = verdict(kind)
  <2> HIDE DEF D
  <2>1. decision = D \/ decision = verdict("WAIT_FOR_HUMAN") BY DEF decision, guardDecision, D
  <2>2. verdict("WAIT_FOR_HUMAN") # verdict(kind)
    <3>1. verdict("WAIT_FOR_HUMAN").type = "WAIT_FOR_HUMAN" /\ verdict(kind).type = kind
      BY Verdicts
    <3> QED BY <3>1
  <2> QED BY <2>1, <2>2
<1>2. /\ \A key : run(key) # verdict(kind)
      /\ \A other : verdict(other) = verdict(kind) => other = kind
  <2>1. ASSUME NEW key PROVE run(key) # verdict(kind)
    <3>1. run(key).type = "RUN_STEP" /\ verdict(kind).type = kind BY Verdicts
    <3> QED BY <3>1
  <2>2. ASSUME NEW other, verdict(other) = verdict(kind) PROVE other = kind
    <3>1. verdict(other).type = other /\ verdict(kind).type = kind BY Verdicts
    <3> QED BY <2>2, <3>1
  <2> QED BY <2>1, <2>2
<1>3. mandatoryFailures(run_.rows) # {} => kind = "FAIL"
  <2>1. \E other \in {"WAIT_FOR_HUMAN", "FAIL"} : decideFailure(run_.rows) = verdict(other)
    BY DEF decideFailure
  <2>2. mandatoryFailures(run_.rows) # {}
          => D = decideFailure(run_.rows) \/ D = verdict("CANCELLED")
    BY DEF decideEngineeringStep
  <2> HIDE DEF D
  <2> QED BY <1>1, <1>2, <2>1, <2>2
<1>4. PICK o : o = opts OBVIOUS
<1>5. PICK st : st = run_.st OBVIOUS
<1>6. PICK rows : rows = run_.rows OBVIOUS
<1>7. D = decideEngineeringStep(run_.status, st, o, rows) BY <1>4, <1>5, <1>6
<1> HIDE DEF D
<1>8. mandatoryFailures(rows) = {} => D = verdict("CANCELLED") \/ D = verdict("WAIT_FOR_HUMAN")
        \/ (\E key : D = run(key)) \/ D = decideRepair(st, o) \/ D = decideReview(st, o)
        \/ D = decideDelivery(o, rows)
  BY <1>7, Zenon DEF decideEngineeringStep
<1>9. /\ decideRepair(st, o) # verdict(kind) /\ decideReview(st, o) # verdict(kind)
  <2>1. \/ decideRepair(st, o) = run("RETEST") \/ decideRepair(st, o) = verdict("WAIT_FOR_HUMAN")
        \/ decideRepair(st, o) = run("FIX")
    BY Zenon DEF decideRepair
  <2>2. \/ decideReview(st, o) = verdict("WAIT_FOR_HUMAN")
        \/ decideReview(st, o) = run("FINAL_REVIEW") \/ decideReview(st, o) = run("REVIEW")
    BY Zenon DEF decideReview
  <2> QED BY <1>2, <2>1, <2>2
<1>10. decideDelivery(o, rows) = verdict(kind) => kind = "COMPLETE" /\ "COMPLETE" \in completedSteps(rows)
  <2>1. \/ \E key : decideDelivery(o, rows) = run(key)
        \/ decideDelivery(o, rows) = verdict("WAIT_FOR_HUMAN")
        \/ /\ decideDelivery(o, rows) = verdict("COMPLETE")
           /\ "COMPLETE" \in completedSteps(rows)
    BY Zenon DEF decideDelivery
  <2> QED BY <1>2, <2>1
<1>11. mandatoryFailures(rows) = {} => kind = "COMPLETE" /\ "COMPLETE" \in completedSteps(rows)
  <2>1. ~(D = verdict("CANCELLED")) /\ ~(D = verdict("WAIT_FOR_HUMAN"))
    BY <1>1, <1>2
  <2> QED BY <1>1, <1>2, <1>8, <1>9, <1>10, <2>1
<1> QED BY <1>3, <1>6, <1>11 DEF Done

LEMMA ClosingStep ==
  ASSUME LoopInv,
         \/ decision = verdict("COMPLETE") /\ FinishComplete
         \/ decision = verdict("FAIL") /\ FinishFail
         \/ WaitForHuman
  PROVE  LoopInv' /\ StepOK
<1>1. evidence \in Evidence BY DEF LoopInv, LoopTypes
<1>2. {"SUCCEEDED", "FAILED", "WAITING_FOR_HUMAN"} \subseteq RunStatus BY DEF RunStatus
<1>3. {"COMPLETED", "FAILED", "NEEDS_HUMAN_REVIEW"} \subseteq TaskStatus BY Statuses
<1>4. CASE decision = verdict("COMPLETE") /\ FinishComplete
  <2>1. Verified BY <1>4, Closings DEF LoopInv, Sealed
  <2>2. finish("SUCCEEDED", "COMPLETED", evidence) BY <1>4 DEF FinishComplete
  <2> QED BY <1>1, <1>2, <1>3, <2>1, <2>2, Finishes
<1>5. CASE decision = verdict("FAIL") /\ FinishFail
  <2>1. \E i \in failedRows(run_.rows) : ~getStep(run_.rows[i].stepKey).optional
    BY <1>5, Closings DEF mandatoryFailures
  <2>2. finish("FAILED", "FAILED", evidence) BY <1>5 DEF FinishFail
  <2> QED BY <1>1, <1>2, <1>3, <2>1, <2>2, Finishes
<1>6. CASE WaitForHuman
  <2>1. PICK ev : ev = [evidence EXCEPT !.approval = TRUE] OBVIOUS
  <2>2. /\ ev \in Evidence /\ ev.clean = evidence.clean /\ ev.tested = evidence.tested
        /\ ev.approved = evidence.approved /\ ev.blocking = evidence.blocking
        /\ ev.pr = evidence.pr /\ ev.latestTest = evidence.latestTest
    BY <1>1, <2>1 DEF Evidence
  <2>3. finish("WAITING_FOR_HUMAN", "NEEDS_HUMAN_REVIEW", ev)
    BY <1>6, <2>1 DEF WaitForHuman
  <2> QED BY <1>2, <1>3, <2>2, <2>3, Finishes
<1> QED BY <1>4, <1>5, <1>6

-----------------------------------------------------------------------------
(* The invariant and the theorems. *)

LEMMA AdvanceStep ==
  ASSUME LoopInv, Advance
  PROVE  LoopInv' /\ StepOK
<1>1. \/ decision = run("ANALYZE_REPOSITORY") /\ AnalyzeRepository
      \/ decision = run("PLAN")               /\ Plan
      \/ decision = run("CREATE_TASKS")       /\ CreateTasks
      \/ decision = run("CREATE_WORKTREE")    /\ CreateWorktree
      \/ \E k \in {"IMPLEMENT", "FIX"}       : decision = run(k) /\ Implement(k)
      \/ \E k \in {"RUN_TESTS", "RETEST"}    : decision = run(k) /\ RunChecks(k)
      \/ decision = run("UI_QA")              /\ UiQa
      \/ \E k \in {"REVIEW", "FINAL_REVIEW"} : decision = run(k) /\ Review(k)
      \/ decision = run("DOCUMENT")           /\ Document
      \/ decision = run("PREPARE_PR")         /\ PreparePullRequest
      \/ decision = run("COMPLETE")           /\ Complete
      \/ decision = verdict("COMPLETE")       /\ FinishComplete
      \/ decision = verdict("FAIL")           /\ FinishFail
      \/ decision = verdict("WAIT_FOR_HUMAN") /\ WaitForHuman
  <2>1. PICK d : /\ d = decision
                 /\ \/ d = run("ANALYZE_REPOSITORY") /\ AnalyzeRepository
                    \/ d = run("PLAN")               /\ Plan
                    \/ d = run("CREATE_TASKS")       /\ CreateTasks
                    \/ d = run("CREATE_WORKTREE")    /\ CreateWorktree
                    \/ \E k \in {"IMPLEMENT", "FIX"}       : d = run(k) /\ Implement(k)
                    \/ \E k \in {"RUN_TESTS", "RETEST"}    : d = run(k) /\ RunChecks(k)
                    \/ d = run("UI_QA")              /\ UiQa
                    \/ \E k \in {"REVIEW", "FINAL_REVIEW"} : d = run(k) /\ Review(k)
                    \/ d = run("DOCUMENT")           /\ Document
                    \/ d = run("PREPARE_PR")         /\ PreparePullRequest
                    \/ d = run("COMPLETE")           /\ Complete
                    \/ d = verdict("COMPLETE")       /\ FinishComplete
                    \/ d = verdict("FAIL")           /\ FinishFail
                    \/ d = verdict("WAIT_FOR_HUMAN") /\ WaitForHuman
    BY DEF Advance
  <2> QED BY <2>1
<1>2. {"ANALYZE_REPOSITORY", "PLAN", "CREATE_TASKS", "CREATE_WORKTREE", "DOCUMENT"}
        \subseteq QuietSteps \ {"COMPLETE"}
  BY DEF QuietSteps
<1>3. CASE decision = run("ANALYZE_REPOSITORY") /\ AnalyzeRepository
  <2>1. PICK a, edit : /\ edit \in BOOLEAN
                       /\ execute("ANALYZE_REPOSITORY", a, touched(evidence, edit), "none")
    BY <1>3, Zenon DEF AnalyzeRepository
  <2> QED BY <1>2, <1>3, <2>1, TouchedStep
<1>4. CASE decision = run("PLAN") /\ Plan
  <2>1. PICK a, edit : edit \in BOOLEAN /\ execute("PLAN", a, touched(evidence, edit), "none")
    BY <1>4, Zenon DEF Plan
  <2> QED BY <1>2, <1>4, <2>1, TouchedStep
<1>5. evidence = touched(evidence, FALSE) BY DEF touched
<1>6. CASE decision = run("CREATE_TASKS") /\ CreateTasks
  <2>1. PICK a : execute("CREATE_TASKS", a, evidence, "none") BY <1>6, Zenon DEF CreateTasks
  <2>2. execute("CREATE_TASKS", a, touched(evidence, FALSE), "none") BY <1>5, <2>1
  <2> QED BY <1>2, <1>6, <2>2, TouchedStep
<1>7. CASE decision = run("CREATE_WORKTREE") /\ CreateWorktree
  <2>1. PICK a : execute("CREATE_WORKTREE", a, evidence, "none")
    BY <1>7, Zenon DEF CreateWorktree
  <2>2. execute("CREATE_WORKTREE", a, touched(evidence, FALSE), "none") BY <1>5, <2>1
  <2> QED BY <1>2, <1>7, <2>2, TouchedStep
<1>8. CASE decision = run("DOCUMENT") /\ Document
  <2>1. PICK a, edit : /\ edit \in BOOLEAN
                       /\ execute("DOCUMENT", a, touched(evidence, edit), "none")
    BY <1>8, Zenon DEF Document
  <2> QED BY <1>2, <1>8, <2>1, TouchedStep
<1>9. CASE \E k \in {"IMPLEMENT", "FIX"} : decision = run(k) /\ Implement(k)
  BY <1>9, ImplementStep
<1>10. CASE \E k \in {"RUN_TESTS", "RETEST"} : decision = run(k) /\ RunChecks(k)
  BY <1>10, ChecksStep
<1>11. CASE \E k \in {"REVIEW", "FINAL_REVIEW"} : decision = run(k) /\ Review(k)
  BY <1>11, ReviewStep
<1>12. CASE decision = run("UI_QA") /\ UiQa BY <1>12, UiQaStep
<1>13. CASE decision = run("PREPARE_PR") /\ PreparePullRequest BY <1>13, PreparePullRequestStep
<1>14. CASE decision = run("COMPLETE") /\ Complete BY <1>14, CompleteStep
<1>15. CASE \/ decision = verdict("COMPLETE") /\ FinishComplete
            \/ decision = verdict("FAIL") /\ FinishFail
            \/ decision = verdict("WAIT_FOR_HUMAN") /\ WaitForHuman
  BY <1>15, ClosingStep
<1> QED BY ONLY <1>1, <1>3, <1>4, <1>6, <1>7, <1>8, <1>9, <1>10, <1>11, <1>12, <1>13, <1>14, <1>15

LEMMA LoopNext ==
  ASSUME LoopInv, [MCNext]_MCvars
  PROVE  LoopInv' /\ [StepOK]_vars
<1>1. CASE Advance BY <1>1, AdvanceStep
<1>2. CASE EditProject BY <1>2, EditStep
<1>3. CASE AdHocTests BY <1>3, AdHocStep
<1>4. CASE UNCHANGED vars
  <2>1. /\ run_' = run_ /\ task' = task /\ start' = start /\ provider' = provider
        /\ project' = project /\ edits' = edits /\ adHoc' = adHoc /\ evidence' = evidence
    BY <1>4 DEF vars
  <2>2. opts' = opts BY <2>1 DEF opts, settings
  <2>3. /\ project \in Projects /\ edits \in 0..MaxEdits /\ adHoc \in 0..MaxAdHocTests
        /\ evidence \in Evidence
    BY DEF LoopInv, LoopTypes
  <2>4. LoopInv' BY <2>1, <2>2, <2>3, Beside
  <2> QED BY <1>4, <2>4
<1> QED BY <1>1, <1>2, <1>3, <1>4 DEF MCNext, MCvars, Next, Ended

LEMMA LoopInit ==
  ASSUME MCInit
  PROVE  LoopInv
<1>1. Init BY DEF MCInit
<1>2. PICK s \in Starts :
        start = [skipPlanning |-> s.skipPlanning, planOnly |-> s.planOnly,
                 snapshot |-> s.snapshot, captured |-> project]
  BY <1>1 DEF Init
<1>3. PICK l \in Leftovers :
        /\ task = [status |-> IF start.skipPlanning THEN "QUEUED" ELSE "BACKLOG",
                   worktree |-> l.worktree]
        /\ evidence = [latestTest |-> l.latestTest, blocking |-> l.blocking,
                       pr |-> l.pr, clean |-> l.clean,
                       tested |-> FALSE, approved |-> FALSE, approval |-> FALSE]
  BY <1>1 DEF Init
<1>4. /\ run_ = [status |-> "PENDING", st |-> createInitialWorkflowState, rows |-> <<>>]
      /\ project \in Projects /\ edits = 0 /\ adHoc = 0
  BY <1>1 DEF Init
<1>5. LoopTypes
  <2>1. start \in [skipPlanning : BOOLEAN, planOnly : BOOLEAN, snapshot : BOOLEAN,
                   captured : Projects]
    <3>1. s \in [skipPlanning : BOOLEAN, planOnly : BOOLEAN, snapshot : BOOLEAN]
      BY LoopAssumption
    <3> QED BY <1>2, <1>4, <3>1
  <2>2. l \in [latestTest : {"none", "passed", "failed", "unfinished"}, worktree : BOOLEAN,
               blocking : BOOLEAN, pr : BOOLEAN, clean : BOOLEAN]
    BY LoopAssumption
  <2>3. task \in [status : TaskStatus, worktree : BOOLEAN] BY <1>3, <2>2, Statuses
  <2>4. evidence \in Evidence BY <1>3, <2>2 DEF Evidence
  <2>5. createInitialWorkflowState \in State BY DEF createInitialWorkflowState, State
  <2>6. run_ \in [status : RunStatus, st : State, rows : Seq(Row)]
    BY <1>4, <2>5 DEF RunStatus
  <2>7. edits \in 0..MaxEdits /\ adHoc \in 0..MaxAdHocTests BY <1>4, LoopAssumption
  <2> QED BY <1>4, <2>1, <2>3, <2>4, <2>6, <2>7 DEF LoopTypes
<1>6. RowsOK(run_.rows) /\ Done = {} BY <1>4 DEF RowsOK, Done, completedSteps
<1>7. /\ ~run_.st.testsPassed /\ ~run_.st.verificationPending /\ ~run_.st.reviewApproved
      /\ run_.st.attempt = 0 /\ run_.status = "PENDING"
  BY <1>4 DEF createInitialWorkflowState
<1> QED BY <1>5, <1>6, <1>7
        DEF LoopInv, StateInv, EvidenceInv, Sealed, DeliveredWorkIsVerified,
            OnlyMandatoryStepsFailRuns

LEMMA LoopEnds ==
  ASSUME LoopInv
  PROVE  EndingsAreEarned
<1>1. LoopTypes /\ RowsOK(run_.rows) BY DEF LoopInv
<1>2. run_.status \in RunStatus /\ run_.st \in State /\ run_.rows \in Seq(Row)
  BY <1>1 DEF LoopTypes
<1>3. ASSUME NEW i \in DOMAIN run_.rows
      PROVE  /\ run_.rows[i].stepKey \in StepKey /\ run_.rows[i].status \in RunStatus
             /\ run_.rows[i].attempt \in 1..getStep(run_.rows[i].stepKey).maxAttempts
  <2>1. run_.rows[i] \in Row BY <1>2
  <2> QED BY <1>1, <2>1 DEF Row, RowsOK, RowOK, RunStatus
<1>4. TypeOK BY <1>1, <1>2, <1>3 DEF TypeOK, LoopTypes, State, Evidence
<1> QED BY <1>4 DEF LoopInv, EndingsAreEarned

\* A run succeeds only with work that is committed, checked, approved, without
\* open blocking findings and with its pull request, and fails only over a
\* mandatory step that used its last attempt.
THEOREM EndingsHold == MCSpec => []EndingsAreEarned
<1>1. MCInit => LoopInv BY LoopInit
<1>2. LoopInv /\ [MCNext]_MCvars => LoopInv' BY LoopNext
<1>3. LoopInv => EndingsAreEarned BY LoopEnds
<1> QED BY <1>1, <1>2, <1>3, PTL DEF MCSpec

\* Reviews start from passing checks, repairs stay within attempts and review
\* cycles, and what writes has the permission the project has at that moment.
THEOREM StepsHold == MCSpec => StepsAreAllowed
<1>1. MCInit => LoopInv BY LoopInit
<1>2. LoopInv /\ [MCNext]_MCvars => LoopInv' BY LoopNext
<1>3. LoopInv /\ [MCNext]_MCvars
        => [ReviewFollowsPassingChecks /\ RepairIsBounded /\ WriteNeedsLivePermission]_vars
  BY LoopNext DEF StepOK
<1> QED BY <1>1, <1>2, <1>3, PTL DEF MCSpec, StepsAreAllowed
=============================================================================
