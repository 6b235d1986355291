---------------------------- MODULE Verification ----------------------------
(***************************************************************************)
(* How a task's work is judged: the checks the worker runs, the reviews,   *)
(* their findings, and the gates of COMPLETE. The workflow goes round      *)
(* implement, check, review, fix; at any time people ask for checks and    *)
(* reviews of their own, which other workers carry out (redelivered when   *)
(* one dies), and edit findings.                                           *)
(*                                                                         *)
(* rev       revision of the worktree; truth[r][c]: check c passes on r    *)
(* conf[c]   what is configured for a check: a command that runs, none,    *)
(*           a default that does not apply here, or one not allowed        *)
(* tests     test runs in the order of their creation                      *)
(* runner[p] a process inside TestRunner.run: "wf" is the workflow's       *)
(* st        the workflow's state; step: where it is                       *)
(* finding   findings: blocking or not, status, whether a fix was given    *)
(*           them; `loose` ones come from an ad-hoc review or from a step  *)
(*           that died before it reported                                  *)
(* review    the ad-hoc review: "none", "running", "done"                  *)
(* approved  approvals of the workflow: the revision reviewed, and whether *)
(*           other blocking findings were open                             *)
(***************************************************************************)
EXTENDS Integers, Sequences, FiniteSets

CONSTANTS
  Check,        \* required checks; CUSTOM shares its type with "install"
  Job,          \* deliveries of ad-hoc check jobs
  MaxRev,       \* fixes
  MaxTests,     \* test runs
  MaxFindings   \* findings recorded

VARIABLES rev, truth, conf, tests, runner, st, step, finding, review, approved

vfVars == <<rev, truth, conf, tests, runner, st, step, finding, review, approved>>

Proc == Job \cup {"wf"}
Finished == {"PASSED", "FAILED"}
NoResults == [c \in Check \cup {"install"} |-> "none"]
Resting == [pc |-> "idle", row |-> 0, todo |-> {}, failed |-> FALSE]

Init ==
  /\ rev = 0
  /\ truth \in [0..MaxRev -> [Check -> BOOLEAN]]
  /\ conf \in [Check -> {"run", "none", "inapplicable", "refused"}]
  /\ tests = <<>>
  /\ runner = [p \in Proc |-> Resting]
  /\ st = [testsPassed |-> FALSE, verificationPending |-> TRUE,
           reviewApproved |-> FALSE, hasBlockingFindings |-> FALSE]
  /\ step = "idle"
  /\ finding = <<>> /\ review = "none" /\ approved = {}

row(p) == tests[runner[p].row]
-----------------------------------------------------------------------------
(* Test runs. *)

createRun(wf) == Append(tests, [wf |-> wf, status |-> "QUEUED",
                                results |-> NoResults, shared |-> FALSE])

enter(p, i) == runner' = [runner EXCEPT ![p] = [pc |-> "install", row |-> i,
                                                todo |-> Check, failed |-> FALSE]]

\* RUN_TESTS and RETEST create a row of their own and run it.
runChecks ==
  /\ step = "idle" /\ st.verificationPending /\ Len(tests) < MaxTests
  /\ tests' = [createRun(TRUE) EXCEPT ![Len(tests) + 1].status = "RUNNING"]
  /\ enter("wf", Len(tests) + 1)
  /\ step' = "checking"
  /\ UNCHANGED <<rev, truth, conf, st, finding, review, approved>>

trigger ==
  /\ Len(tests) < MaxTests
  /\ tests' = createRun(FALSE)
  /\ UNCHANGED <<rev, truth, conf, runner, st, step, finding, review, approved>>

deliverable_any(i) == ~tests[i].wf
\* A redelivered job must not re-run a completed check set.
deliverable(i) == ~tests[i].wf /\ tests[i].status \notin Finished

\* A job is delivered, or once more after its worker died or stalled.
Deliver(p) ==
  /\ runner[p].pc = "idle"
  /\ \E i \in DOMAIN tests :
       /\ deliverable(i)
       /\ tests' = [tests EXCEPT ![i].status = "RUNNING",
                      ![i].shared = @ \/ \E q \in Job : /\ runner[q].pc # "idle"
                                                       /\ runner[q].row = i]
       /\ enter(p, i)
  /\ UNCHANGED <<rev, truth, conf, st, step, finding, review, approved>>

\* Dependencies are installed when the worktree has a manifest and no modules;
\* a worktree that is gone fails every check.
installDependencies(p) ==
  /\ runner[p].pc = "install"
  /\ \E outcome \in {"none", "PASSED", "FAILED"} :
       /\ tests' = IF outcome = "none" THEN tests
                   ELSE [tests EXCEPT ![runner[p].row].results["install"] = outcome]
       /\ runner' = [runner EXCEPT ![p].pc = "checks",
                                   ![p].failed = (outcome = "FAILED")]
  /\ UNCHANGED <<rev, truth, conf, st, step, finding, review, approved>>

WorktreeMissing(p) ==
  /\ runner[p].pc = "install"
  /\ tests' = [tests EXCEPT ![runner[p].row].results =
                 [c \in DOMAIN @ |-> IF c \in Check THEN "SKIPPED" ELSE @[c]]]
  /\ runner' = [runner EXCEPT ![p].pc = "checks", ![p].todo = {}, ![p].failed = TRUE]
  /\ UNCHANGED <<rev, truth, conf, st, step, finding, review, approved>>

\* The row of a check is looked up by its type, which "install" shares with
\* CUSTOM: either of the two may be found.
slots(p, c) == IF c = "CUSTOM" /\ row(p).results["install"] # "none"
               THEN {c, "install"} ELSE {c}

isFailure_exitCode(status) == status \in {"FAILED", "SKIPPED"}
isFailure(status) == status \in {"FAILED", "TIMEOUT", "SKIPPED"}

\* One check: its command on the worktree as it is now.
RunCheck(p) ==
  /\ runner[p].pc = "checks"
  /\ \E c \in runner[p].todo : \E slot \in slots(p, c) :
       LET set(status, bad) ==
             /\ tests' = [tests EXCEPT ![runner[p].row].results[slot] = status]
             /\ runner' = [runner EXCEPT ![p].todo = @ \ {c},
                                         ![p].failed = @ \/ bad]
       IN CASE conf[c] = "none"         -> set("SKIPPED", TRUE)
            [] conf[c] = "inapplicable" -> set("SKIPPED", FALSE)
            [] conf[c] = "refused"      -> set("FAILED", TRUE)
            [] conf[c] = "run"          ->
                 \E s \in IF truth[rev][c] THEN {"PASSED"} ELSE {"FAILED", "TIMEOUT"} :
                   set(s, isFailure(s))
  /\ UNCHANGED <<rev, truth, conf, st, step, finding, review, approved>>

\* The verdict is the runner's own, not what the rows say.
FinishRun(p) ==
  /\ runner[p].pc = "checks" /\ runner[p].todo = {}
  /\ tests' = [tests EXCEPT ![runner[p].row].status =
                 IF runner[p].failed THEN "FAILED" ELSE "PASSED"]
  /\ runner' = [runner EXCEPT ![p] = Resting]
  /\ IF p = "wf"
     THEN /\ st' = [st EXCEPT !.testsPassed = ~runner[p].failed,
                              !.verificationPending = FALSE]
          /\ step' = "idle"
     ELSE UNCHANGED <<st, step>>
  /\ UNCHANGED <<rev, truth, conf, finding, review, approved>>

\* A worker dies inside a job, or a step is retried with a row of its own.
Dies(p) ==
  /\ runner[p].pc # "idle"
  /\ runner' = [runner EXCEPT ![p] = Resting]
  /\ step' = IF p = "wf" THEN "idle" ELSE step
  /\ UNCHANGED <<rev, truth, conf, tests, st, finding, review, approved>>
-----------------------------------------------------------------------------
(* Reviews and findings. *)

open(f) == f.status \in {"OPEN", "FIXING"}
noneBlocks == ~\E i \in DOMAIN finding : open(finding[i]) /\ finding[i].blocking
Found(blocking, loose) == [blocking |-> blocking, status |-> "OPEN",
                           shown |-> FALSE, loose |-> loose]

\* Verdicts a reviewer may give: approved or not, with what finding.
Verdicts == {[ok |-> ok, found |-> f] : ok \in BOOLEAN,
                                        f \in {"none", "LOW", "HIGH"}}
passes(v) == v.ok /\ v.found # "HIGH"

store(v, loose) ==
  IF v.found = "none" THEN finding' = finding
  ELSE /\ Len(finding) < MaxFindings
       /\ finding' = Append(finding, Found(v.found = "HIGH", loose))

\* REVIEW: the diff of the revision is captured and an agent asked.
runReview ==
  /\ step = "idle" /\ ~st.verificationPending /\ st.testsPassed
  /\ ~st.hasBlockingFindings /\ ~st.reviewApproved
  /\ step' = "reviewing"
  /\ UNCHANGED <<rev, truth, conf, tests, runner, st, finding, review, approved>>

\* A review that does not approve sends the work back, whatever it found.
reviewPatch(v) == [st EXCEPT !.reviewApproved = passes(v),
                             !.hasBlockingFindings = ~passes(v)]

\* persist: the review and its findings in one transaction. A step that dies
\* after it is run again; what it stored stays.
Persist(v) ==
  /\ step = "reviewing"
  /\ \/ /\ store(v, FALSE)
        /\ step' = IF passes(v) THEN "resolving" ELSE "idle"
        /\ st' = IF passes(v) THEN st ELSE reviewPatch(v)
     \/ /\ store(v, TRUE) /\ step' = "idle" /\ st' = st
  /\ approved' = IF passes(v)
                 THEN approved \cup {[rev |-> rev, open |-> ~noneBlocks]}
                 ELSE approved
  /\ UNCHANGED <<rev, truth, conf, tests, runner, review>>

\* An approval resolves every open finding of the task, then is reported.
resolveFindings ==
  /\ step = "resolving"
  /\ finding' = [i \in DOMAIN finding |->
                   IF open(finding[i]) THEN [finding[i] EXCEPT !.status = "RESOLVED"]
                   ELSE finding[i]]
  /\ step' = "idle"
  /\ st' = [st EXCEPT !.reviewApproved = TRUE, !.hasBlockingFindings = FALSE]
  /\ UNCHANGED <<rev, truth, conf, tests, runner, review, approved>>

\* A UI review found something blocking.
uiQaStep ==
  /\ step = "idle" /\ ~st.verificationPending /\ st.testsPassed
  /\ ~st.hasBlockingFindings /\ ~st.reviewApproved /\ Len(finding) < MaxFindings
  /\ finding' = Append(finding, Found(TRUE, FALSE))
  /\ st' = [st EXCEPT !.hasBlockingFindings = TRUE]
  /\ UNCHANGED <<rev, truth, conf, tests, runner, step, review, approved>>

markFindingsFixing_unread ==
  /\ step = "idle" /\ ~st.verificationPending
  /\ ~st.testsPassed \/ st.hasBlockingFindings
  /\ rev < MaxRev
  /\ finding' = [i \in DOMAIN finding |->
                   IF open(finding[i]) THEN [finding[i] EXCEPT !.status = "FIXING"]
                   ELSE finding[i]]
  /\ step' = "fixing"
  /\ UNCHANGED <<rev, truth, conf, tests, runner, st, review, approved>>

\* FIX: findings are marked, then all open ones are the agent's input.
markFindingsFixing ==
  /\ step = "idle" /\ ~st.verificationPending
  /\ ~st.testsPassed \/ st.hasBlockingFindings
  /\ rev < MaxRev
  /\ finding' = [i \in DOMAIN finding |->
                   IF open(finding[i])
                   THEN [finding[i] EXCEPT !.status = "FIXING", !.shown = TRUE]
                   ELSE finding[i]]
  /\ step' = "fixing"
  /\ UNCHANGED <<rev, truth, conf, tests, runner, st, review, approved>>

runImplementer_keepsReview ==
  /\ step = "fixing" /\ step' = "idle"
  /\ rev' = rev + 1
  /\ st' = [st EXCEPT !.verificationPending = TRUE, !.testsPassed = FALSE,
                      !.hasBlockingFindings = FALSE,
                      !.reviewApproved = approved # {}]
  /\ UNCHANGED <<truth, conf, tests, runner, finding, review, approved>>

runImplementer_keepsTests ==
  /\ step = "fixing" /\ step' = "idle"
  /\ rev' = rev + 1
  /\ st' = [st EXCEPT !.reviewApproved = FALSE, !.hasBlockingFindings = FALSE]
  /\ UNCHANGED <<truth, conf, tests, runner, finding, review, approved>>

\* A new revision invalidates the verdicts on the old one.
runImplementer ==
  /\ step = "fixing" /\ step' = "idle"
  /\ rev' = rev + 1
  /\ st' = [st EXCEPT !.verificationPending = TRUE, !.testsPassed = FALSE,
                      !.hasBlockingFindings = FALSE, !.reviewApproved = FALSE]
  /\ UNCHANGED <<truth, conf, tests, runner, finding, review, approved>>

\* POST /tasks/:id/review, and its job: findings only, no part of the workflow.
triggerReview ==
  /\ review = "none" /\ Len(finding) < MaxFindings
  /\ review' = "running"
  /\ UNCHANGED <<rev, truth, conf, tests, runner, st, step, finding, approved>>

adhocReview(v) ==
  /\ review = "running" /\ review' = "done" /\ store(v, TRUE)
  /\ UNCHANGED <<rev, truth, conf, tests, runner, st, step, approved>>

updateFinding(i) ==
  /\ finding[i].status # "CLOSED"
  /\ \E status \in {"OPEN", "CLOSED"} :
       finding' = [finding EXCEPT ![i].status = status,
                                  ![i].loose = @ \/ status = "OPEN"]
  /\ UNCHANGED <<rev, truth, conf, tests, runner, st, step, review, approved>>

\* The latest test run of the task, whoever asked for it, has passed and no
\* blocking finding is open.
completeGates == /\ tests # <<>> /\ tests[Len(tests)].status = "PASSED"
                 /\ noneBlocks

completeStep ==
  /\ step = "idle" /\ ~st.verificationPending /\ st.testsPassed
  /\ st.reviewApproved /\ ~st.hasBlockingFindings
  /\ step' = IF completeGates THEN "done" ELSE "failed"
  /\ UNCHANGED <<rev, truth, conf, tests, runner, st, finding, review, approved>>

Next ==
  \/ runChecks \/ trigger \/ runReview \/ resolveFindings \/ uiQaStep
  \/ markFindingsFixing \/ runImplementer \/ triggerReview \/ completeStep
  \/ \E p \in Proc : \/ installDependencies(p) \/ WorktreeMissing(p)
                      \/ RunCheck(p) \/ FinishRun(p) \/ Dies(p)
  \/ \E p \in Job : Deliver(p)
  \/ \E v \in Verdicts : Persist(v) \/ adhocReview(v)
  \/ \E i \in DOMAIN finding : updateFinding(i)

Spec == Init /\ [][Next]_vfVars
-----------------------------------------------------------------------------
\* Types of the runs, the findings and the workflow's state.
TypeOK ==
  /\ rev \in 0..MaxRev
  /\ \A i \in DOMAIN tests :
       tests[i] \in [wf : BOOLEAN, shared : BOOLEAN,
                     status : Finished \cup {"QUEUED", "RUNNING"},
                     results : [Check \cup {"install"} ->
                       {"none", "PASSED", "FAILED", "TIMEOUT", "SKIPPED"}]]
  /\ runner \in [Proc -> [pc : {"idle", "install", "checks"}, row : 0..MaxTests,
                          todo : SUBSET Check, failed : BOOLEAN]]
  /\ st \in [testsPassed : BOOLEAN, verificationPending : BOOLEAN,
             reviewApproved : BOOLEAN, hasBlockingFindings : BOOLEAN]
  /\ step \in {"idle", "checking", "reviewing", "resolving", "fixing", "done",
               "failed"}
  /\ \A i \in DOMAIN finding :
       finding[i] \in [blocking : BOOLEAN, shown : BOOLEAN, loose : BOOLEAN,
                       status : {"OPEN", "FIXING", "RESOLVED", "CLOSED"}]
  /\ review \in {"none", "running", "done"}
  /\ approved \subseteq [rev : 0..MaxRev, open : BOOLEAN]

\* A task completes only on a revision whose required checks really pass,
\* whatever checks people ran in between and whichever of them came last.
CompletedWorkPassed ==
  step = "done" => \A c \in Check : \/ conf[c] = "inapplicable"
                                    \/ conf[c] = "run" /\ truth[rev][c]

\* And only on the revision the workflow's reviewer approved.
CompletedWorkWasReviewed ==
  step = "done" => \E a \in approved : a.rev = rev

\* The verdict of a finished run never changes, however often its job is
\* delivered: unless two deliveries ran it at the same time.
VerdictsKept ==
  \A i \in DOMAIN tests :
    tests[i].status \in Finished /\ ~tests[i].shared => tests'[i].status = tests[i].status

\* A run's rows account for its verdict: some row of a failed run did not pass
\* (except that the row of a failed install may be overwritten by CUSTOM), and
\* every check of a passed one passed or did not apply.
EvidenceExplainsVerdict ==
  \A i \in DOMAIN tests :
    LET res == tests[i].results
    IN /\ tests[i].status = "FAILED" /\ ~tests[i].shared
            => (\E c \in DOMAIN res : res[c] \in {"FAILED", "TIMEOUT", "SKIPPED"}) \/ "CUSTOM" \in Check
       /\ tests[i].status = "PASSED" /\ ~tests[i].shared
            => \A c \in Check : \/ res[c] = "PASSED"
                                \/ res[c] = "SKIPPED" /\ conf[c] = "inapplicable"
                                \/ c = "CUSTOM"

\* What a review of the workflow found blocking is resolved only after a fix
\* was given it: no approval resolves it unread.
FindingsReachAFix ==
  \A i \in DOMAIN finding :
    finding[i].status = "RESOLVED" /\ finding[i].blocking /\ ~finding[i].loose
      => finding[i].shown

\* review-engine.ts: "A review is only approved when the model said so *and*
\* zero critical/high findings remain open".
ApprovalsFaceNoOpenFindings == \A a \in approved : ~a.open
=============================================================================
