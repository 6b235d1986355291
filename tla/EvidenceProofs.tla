--------------------------- MODULE EvidenceProofs ---------------------------
(***************************************************************************)
(* What Verification and PullRequests promise: the evidence on which work  *)
(* is judged, proved for any set of checks, of deliveries of jobs, and any *)
(* number of fixes, test runs and findings, and the delivery of that work, *)
(* for any number of workers, requests, runs, attempts, changes and        *)
(* webhooks. The two share no variable; their proofs share nothing either. *)
(***************************************************************************)
EXTENDS Verification, PullRequests, NaturalsInduction, WellFoundedInduction, TLAPS

\* There is something to check; "install" is no check and "wf" no job.
Sensible ==
  /\ MaxRev \in Nat /\ MaxTests \in Nat
  /\ Check # {} /\ "install" \notin Check /\ "wf" \notin Job

Outcome == {"none", "PASSED", "FAILED", "TIMEOUT", "SKIPPED"}
Results == [Check \cup {"install"} -> Outcome]
TestRun == [wf : BOOLEAN, shared : BOOLEAN,
            status : Finished \cup {"QUEUED", "RUNNING"}, results : Results]
Runner == [pc : {"idle", "install", "checks"}, row : 0..MaxTests, todo : SUBSET Check,
           failed : BOOLEAN]
Finding == [blocking : BOOLEAN, shown : BOOLEAN, loose : BOOLEAN,
            status : {"OPEN", "FIXING", "RESOLVED", "CLOSED"}]
State == [testsPassed : BOOLEAN, verificationPending : BOOLEAN,
          reviewApproved : BOOLEAN, hasBlockingFindings : BOOLEAN]
Step == {"idle", "checking", "reviewing", "resolving", "fixing", "done", "failed"}

ConfTypes == /\ rev \in 0..MaxRev /\ truth \in [0..MaxRev -> [Check -> BOOLEAN]]
             /\ conf \in [Check -> {"run", "none", "inapplicable", "refused"}]
TestTypes == tests \in Seq(TestRun) /\ Len(tests) <= MaxTests
RunnerTypes == runner \in [Proc -> Runner]
StateTypes == /\ st \in State /\ step \in Step /\ review \in {"none", "running", "done"}
              /\ approved \subseteq [rev : 0..MaxRev, open : BOOLEAN]
              /\ step = "fixing" => rev < MaxRev
FindingTypes == finding \in Seq(Finding)

active(p) == runner[p].pc # "idle"

\* A process is on a row of its own kind; two on one row are known to be.
RowsFit ==
  /\ \A p \in Proc : active(p) => /\ runner[p].row \in DOMAIN tests
                                  /\ tests[runner[p].row].wf = (p = "wf")
  /\ \A p, q \in Proc : p # q /\ active(p) /\ active(q) /\ runner[p].row = runner[q].row
                          => tests[runner[p].row].shared
  /\ \A i \in DOMAIN tests : tests[i].status \in Finished /\ ~tests[i].shared =>
       \A p \in Proc : active(p) => runner[p].row # i
  /\ \A p \in Proc : runner[p].pc = "install" => runner[p].todo = Check /\ ~runner[p].failed

bad(o) == o \in {"FAILED", "TIMEOUT", "SKIPPED"}
blames(res, todo) == (\E c \in (Check \cup {"install"}) \ todo : bad(res[c])) \/ "CUSTOM" \in Check
clears(cf, res, c) == \/ res[c] = "PASSED" \/ c = "CUSTOM"
                      \/ res[c] = "SKIPPED" /\ cf[c] = "inapplicable"

\* The results stored so far explain what the runner thinks of them so far.
Explained(cf, x, res) ==
  x.pc = "checks" =>
    IF x.failed THEN blames(res, x.todo) ELSE \A c \in Check \ x.todo : clears(cf, res, c)

RowsExplain ==
  /\ \A p \in Proc : active(p) /\ ~tests[runner[p].row].shared
                       => Explained(conf, runner[p], tests[runner[p].row].results)
  /\ \A i \in DOMAIN tests : ~tests[i].shared =>
       /\ tests[i].status = "FAILED" => blames(tests[i].results, {})
       /\ tests[i].status = "PASSED" => \A c \in Check : clears(conf, tests[i].results, c)

TestInv == ConfTypes /\ TestTypes /\ RunnerTypes /\ RowsFit /\ RowsExplain

\* A check is right: it passes on the revision, or does not apply.
right(c) == conf[c] = "inapplicable" \/ (conf[c] = "run" /\ truth[rev][c])

\* The workflow's runner has found the checks it is done with to be right, and
\* what follows from that.
Checked ==
  /\ step = "checking" <=> active("wf")
  /\ runner["wf"].pc = "checks" /\ ~runner["wf"].failed =>
       \A c \in Check \ runner["wf"].todo : right(c)
  /\ st.testsPassed \/ step = "done" => \A c \in Check : right(c)

Reviewed ==
  st.reviewApproved \/ step \in {"resolving", "done"} => \E a \in approved : a.rev = rev

\* A blocking finding no fix was given keeps the workflow away from a review.
unread(f) == open(f) /\ f.blocking /\ ~f.loose /\ ~f.shown
Unread ==
  /\ \A i \in DOMAIN finding : unread(finding[i]) => st.hasBlockingFindings /\ step # "fixing"
  /\ step \in {"reviewing", "resolving"} => ~st.hasBlockingFindings
  /\ FindingsReachAFix

FlowInv == StateTypes /\ FindingTypes /\ Checked /\ Reviewed /\ Unread

IInv == TestInv /\ FlowInv

LEMMA Rest == ASSUME Sensible PROVE
  /\ Resting \in Runner /\ Resting.pc = "idle" /\ NoResults \in Results /\ "wf" \in Proc
BY DEF Sensible, Resting, Runner, NoResults, Results, Outcome, Proc

LEMMA InitInv == ASSUME Sensible, Init PROVE IInv
<1>1. \A p \in Proc : runner[p] = Resting
  BY DEF Init
<1>2. ConfTypes /\ TestTypes /\ RunnerTypes /\ DOMAIN tests = {} /\ DOMAIN finding = {}
  BY Rest DEF Sensible, Init, ConfTypes, TestTypes, RunnerTypes
<1>3. RowsFit /\ RowsExplain
  BY <1>1, <1>2, Rest DEF RowsFit, RowsExplain, active
<1>4. StateTypes /\ FindingTypes
  BY DEF Init, StateTypes, FindingTypes, State, Step
<1>5. Checked
  BY <1>1, Rest DEF Checked, active, Init
<1>6. Reviewed /\ Unread
  BY <1>2 DEF Reviewed, Unread, FindingsReachAFix, Init
<1> QED BY <1>2, <1>3, <1>4, <1>5, <1>6 DEF IInv, TestInv, FlowInv

-----------------------------------------------------------------------------
(* Test runs. *)

LEMMA TestsStay ==
  ASSUME TestInv, UNCHANGED <<truth, conf, tests, runner>>, rev' \in 0..MaxRev PROVE TestInv'
BY DEF TestInv, ConfTypes, TestTypes, RunnerTypes, RowsFit, RowsExplain, active, Explained,
   blames, clears

\* Where rev stays and the workflow's runner moves on, its part of the state.
LEMMA FlowStays ==
  ASSUME Sensible, TestInv, FlowInv,
         UNCHANGED <<rev, truth, conf, st, step, finding, review, approved>>,
         runner'["wf"] = runner["wf"]
  PROVE  FlowInv'
BY DEF FlowInv, StateTypes, FindingTypes, Checked, Reviewed, Unread, FindingsReachAFix, active,
   right, unread, open

LEMMA NewRun ==
  ASSUME Sensible, TestInv, NEW t \in TestRun, t.status \notin Finished,
         Len(tests) < MaxTests, tests' \in Seq(TestRun), Len(tests') = Len(tests) + 1,
         tests'[Len(tests) + 1] = t, \A i \in DOMAIN tests : tests'[i] = tests[i],
         UNCHANGED <<rev, truth, conf>>, RunnerTypes',
         \/ UNCHANGED runner
         \/ /\ ~active("wf") /\ t.wf /\ runner'["wf"].row = Len(tests) + 1
            /\ runner'["wf"].pc = "install" /\ runner'["wf"].todo = Check /\ ~runner'["wf"].failed
            /\ \A p \in Proc : p # "wf" => runner'[p] = runner[p]
  PROVE  TestInv'
<1> DEFINE n == Len(tests) + 1
<1>1. /\ tests' \in Seq(TestRun) /\ DOMAIN tests = 1..Len(tests) /\ DOMAIN tests' = 1..n
      /\ n \in Nat /\ n <= MaxTests /\ tests'[n] = t /\ \A i \in DOMAIN tests : tests'[i] = tests[i]
      /\ n \notin DOMAIN tests /\ Len(tests') = n
  BY DEF Sensible, TestInv, TestTypes
<1> HIDE DEF n
<1>2. ConfTypes' /\ TestTypes'
  BY <1>1 DEF TestInv, ConfTypes, TestTypes
<1>3. \A p \in Proc : \/ runner'[p] = runner[p]
                      \/ /\ p = "wf" /\ runner'[p].row = n /\ runner'[p].pc = "install"
                         /\ runner'[p].todo = Check /\ ~runner'[p].failed
  BY DEF n
<1>4. \A p \in Proc : active(p) => runner[p].row \in DOMAIN tests
  BY DEF TestInv, RowsFit
<1>5. t.wf \/ UNCHANGED runner
  OBVIOUS
<1>6. RowsFit'
  <2>1. \A p \in Proc : active(p)' => /\ runner'[p].row \in DOMAIN tests'
                                      /\ tests'[runner'[p].row].wf = (p = "wf")
    BY <1>1, <1>3, <1>4 DEF TestInv, RowsFit, active, TestRun
  <2>2. \A p, q \in Proc : p # q /\ active(p)' /\ active(q)' /\ runner'[p].row = runner'[q].row
                          => tests'[runner'[p].row].shared
    BY <1>1, <1>3, <1>4 DEF TestInv, RowsFit, active
  <2>3. \A i \in DOMAIN tests' : tests'[i].status \in Finished /\ ~tests'[i].shared =>
          \A p \in Proc : active(p)' => runner'[p].row # i
    BY <1>1, <1>3, <1>4 DEF TestInv, RowsFit, active
  <2>4. \A p \in Proc : runner'[p].pc = "install" => runner'[p].todo = Check /\ ~runner'[p].failed
    BY <1>3 DEF TestInv, RowsFit
  <2> QED BY <2>1, <2>2, <2>3, <2>4 DEF RowsFit
<1>7. RowsExplain'
  <2>1. \A p \in Proc : active(p)' /\ ~tests'[runner'[p].row].shared
                       => Explained(conf, runner'[p], tests'[runner'[p].row].results)
    BY <1>1, <1>3, <1>4 DEF TestInv, RowsExplain, Explained, active
  <2>2. \A i \in DOMAIN tests' : ~tests'[i].shared =>
       /\ tests'[i].status = "FAILED" => blames(tests'[i].results, {})
       /\ tests'[i].status = "PASSED" => \A c \in Check : clears(conf, tests'[i].results, c)
    BY <1>1 DEF TestInv, RowsExplain, Finished
  <2> QED BY <2>1, <2>2 DEF RowsExplain
<1> QED BY <1>2, <1>6, <1>7 DEF TestInv

OtherRunners(p) == \A q \in Proc : q # p => runner'[q] = runner[q]

\* A runner works on its row, and may finish it.
LEMMA RunnerStep ==
  ASSUME TestInv, NEW p \in Proc, active(p), NEW t \in TestRun,
         tests' = [tests EXCEPT ![runner[p].row] = t], UNCHANGED <<rev, truth, conf>>,
         t.wf = row(p).wf, t.shared = row(p).shared,
         RunnerTypes', OtherRunners(p),
         \/ t.status = row(p).status /\ (active(p)' => runner'[p].row = runner[p].row)
         \/ ~active(p)',
         runner'[p].pc # "install",
         ~t.shared => /\ active(p)' => Explained(conf, runner'[p], t.results)
                      /\ t.status = "FAILED" => blames(t.results, {})
                      /\ t.status = "PASSED" => \A c \in Check : clears(conf, t.results, c)
  PROVE  TestInv'
<1> DEFINE i == runner[p].row
<1>1. /\ i \in DOMAIN tests /\ row(p) = tests[i]
      /\ tests' \in Seq(TestRun) /\ DOMAIN tests' = DOMAIN tests /\ Len(tests') = Len(tests)
      /\ tests'[i] = t /\ \A j \in DOMAIN tests : j # i => tests'[j] = tests[j]
  BY DEF TestInv, TestTypes, RowsFit, row
<1>2. ConfTypes' /\ TestTypes'
  BY <1>1 DEF TestInv, ConfTypes, TestTypes
<1>3. \A q \in Proc : active(q)' => /\ active(q) /\ runner'[q].row = runner[q].row
                                    /\ q # p => runner'[q] = runner[q]
  BY DEF OtherRunners, active
<1>4. /\ \A q \in Proc : q # p /\ active(q) /\ runner[q].row = i => tests[i].shared
      /\ ~tests[i].shared => tests[i].status \notin Finished
  BY <1>1 DEF TestInv, RowsFit
<1> HIDE DEF i
<1>5. RowsFit'
  <2>1. \A q \in Proc : active(q)' => /\ runner'[q].row \in DOMAIN tests'
                                      /\ tests'[runner'[q].row].wf = (q = "wf")
    BY <1>1, <1>3 DEF TestInv, RowsFit
  <2>2. \A q, r \in Proc : q # r /\ active(q)' /\ active(r)' /\ runner'[q].row = runner'[r].row
                          => tests'[runner'[q].row].shared
    BY <1>1, <1>3 DEF TestInv, RowsFit
  <2>3. \A j \in DOMAIN tests' : tests'[j].status \in Finished /\ ~tests'[j].shared =>
          \A q \in Proc : active(q)' => runner'[q].row # j
    BY <1>1, <1>3, <1>4 DEF TestInv, RowsFit, i
  <2>4. \A q \in Proc : runner'[q].pc = "install" => runner'[q].todo = Check /\ ~runner'[q].failed
    BY <1>3 DEF TestInv, RowsFit, active
  <2> QED BY <2>1, <2>2, <2>3, <2>4 DEF RowsFit
<1>6. RowsExplain'
  <2>1. \A q \in Proc : active(q)' /\ ~tests'[runner'[q].row].shared
                       => Explained(conf, runner'[q], tests'[runner'[q].row].results)
    BY <1>1, <1>3, <1>4 DEF TestInv, RowsExplain, i
  <2>2. \A j \in DOMAIN tests' : ~tests'[j].shared =>
       /\ tests'[j].status = "FAILED" => blames(tests'[j].results, {})
       /\ tests'[j].status = "PASSED" => \A c \in Check : clears(conf, tests'[j].results, c)
    BY <1>1 DEF TestInv, RowsExplain
  <2> QED BY <2>1, <2>2 DEF RowsExplain
<1> QED BY <1>2, <1>5, <1>6 DEF TestInv

\* The row of an active runner, and what is known of it.
LEMMA ActiveRow ==
  ASSUME TestInv, NEW p \in Proc, active(p)
  PROVE  /\ row(p) \in TestRun /\ runner[p].row \in DOMAIN tests /\ runner[p] \in Runner
         /\ ~row(p).shared => /\ row(p).status \notin Finished
                              /\ Explained(conf, runner[p], row(p).results)
BY DEF TestInv, TestTypes, RunnerTypes, RowsFit, RowsExplain, row


\* The workflow goes in or out of its checks.
LEMMA CheckerMoves ==
  ASSUME FlowInv, UNCHANGED <<rev, truth, conf, finding, review, approved>>,
         step \in {"idle", "checking"}, step' \in {"idle", "checking"}, st' \in State,
         st'.reviewApproved = st.reviewApproved,
         st'.hasBlockingFindings = st.hasBlockingFindings,
         step' = "checking" <=> active("wf")',
         runner'["wf"].pc = "checks" /\ ~runner'["wf"].failed =>
           \A c \in Check \ runner'["wf"].todo : right(c),
         st'.testsPassed => \A c \in Check : right(c)
  PROVE  FlowInv'
<1>1. StateTypes' /\ FindingTypes'
  BY DEF FlowInv, StateTypes, FindingTypes, Step
<1>2. Checked'
  BY DEF FlowInv, Checked, right
<1>3. Reviewed'
  BY DEF FlowInv, Reviewed
<1>4. Unread'
  BY DEF FlowInv, Unread, FindingsReachAFix, unread, open
<1> QED BY <1>1, <1>2, <1>3, <1>4 DEF FlowInv

\* A runner goes on with its row.
LEMMA Goes ==
  ASSUME Sensible, TestInv, FlowInv, NEW p \in Proc, active(p), OtherRunners(p),
         RunnerTypes', runner'[p].pc = "checks",
         UNCHANGED <<rev, truth, conf, st, step, finding, review, approved>>,
         p = "wf" /\ ~runner'[p].failed => \A c \in Check \ runner'[p].todo : right(c)
  PROVE  FlowInv'
<1>1. CASE p # "wf"
  BY <1>1, Rest, FlowStays DEF OtherRunners
<1>2. CASE p = "wf"
  <2>1. step = "checking" /\ st \in State /\ active("wf")'
    BY <1>2 DEF FlowInv, Checked, StateTypes, active
  <2>2. st.testsPassed => \A c \in Check : right(c)
    BY DEF FlowInv, Checked
  <2> QED BY <1>2, <2>1, <2>2, CheckerMoves
<1> QED BY <1>1, <1>2

LEMMA Step_runChecks == ASSUME Sensible, TestInv, FlowInv, runChecks PROVE IInv'
<1> DEFINE n == Len(tests) + 1
           u == [wf |-> TRUE, status |-> "QUEUED", results |-> NoResults, shared |-> FALSE]
           t == [u EXCEPT !.status = "RUNNING"]
           x == [pc |-> "install", row |-> n, todo |-> Check, failed |-> FALSE]
<1>1. /\ u \in TestRun /\ tests \in Seq(TestRun) /\ "wf" \in Proc /\ Len(tests) < MaxTests
      /\ x \in Runner
  BY Rest DEF runChecks, TestInv, TestTypes, TestRun, Runner, Finished, Sensible
<1>10. t \in TestRun
  BY <1>1 DEF TestRun, Finished
<1>2. /\ tests' \in Seq(TestRun) /\ Len(tests') = n
      /\ tests'[n] = t /\ \A i \in DOMAIN tests : tests'[i] = tests[i]
  <2> DEFINE a == Append(tests, u)
  <2>1. tests' = [a EXCEPT ![n] = [a[n] EXCEPT !.status = "RUNNING"]]
    BY DEF runChecks, createRun
  <2> HIDE DEF u
  <2>2. a[n] = u
    BY <1>1
  <2>3. tests' = [a EXCEPT ![n] = t]
    BY <2>1, <2>2
  <2> HIDE DEF t
  <2>4. /\ a \in Seq(TestRun) /\ Len(a) = n /\ n \in DOMAIN a
        /\ \A i \in DOMAIN tests : i \in DOMAIN a /\ a[i] = tests[i] /\ i # n
    BY <1>1
  <2> HIDE DEF a, n
  <2>5. [a EXCEPT ![n] = t] \in Seq(TestRun) /\ Len([a EXCEPT ![n] = t]) = n
    BY <1>10, <2>4
  <2>6. [a EXCEPT ![n] = t][n] = t /\ \A i \in DOMAIN tests : [a EXCEPT ![n] = t][i] = tests[i]
    BY <2>4
  <2> QED BY <2>3, <2>5, <2>6
<1>3. runner' = [runner EXCEPT !["wf"] = x]
  BY DEF runChecks, enter
<1>4. /\ t.wf /\ ~t.shared /\ t.status = "RUNNING" /\ x.row = Len(tests) + 1
      /\ x.pc = "install" /\ x.todo = Check /\ ~x.failed
  OBVIOUS
<1> HIDE DEF t, x
<1>5. RunnerTypes' /\ runner'["wf"] = x /\ \A p \in Proc : p # "wf" => runner'[p] = runner[p]
  BY <1>1, <1>3 DEF TestInv, RunnerTypes
<1>6. ~active("wf")
  BY DEF runChecks, FlowInv, Checked
<1>7. TestInv'
  BY <1>1, <1>2, <1>4, <1>5, <1>6, <1>10, NewRun DEF runChecks, Finished
<1>8. active("wf")' /\ (st.testsPassed => \A c \in Check : right(c)) /\ st \in State
  BY <1>4, <1>5 DEF active, FlowInv, Checked, StateTypes
<1>9. FlowInv'
  BY <1>4, <1>5, <1>8, CheckerMoves DEF runChecks
<1> QED BY <1>7, <1>9 DEF IInv

LEMMA Step_trigger == ASSUME Sensible, TestInv, FlowInv, trigger PROVE IInv'
<1> DEFINE t == [wf |-> FALSE, status |-> "QUEUED", results |-> NoResults, shared |-> FALSE]
<1>1. t \in TestRun
  BY Rest DEF TestRun, Finished
<1>2. tests' = Append(tests, t) /\ t.status \notin Finished
  BY DEF trigger, createRun, Finished
<1> HIDE DEF t
<1>5. /\ tests' \in Seq(TestRun) /\ Len(tests') = Len(tests) + 1
      /\ tests'[Len(tests) + 1] = t /\ \A i \in DOMAIN tests : tests'[i] = tests[i]
  BY <1>1, <1>2 DEF TestInv, TestTypes
<1>3. TestInv'
  BY <1>1, <1>2, <1>5, NewRun DEF trigger, TestInv, RunnerTypes
<1>4. FlowInv'
  BY FlowStays DEF trigger
<1> QED BY <1>3, <1>4 DEF IInv

LEMMA Step_installDependencies ==
  ASSUME Sensible, TestInv, FlowInv, NEW p \in Proc, installDependencies(p)
  PROVE  IInv'
<1>1. PICK outcome \in {"none", "PASSED", "FAILED"} :
        /\ tests' = IF outcome = "none" THEN tests
                    ELSE [tests EXCEPT ![runner[p].row].results["install"] = outcome]
        /\ runner' = [runner EXCEPT ![p].pc = "checks", ![p].failed = (outcome = "FAILED")]
  BY DEF installDependencies
<1>2. active(p) /\ runner[p].pc = "install"
      /\ UNCHANGED <<rev, truth, conf, st, step, finding, review, approved>>
  BY DEF installDependencies, active
<1>3. /\ RunnerTypes' /\ OtherRunners(p) /\ runner'[p].pc = "checks"
      /\ runner'[p].row = runner[p].row /\ runner'[p].todo = runner[p].todo
      /\ runner'[p].failed = (outcome = "FAILED")
  BY <1>1 DEF TestInv, RunnerTypes, Runner, OtherRunners
<1>4. runner[p].todo = Check
  BY <1>2 DEF TestInv, RowsFit
<1>5. FlowInv'
  BY <1>2, <1>3, <1>4, Goes
<1>6. row(p) \in TestRun /\ runner[p].row \in DOMAIN tests /\ tests \in Seq(TestRun)
      /\ (~row(p).shared => row(p).status \notin Finished) /\ row(p) = tests[runner[p].row]
  BY <1>2, ActiveRow DEF TestInv, TestTypes, row
<1> DEFINE res == IF outcome = "none" THEN row(p).results
                  ELSE [row(p).results EXCEPT !["install"] = outcome]
           t == [row(p) EXCEPT !.results = res]
<1>7. res \in Results
  BY <1>6 DEF TestRun, Results, Outcome
<1>8. outcome = "FAILED" => bad(res["install"])
  BY <1>6 DEF TestRun, Results, bad
<1>9. tests' = [tests EXCEPT ![runner[p].row] = t]
  <2>1. CASE outcome = "none"
    <3>1. t = row(p)
      BY <2>1, <1>6 DEF TestRun
    <3> QED BY <3>1, <2>1, <1>1, <1>6
  <2>2. CASE outcome # "none"
    BY <2>2, <1>1, <1>6
  <2> QED BY <2>1, <2>2
<1> HIDE DEF res
<1>10. t \in TestRun /\ t.wf = row(p).wf /\ t.shared = row(p).shared /\ t.status = row(p).status
       /\ t.results = res
  BY <1>6, <1>7 DEF TestRun
<1> HIDE DEF t
<1>11. Explained(conf, runner'[p], res)
  BY <1>3, <1>4, <1>8 DEF Explained, blames, Sensible
<1>12. TestInv'
  BY <1>2, <1>3, <1>6, <1>9, <1>10, <1>11, RunnerStep DEF Finished
<1> QED BY <1>5, <1>12 DEF IInv

LEMMA Step_WorktreeMissing ==
  ASSUME Sensible, TestInv, FlowInv, NEW p \in Proc, WorktreeMissing(p)
  PROVE  IInv'
<1>1. active(p) /\ runner[p].pc = "install"
      /\ UNCHANGED <<rev, truth, conf, st, step, finding, review, approved>>
  BY DEF WorktreeMissing, active
<1>2. /\ RunnerTypes' /\ OtherRunners(p) /\ runner'[p].pc = "checks"
      /\ runner'[p].row = runner[p].row /\ runner'[p].todo = {} /\ runner'[p].failed
  BY DEF WorktreeMissing, TestInv, RunnerTypes, Runner, OtherRunners
<1>3. FlowInv'
  BY <1>1, <1>2, Goes
<1>4. row(p) \in TestRun /\ runner[p].row \in DOMAIN tests /\ tests \in Seq(TestRun)
      /\ (~row(p).shared => row(p).status \notin Finished) /\ row(p) = tests[runner[p].row]
  BY <1>1, ActiveRow DEF TestInv, TestTypes, row
<1> DEFINE res == [c \in DOMAIN row(p).results |->
                     IF c \in Check THEN "SKIPPED" ELSE row(p).results[c]]
           t == [row(p) EXCEPT !.results = res]
<1>5. res \in Results /\ \A c \in Check : bad(res[c])
  BY <1>4 DEF TestRun, Results, Outcome, bad
<1>6. tests' = [tests EXCEPT ![runner[p].row] = t]
  BY <1>4 DEF WorktreeMissing
<1> HIDE DEF res
<1>7. t \in TestRun /\ t.wf = row(p).wf /\ t.shared = row(p).shared /\ t.status = row(p).status
       /\ t.results = res
  BY <1>4, <1>5 DEF TestRun
<1> HIDE DEF t
<1>8. Explained(conf, runner'[p], res)
  BY <1>2, <1>5 DEF Explained, blames, Sensible
<1>9. TestInv'
  BY <1>1, <1>2, <1>4, <1>6, <1>7, <1>8, RunnerStep DEF Finished
<1> QED BY <1>3, <1>9 DEF IInv

\* What one check decides: its result and whether the run has failed.
LEMMA Decides ==
  ASSUME TestInv, NEW p \in Proc, RunCheck(p)
  PROVE  \E c \in runner[p].todo : \E slot \in slots(p, c) :
         \E status \in Outcome, failing \in BOOLEAN :
           /\ tests' = [tests EXCEPT ![runner[p].row].results[slot] = status]
           /\ runner' = [runner EXCEPT ![p].todo = @ \ {c}, ![p].failed = @ \/ failing]
           /\ failing => bad(status)
           /\ ~failing => /\ status = "PASSED" \/ (status = "SKIPPED" /\ conf[c] = "inapplicable")
                          /\ right(c)
<1> DEFINE does(c, slot) ==
       LET set(status, failing) ==
             /\ tests' = [tests EXCEPT ![runner[p].row].results[slot] = status]
             /\ runner' = [runner EXCEPT ![p].todo = @ \ {c},
                                         ![p].failed = @ \/ failing]
       IN CASE conf[c] = "none"         -> set("SKIPPED", TRUE)
            [] conf[c] = "inapplicable" -> set("SKIPPED", FALSE)
            [] conf[c] = "refused"      -> set("FAILED", TRUE)
            [] conf[c] = "run"          ->
                 \E s \in IF truth[rev][c] THEN {"PASSED"} ELSE {"FAILED", "TIMEOUT"} :
                   set(s, isFailure(s))
<1>0. PICK c \in runner[p].todo : \E slot \in slots(p, c) : does(c, slot)
  BY DEF RunCheck
<1>20. PICK slot \in slots(p, c) : does(c, slot)
  BY <1>0
<1>1. \E status \in Outcome, failing \in BOOLEAN :
        /\ tests' = [tests EXCEPT ![runner[p].row].results[slot] = status]
        /\ runner' = [runner EXCEPT ![p].todo = @ \ {c}, ![p].failed = @ \/ failing]
        /\ failing => bad(status)
        /\ ~failing => /\ status = "PASSED" \/ (status = "SKIPPED" /\ conf[c] = "inapplicable")
                       /\ right(c)
  <2>2. conf[c] \in {"run", "none", "inapplicable", "refused"}
    BY <1>0, ActiveRow DEF RunCheck, active, TestInv, ConfTypes, Runner
  <2>3. CASE conf[c] = "none"
    BY <1>20, <2>3 DEF Outcome, bad
  <2>4. CASE conf[c] = "inapplicable"
    BY <1>20, <2>4 DEF Outcome, right
  <2>5. CASE conf[c] = "refused"
    BY <1>20, <2>5 DEF Outcome, bad
  <2>6. CASE conf[c] = "run"
    <3>1. PICK s \in IF truth[rev][c] THEN {"PASSED"} ELSE {"FAILED", "TIMEOUT"} :
             /\ tests' = [tests EXCEPT ![runner[p].row].results[slot] = s]
             /\ runner' = [runner EXCEPT ![p].todo = @ \ {c},
                                         ![p].failed = @ \/ isFailure(s)]
      BY <1>20, <2>6
    <3>2. CASE truth[rev][c]
      <4>1. s = "PASSED" /\ isFailure(s) = FALSE
        BY <3>1, <3>2 DEF isFailure
      <4> QED BY <4>1, <3>1, <3>2, <2>6 DEF Outcome, right
    <3>3. CASE ~truth[rev][c]
      <4>1. s \in Outcome /\ isFailure(s) = TRUE /\ bad(s)
        BY <3>1, <3>3 DEF isFailure, bad, Outcome
      <4> QED BY <4>1, <3>1
    <3> QED BY <3>2, <3>3
  <2> QED BY <2>2, <2>3, <2>4, <2>5, <2>6
<1> QED BY <1>0, <1>20, <1>1

LEMMA Step_RunCheck ==
  ASSUME Sensible, TestInv, FlowInv, NEW p \in Proc, RunCheck(p)
  PROVE  IInv'
<1>0. PICK c \in runner[p].todo : \E slot \in slots(p, c) :
         \E status \in Outcome, failing \in BOOLEAN :
           /\ tests' = [tests EXCEPT ![runner[p].row].results[slot] = status]
           /\ runner' = [runner EXCEPT ![p].todo = @ \ {c}, ![p].failed = @ \/ failing]
           /\ failing => bad(status)
           /\ ~failing => /\ status = "PASSED" \/ (status = "SKIPPED" /\ conf[c] = "inapplicable")
                          /\ right(c)
  BY Decides
<1>20. PICK slot \in slots(p, c) : \E status \in Outcome, failing \in BOOLEAN :
           /\ tests' = [tests EXCEPT ![runner[p].row].results[slot] = status]
           /\ runner' = [runner EXCEPT ![p].todo = @ \ {c}, ![p].failed = @ \/ failing]
           /\ failing => bad(status)
           /\ ~failing => /\ status = "PASSED" \/ (status = "SKIPPED" /\ conf[c] = "inapplicable")
                          /\ right(c)
  BY <1>0
<1>1. PICK status \in Outcome, failing \in BOOLEAN :
           /\ tests' = [tests EXCEPT ![runner[p].row].results[slot] = status]
           /\ runner' = [runner EXCEPT ![p].todo = @ \ {c}, ![p].failed = @ \/ failing]
           /\ failing => bad(status)
           /\ ~failing => /\ status = "PASSED" \/ (status = "SKIPPED" /\ conf[c] = "inapplicable")
                          /\ right(c)
  BY <1>20
<1>2. active(p) /\ runner[p].pc = "checks" /\ c \in Check /\ "wf" \in Proc
      /\ UNCHANGED <<rev, truth, conf, st, step, finding, review, approved>>
  BY <1>0 DEF RunCheck, active, TestInv, RunnerTypes, Runner, Proc
<1>3. /\ RunnerTypes' /\ OtherRunners(p) /\ runner'[p].pc = "checks"
      /\ runner'[p].row = runner[p].row /\ runner'[p].todo = runner[p].todo \ {c}
      /\ runner'[p].failed = (runner[p].failed \/ failing)
  <2> DEFINE x == [runner[p] EXCEPT !.todo = @ \ {c}, !.failed = @ \/ failing]
  <2>1. runner[p] \in Runner
    BY DEF TestInv, RunnerTypes
  <2>2. /\ x \in Runner /\ x.pc = runner[p].pc /\ x.row = runner[p].row
        /\ x.todo = runner[p].todo \ {c} /\ x.failed = (runner[p].failed \/ failing)
    BY <2>1 DEF Runner
  <2>3. runner' = [runner EXCEPT ![p] = x]
    BY <1>1 DEF TestInv, RunnerTypes
  <2> HIDE DEF x
  <2> QED BY <1>2, <2>2, <2>3 DEF TestInv, RunnerTypes, OtherRunners
<1>4. p = "wf" /\ ~runner'[p].failed => \A d \in Check \ runner'[p].todo : right(d)
  BY <1>1, <1>2, <1>3 DEF FlowInv, Checked
<1>5. FlowInv'
  BY <1>2, <1>3, <1>4, Goes
<1>6. row(p) \in TestRun /\ runner[p].row \in DOMAIN tests /\ tests \in Seq(TestRun)
      /\ (~row(p).shared => /\ row(p).status \notin Finished
                            /\ Explained(conf, runner[p], row(p).results))
      /\ row(p) = tests[runner[p].row] /\ runner[p].failed \in BOOLEAN
      /\ runner[p].todo \subseteq Check
  BY <1>2, ActiveRow DEF TestInv, TestTypes, row, Runner
<1>7. slot \in Check \cup {"install"} /\ (slot # c => c = "CUSTOM" /\ slot = "install")
  BY <1>0, <1>20, <1>2 DEF slots
<1> DEFINE res == [row(p).results EXCEPT ![slot] = status]
           t == [row(p) EXCEPT !.results = res]
<1>8. res \in Results /\ res[slot] = status
      /\ \A d \in Check \cup {"install"} : d # slot => res[d] = row(p).results[d]
  BY <1>1, <1>6, <1>7 DEF TestRun, Results
<1>9. tests' = [tests EXCEPT ![runner[p].row] = t]
  BY <1>1, <1>6
<1> HIDE DEF res
<1>10. t \in TestRun /\ t.wf = row(p).wf /\ t.shared = row(p).shared /\ t.status = row(p).status
       /\ t.results = res
  BY <1>6, <1>8 DEF TestRun
<1> HIDE DEF t
<1>11. ASSUME Explained(conf, runner[p], row(p).results) PROVE Explained(conf, runner'[p], res)
  <2>1. CASE failing
    BY <2>1, <1>1, <1>2, <1>3, <1>7, <1>8 DEF Explained, blames, Sensible
  <2>2. CASE runner[p].failed /\ ~failing
    <3>1. blames(row(p).results, runner[p].todo)
      BY <1>2, <1>11, <2>2 DEF Explained
    <3> QED BY <1>1, <1>2, <1>3, <1>7, <1>8, <2>2, <3>1 DEF Explained, blames, Sensible
  <2>3. CASE ~runner[p].failed /\ ~failing
    <3>1. \A d \in Check \ runner[p].todo : clears(conf, row(p).results, d)
      BY <1>2, <1>11, <2>3 DEF Explained
    <3>2. \A d \in Check \ runner'[p].todo : clears(conf, res, d)
      <4>1. SUFFICES ASSUME NEW d \in Check \ runner'[p].todo PROVE clears(conf, res, d)
        OBVIOUS
      <4>2. CASE d = c
        BY <4>2, <1>1, <1>7, <1>8, <2>3 DEF clears
      <4>3. CASE d # c
        <5>1. d \in Check \ runner[p].todo /\ d # slot
          BY <4>3, <1>3, <1>7 DEF Sensible
        <5>2. res[d] = row(p).results[d]
          BY <5>1, <1>8
        <5> QED BY <3>1, <5>1, <5>2 DEF clears
      <4> QED BY <4>2, <4>3
    <3> QED BY <1>3, <2>3, <3>2 DEF Explained
  <2> QED BY <1>6, <2>1, <2>2, <2>3
<1>12. TestInv'
  BY <1>2, <1>3, <1>6, <1>9, <1>10, <1>11, RunnerStep DEF Finished
<1> QED BY <1>5, <1>12 DEF IInv

LEMMA Step_FinishRun ==
  ASSUME Sensible, TestInv, FlowInv, NEW p \in Proc, FinishRun(p)
  PROVE  IInv'
<1>1. active(p) /\ runner[p].pc = "checks" /\ runner[p].todo = {}
      /\ UNCHANGED <<rev, truth, conf, finding, review, approved>>
      /\ runner' = [runner EXCEPT ![p] = Resting]
  BY DEF FinishRun, active
<1>2. RunnerTypes' /\ OtherRunners(p) /\ runner'[p] = Resting /\ ~active(p)'
  BY <1>1, Rest DEF TestInv, RunnerTypes, OtherRunners, active
<1>3. row(p) \in TestRun /\ runner[p].row \in DOMAIN tests /\ tests \in Seq(TestRun)
      /\ (~row(p).shared => Explained(conf, runner[p], row(p).results))
      /\ row(p) = tests[runner[p].row] /\ runner[p].failed \in BOOLEAN
  BY <1>1, ActiveRow DEF TestInv, TestTypes, row, Runner
<1> DEFINE verdict == IF runner[p].failed THEN "FAILED" ELSE "PASSED"
           t == [row(p) EXCEPT !.status = verdict]
<1>4. tests' = [tests EXCEPT ![runner[p].row] = t]
  BY <1>3 DEF FinishRun
<1>5. t \in TestRun /\ t.wf = row(p).wf /\ t.shared = row(p).shared /\ t.status = verdict
      /\ t.results = row(p).results
  BY <1>3 DEF TestRun, Finished
<1>6. /\ t.status = "FAILED" <=> runner[p].failed
      /\ t.status = "PASSED" <=> ~runner[p].failed
  BY <1>3, <1>5
<1> HIDE DEF t, verdict
<1>7. ~t.shared => /\ t.status = "FAILED" => blames(t.results, {})
                   /\ t.status = "PASSED" => \A c \in Check : clears(conf, t.results, c)
  BY <1>1, <1>3, <1>5, <1>6 DEF Explained
<1>8. runner'[p].pc # "install"
  BY <1>2 DEF Resting
<1>9. TestInv'
  BY <1>1, <1>2, <1>4, <1>5, <1>7, <1>8, RunnerStep
<1>10. CASE p # "wf"
  <2>1. FlowInv'
    BY <1>1, <1>2, <1>10, Rest, FlowStays DEF OtherRunners, FinishRun
  <2> QED BY <2>1, <1>9 DEF IInv
<1>11. CASE p = "wf"
  <2>1. step = "checking" /\ step' = "idle" /\ st \in State
        /\ st' = [st EXCEPT !.testsPassed = ~runner[p].failed, !.verificationPending = FALSE]
    BY <1>1, <1>11 DEF FinishRun, FlowInv, Checked, StateTypes
  <2>2. ~runner[p].failed => \A c \in Check : right(c)
    BY <1>1, <1>11 DEF FlowInv, Checked
  <2>3. st' \in State /\ st'.reviewApproved = st.reviewApproved
        /\ st'.hasBlockingFindings = st.hasBlockingFindings
        /\ (st'.testsPassed <=> ~runner[p].failed)
    BY <2>1, <1>3 DEF State
  <2>4. FlowInv'
    BY <1>1, <1>2, <1>11, <2>1, <2>2, <2>3, CheckerMoves DEF Resting
  <2> QED BY <2>4, <1>9 DEF IInv
<1> QED BY <1>10, <1>11

LEMMA Step_Dies ==
  ASSUME Sensible, TestInv, FlowInv, NEW p \in Proc, Dies(p)
  PROVE  IInv'
<1>1. active(p) /\ UNCHANGED <<rev, truth, conf, tests, st, finding, review, approved>>
      /\ runner' = [runner EXCEPT ![p] = Resting]
  BY DEF Dies, active
<1>2. RunnerTypes' /\ OtherRunners(p) /\ runner'[p] = Resting /\ ~active(p)'
  BY <1>1, Rest DEF TestInv, RunnerTypes, OtherRunners, active
<1>3. \A q \in Proc : active(q)' => active(q) /\ runner'[q] = runner[q]
  BY <1>2 DEF OtherRunners, active
<1>4. runner'[p].pc = "idle"
  BY <1>2 DEF Resting
<1>5. RowsFit'
  <2>1. \A q \in Proc : active(q)' => /\ runner'[q].row \in DOMAIN tests'
                                      /\ tests'[runner'[q].row].wf = (q = "wf")
    BY <1>1, <1>3 DEF TestInv, RowsFit
  <2>2. \A q, r \in Proc : q # r /\ active(q)' /\ active(r)' /\ runner'[q].row = runner'[r].row
                          => tests'[runner'[q].row].shared
    BY <1>1, <1>3 DEF TestInv, RowsFit
  <2>3. \A j \in DOMAIN tests' : tests'[j].status \in Finished /\ ~tests'[j].shared =>
          \A q \in Proc : active(q)' => runner'[q].row # j
    BY <1>1, <1>3 DEF TestInv, RowsFit
  <2>4. \A q \in Proc : runner'[q].pc = "install" => runner'[q].todo = Check /\ ~runner'[q].failed
    BY <1>3 DEF TestInv, RowsFit, active
  <2> QED BY <2>1, <2>2, <2>3, <2>4 DEF RowsFit
<1>6. TestInv'
  BY <1>1, <1>2, <1>3, <1>5 DEF TestInv, ConfTypes, TestTypes, RowsExplain, Explained, blames, clears
<1>7. CASE p # "wf"
  <2>1. FlowInv'
    BY <1>1, <1>2, <1>7, Rest, FlowStays DEF OtherRunners, Dies
  <2> QED BY <2>1, <1>6 DEF IInv
<1>8. CASE p = "wf"
  <2>1. step = "checking" /\ step' = "idle" /\ st \in State
        /\ (st.testsPassed => \A c \in Check : right(c))
    BY <1>1, <1>8 DEF Dies, FlowInv, Checked, StateTypes
  <2>2. FlowInv'
    BY <1>1, <1>2, <1>4, <1>8, <2>1, CheckerMoves
  <2> QED BY <2>2, <1>6 DEF IInv
<1> QED BY <1>7, <1>8

LEMMA Step_Deliver ==
  ASSUME Sensible, TestInv, FlowInv, NEW p \in Job, Deliver(p)
  PROVE  IInv'
<1>1. PICK i \in DOMAIN tests :
       /\ deliverable(i)
       /\ tests' = [tests EXCEPT ![i].status = "RUNNING",
                      ![i].shared = @ \/ \E q \in Job : /\ runner[q].pc # "idle"
                                                       /\ runner[q].row = i]
       /\ enter(p, i)
  BY DEF Deliver
<1> DEFINE met == \E q \in Job : active(q) /\ runner[q].row = i
           t == [tests[i] EXCEPT !.status = "RUNNING", !.shared = @ \/ met]
           x == [pc |-> "install", row |-> i, todo |-> Check, failed |-> FALSE]
<1>2. /\ p \in Proc /\ p # "wf" /\ ~active(p) /\ tests \in Seq(TestRun) /\ tests[i] \in TestRun
      /\ ~tests[i].wf /\ i \in 0..MaxTests
  <2>1. tests \in Seq(TestRun) /\ Len(tests) <= MaxTests /\ MaxTests \in Nat
    BY DEF TestInv, TestTypes, Sensible
  <2>2. i \in 1..Len(tests) /\ Len(tests) \in Nat
    BY <2>1
  <2>3. i \in 0..MaxTests
    BY <2>1, <2>2
  <2>4. runner[p].pc = "idle" /\ ~tests[i].wf
    BY <1>1 DEF Deliver, deliverable
  <2>5. tests[i] \in TestRun
    BY <2>1
  <2> QED BY <2>1, <2>3, <2>4, <2>5 DEF active, Proc, Sensible
<1>3. tests' = [tests EXCEPT ![i] = t]
  BY <1>1, <1>2 DEF active
<1>4. runner' = [runner EXCEPT ![p] = x]
  BY <1>1 DEF enter
<1>5. x \in Runner /\ x.pc = "install" /\ x.row = i /\ x.todo = Check /\ ~x.failed
  BY <1>2 DEF Runner
<1>6. /\ t \in TestRun /\ t.status = "RUNNING" /\ t.shared = (tests[i].shared \/ met)
      /\ t.wf = tests[i].wf
  BY <1>2 DEF TestRun
<1>7. met \/ \A q \in Proc : active(q) => runner[q].row # i
  BY <1>2 DEF Proc, TestInv, RowsFit
<1>8. (met \in BOOLEAN) /\ tests[i].shared \in BOOLEAN
  BY <1>2 DEF TestRun
<1> HIDE DEF t, x, met
<1>9. /\ tests' \in Seq(TestRun) /\ DOMAIN tests' = DOMAIN tests /\ Len(tests') = Len(tests)
      /\ tests'[i] = t /\ \A j \in DOMAIN tests : j # i => tests'[j] = tests[j]
  BY <1>2, <1>3, <1>6
<1>10. RunnerTypes' /\ OtherRunners(p) /\ runner'[p] = x
  BY <1>2, <1>4, <1>5 DEF TestInv, RunnerTypes, OtherRunners
<1>11. \A q \in Proc : active(q)' => \/ q = p /\ runner'[q] = x
                                     \/ q # p /\ active(q) /\ runner'[q] = runner[q]
  BY <1>10 DEF OtherRunners, active
<1>12. UNCHANGED <<rev, truth, conf, st, step, finding, review, approved>>
  BY DEF Deliver
<1>13. RowsFit'
  <2>1. \A q \in Proc : active(q)' => /\ runner'[q].row \in DOMAIN tests'
                                      /\ tests'[runner'[q].row].wf = (q = "wf")
    <3>1. \A q \in Proc : active(q) => /\ runner[q].row \in DOMAIN tests
                                        /\ tests[runner[q].row].wf = (q = "wf")
      BY DEF TestInv, RowsFit
    <3>2. \A j \in DOMAIN tests : tests'[j].wf = tests[j].wf
      BY <1>6, <1>9
    <3>3. tests[i].wf = FALSE /\ p # "wf"
      BY <1>2 DEF TestRun
    <3> SUFFICES ASSUME NEW q \in Proc, active(q)'
                 PROVE  /\ runner'[q].row \in DOMAIN tests'
                        /\ tests'[runner'[q].row].wf = (q = "wf")
      OBVIOUS
    <3>4. CASE q = p /\ runner'[q] = x
      <4>1. runner'[q].row = i /\ i \in DOMAIN tests'
        BY <1>5, <1>9, <3>4
      <4>2. tests'[i].wf = FALSE /\ q # "wf"
        BY <3>2, <3>3, <3>4
      <4> QED BY <4>1, <4>2
    <3>5. CASE active(q) /\ runner'[q] = runner[q]
      BY <1>9, <3>1, <3>2, <3>5
    <3> QED BY <1>11, <3>4, <3>5
  <2>2. ASSUME NEW q \in Proc, NEW r \in Proc, q # r, active(q)', active(r)',
               runner'[q].row = runner'[r].row
        PROVE  tests'[runner'[q].row].shared
    <3>1. CASE runner'[q].row = i
      <4>1. ~\A u \in Proc : active(u) => runner[u].row # i
        BY <1>5, <1>11, <2>2, <3>1
      <4> QED BY <1>6, <1>7, <1>8, <1>9, <3>1, <4>1
    <3>2. CASE runner'[q].row # i
      BY <1>5, <1>9, <1>11, <2>2, <3>2 DEF TestInv, RowsFit
    <3> QED BY <3>1, <3>2
  <2>3. \A j \in DOMAIN tests' : tests'[j].status \in Finished /\ ~tests'[j].shared =>
          \A q \in Proc : active(q)' => runner'[q].row # j
    BY <1>5, <1>6, <1>9, <1>11 DEF TestInv, RowsFit, Finished
  <2>4. \A q \in Proc : runner'[q].pc = "install" => runner'[q].todo = Check /\ ~runner'[q].failed
    BY <1>5, <1>11 DEF TestInv, RowsFit, active
  <2> QED BY <2>1, <2>2, <2>3, <2>4 DEF RowsFit
<1>14. RowsExplain'
  <2>1. ASSUME NEW q \in Proc, active(q)', ~tests'[runner'[q].row].shared
        PROVE  Explained(conf, runner'[q], tests'[runner'[q].row].results)
    <3>1. CASE q = p
      BY <1>5, <1>10, <3>1 DEF Explained
    <3>2. CASE q # p
      <4>1. runner[q].row # i
        BY <1>6, <1>7, <1>8, <1>9, <1>11, <2>1, <3>2
      <4>2. runner[q].row \in DOMAIN tests
        BY <1>11, <2>1, <3>2 DEF TestInv, RowsFit
      <4> QED BY <1>9, <1>11, <2>1, <3>2, <4>1, <4>2 DEF TestInv, RowsExplain
    <3> QED BY <3>1, <3>2
  <2>2. \A j \in DOMAIN tests' : ~tests'[j].shared =>
       /\ tests'[j].status = "FAILED" => blames(tests'[j].results, {})
       /\ tests'[j].status = "PASSED" => \A c \in Check : clears(conf, tests'[j].results, c)
    BY <1>6, <1>9 DEF TestInv, RowsExplain
  <2> QED BY <1>12, <2>1, <2>2 DEF RowsExplain
<1>15. TestInv'
  BY <1>9, <1>10, <1>12, <1>13, <1>14 DEF TestInv, ConfTypes, TestTypes
<1>16. FlowInv'
  BY <1>2, <1>10, <1>12, Rest, FlowStays DEF OtherRunners
<1> QED BY <1>15, <1>16 DEF IInv

-----------------------------------------------------------------------------
(* Reviews, findings and the gates. *)

\* A step of the workflow outside its checks; the work stays as it is.
LEMMA StepMoves ==
  ASSUME TestInv, FlowInv, UNCHANGED <<rev, truth, conf, tests, runner>>,
         StateTypes', FindingTypes', step # "checking", step' # "checking",
         st'.testsPassed \/ step' = "done" => st.testsPassed \/ step = "done",
         Reviewed', Unread'
  PROVE  IInv'
<1>1. TestInv'
  BY TestsStay DEF TestInv, ConfTypes
<1>2. Checked'
  BY DEF FlowInv, Checked, active, right
<1> QED BY <1>1, <1>2 DEF IInv, FlowInv

LEMMA Step_runReview == ASSUME TestInv, FlowInv, runReview PROVE IInv'
<1>1. StateTypes' /\ FindingTypes' /\ Reviewed' /\ Unread'
  BY DEF runReview, FlowInv, StateTypes, FindingTypes, Step, Reviewed, Unread, FindingsReachAFix,
     unread, open
<1> QED BY <1>1, StepMoves DEF runReview

LEMMA Step_completeStep == ASSUME TestInv, FlowInv, completeStep PROVE IInv'
<1>1. step' \in {"done", "failed"}
  BY DEF completeStep
<1>2. StateTypes' /\ FindingTypes' /\ Reviewed' /\ Unread'
  BY <1>1 DEF completeStep, FlowInv, StateTypes, FindingTypes, Step, Reviewed, Unread,
     FindingsReachAFix, unread, open
<1> QED BY <1>1, <1>2, StepMoves DEF completeStep

\* What a review stores: nothing, or a finding that is open.
LEMMA Stores ==
  ASSUME FindingTypes, NEW v \in Verdicts, NEW loose \in BOOLEAN, store(v, loose)
  PROVE  /\ FindingTypes'
         /\ \A i \in DOMAIN finding' :
              \/ i \in DOMAIN finding /\ finding'[i] = finding[i]
              \/ finding'[i] = Found(v.found = "HIGH", loose)
<1> DEFINE f == Found(v.found = "HIGH", loose)
<1>1. f \in Finding
  BY DEF Found, Finding
<1>2. CASE finding' = finding
  BY <1>2 DEF FindingTypes
<1>3. CASE finding' = Append(finding, f)
  <2> HIDE DEF f
  <2>1. /\ Append(finding, f) \in Seq(Finding) /\ DOMAIN finding = 1..Len(finding)
        /\ DOMAIN Append(finding, f) = 1..(Len(finding) + 1)
        /\ Append(finding, f)[Len(finding) + 1] = f
        /\ \A i \in DOMAIN finding : Append(finding, f)[i] = finding[i]
    BY <1>1 DEF FindingTypes
  <2>2. \A i \in DOMAIN Append(finding, f) : i \in DOMAIN finding \/ i = Len(finding) + 1
    BY <2>1
  <2> QED BY <1>3, <2>1, <2>2 DEF FindingTypes, f
<1> QED BY <1>2, <1>3 DEF store

LEMMA Step_Persist ==
  ASSUME Sensible, TestInv, FlowInv, NEW v \in Verdicts, Persist(v) PROVE IInv'
<1>1. /\ step = "reviewing" /\ UNCHANGED <<rev, truth, conf, tests, runner, review>>
      /\ approved' = IF passes(v)
                     THEN approved \cup {[rev |-> rev, open |-> ~noneBlocks]}
                     ELSE approved
  BY DEF Persist
<1>2. approved' \subseteq [rev : 0..MaxRev, open : BOOLEAN] /\ approved \subseteq approved'
      /\ (passes(v) => \E a \in approved' : a.rev = rev)
  <2> DEFINE a == [rev |-> rev, open |-> ~noneBlocks]
  <2>1. rev \in 0..MaxRev /\ approved \subseteq [rev : 0..MaxRev, open : BOOLEAN]
    BY DEF TestInv, ConfTypes, FlowInv, StateTypes
  <2>2. a \in [rev : 0..MaxRev, open : BOOLEAN] /\ a.rev = rev
    BY <2>1
  <2> HIDE DEF a
  <2>3. approved' = IF passes(v) THEN approved \cup {a} ELSE approved
    BY <1>1 DEF a
  <2> QED BY <2>1, <2>2, <2>3
<1>3. st \in State /\ ~st.hasBlockingFindings /\ FindingTypes
  BY <1>1 DEF FlowInv, StateTypes, Unread
<1>4. ASSUME step' \in {"resolving", "idle"}, st' \in State, NEW loose \in BOOLEAN,
             store(v, loose), st'.testsPassed = st.testsPassed,
             st'.reviewApproved \/ step' = "resolving" => st.reviewApproved \/ passes(v),
             ~loose /\ v.found = "HIGH" => st'.hasBlockingFindings,
             step' = "resolving" => ~st'.hasBlockingFindings
      PROVE  IInv'
  <2>1. /\ FindingTypes'
        /\ \A i \in DOMAIN finding' :
              \/ i \in DOMAIN finding /\ finding'[i] = finding[i]
              \/ finding'[i] = Found(v.found = "HIGH", loose)
    BY <1>3, <1>4, Stores
  <2>2. StateTypes'
    BY <1>1, <1>2, <1>4 DEF FlowInv, StateTypes, Step
  <2>3. Reviewed'
    BY <1>1, <1>2, <1>4 DEF FlowInv, Reviewed
  <2>4. \A i \in DOMAIN finding : ~unread(finding[i])
    BY <1>3 DEF FlowInv, Unread
  <2>5. \A i \in DOMAIN finding' : unread(finding'[i]) => st'.hasBlockingFindings
    BY <1>4, <2>1, <2>4 DEF unread, Found
  <2>6. FindingsReachAFix'
    BY <2>1 DEF FlowInv, Unread, FindingsReachAFix, Found
  <2>7. Unread'
    BY <1>4, <2>5, <2>6 DEF Unread
  <2> QED BY <1>1, <1>4, <2>1, <2>2, <2>3, <2>7, StepMoves
<1>5. CASE passes(v) /\ store(v, FALSE) /\ step' = "resolving" /\ st' = st
  BY <1>3, <1>4, <1>5 DEF passes
<1>6. CASE ~passes(v) /\ store(v, FALSE) /\ step' = "idle" /\ st' = reviewPatch(v)
  <2>1. /\ st' \in State /\ st'.testsPassed = st.testsPassed /\ ~st'.reviewApproved
        /\ st'.hasBlockingFindings
    <3>1. passes(v) = FALSE
      BY <1>6 DEF passes
    <3>2. st' = [st EXCEPT !.reviewApproved = FALSE, !.hasBlockingFindings = TRUE]
      BY <1>6, <3>1 DEF reviewPatch
    <3> QED BY <1>3, <3>2 DEF State
  <2> QED BY <1>4, <1>6, <2>1
<1>7. CASE store(v, TRUE) /\ step' = "idle" /\ st' = st
  BY <1>3, <1>4, <1>7
<1> QED BY <1>5, <1>6, <1>7 DEF Persist

LEMMA Step_resolveFindings == ASSUME TestInv, FlowInv, resolveFindings PROVE IInv'
<1>1. /\ step = "resolving" /\ step' = "idle" /\ st \in State
      /\ UNCHANGED <<rev, truth, conf, tests, runner, review, approved>>
      /\ finding \in Seq(Finding)
  BY DEF resolveFindings, FlowInv, StateTypes, FindingTypes
<1>2. /\ st' \in State /\ st'.testsPassed = st.testsPassed /\ ~st'.hasBlockingFindings
  BY <1>1 DEF resolveFindings, State
<1>3. /\ DOMAIN finding' = DOMAIN finding /\ finding' \in Seq(Finding)
      /\ \A i \in DOMAIN finding :
           IF open(finding[i])
           THEN /\ finding'[i].status = "RESOLVED" /\ finding'[i].blocking = finding[i].blocking
                /\ finding'[i].loose = finding[i].loose /\ finding'[i].shown = finding[i].shown
           ELSE finding'[i] = finding[i]
  <2> DEFINE f(i) == IF open(finding[i]) THEN [finding[i] EXCEPT !.status = "RESOLVED"]
                     ELSE finding[i]
  <2>1. ASSUME NEW i \in DOMAIN finding
        PROVE  /\ f(i) \in Finding
               /\ IF open(finding[i])
                  THEN /\ f(i).status = "RESOLVED" /\ f(i).blocking = finding[i].blocking
                       /\ f(i).loose = finding[i].loose /\ f(i).shown = finding[i].shown
                  ELSE f(i) = finding[i]
    <3>1. finding[i] \in Finding
      BY <1>1
    <3> QED BY <3>1 DEF Finding
  <2>2. finding' = [i \in DOMAIN finding |-> f(i)]
    BY DEF resolveFindings
  <2> HIDE DEF f
  <2>3. DOMAIN finding = 1..Len(finding) /\ Len(finding) \in Nat
    BY <1>1
  <2>4. DOMAIN finding' = DOMAIN finding /\ \A i \in DOMAIN finding : finding'[i] = f(i)
    BY <2>2
  <2>5. finding' \in Seq(Finding)
    BY <2>1, <2>2, <2>3
  <2> QED BY <2>1, <2>4, <2>5
<1>4. \A i \in DOMAIN finding : ~unread(finding[i])
  BY <1>1 DEF FlowInv, Unread
<1>5. Unread'
  <2>1. \A i \in DOMAIN finding' : ~open(finding'[i])
    BY <1>3 DEF open
  <2>2. FindingsReachAFix'
    BY <1>3, <1>4 DEF FlowInv, Unread, FindingsReachAFix, unread
  <2> QED BY <1>1, <2>1, <2>2 DEF Unread, unread
<1>6. StateTypes' /\ FindingTypes' /\ Reviewed'
  BY <1>1, <1>2, <1>3 DEF FlowInv, StateTypes, FindingTypes, Step, Reviewed
<1> QED BY <1>1, <1>2, <1>5, <1>6, StepMoves

LEMMA Step_uiQaStep == ASSUME TestInv, FlowInv, uiQaStep PROVE IInv'
<1> DEFINE f == Found(TRUE, FALSE)
<1>1. /\ step = "idle" /\ step' = step /\ st \in State /\ f \in Finding
      /\ UNCHANGED <<rev, truth, conf, tests, runner, review, approved>>
      /\ finding \in Seq(Finding) /\ finding' = Append(finding, f)
  BY DEF uiQaStep, FlowInv, StateTypes, FindingTypes, Found, Finding
<1>2. /\ st' \in State /\ st'.testsPassed = st.testsPassed /\ st'.hasBlockingFindings
      /\ st'.reviewApproved = st.reviewApproved
  BY <1>1 DEF uiQaStep, State
<1>3. f.status = "OPEN"
  BY DEF Found
<1> HIDE DEF f
<1>4. /\ finding' \in Seq(Finding)
      /\ \A i \in DOMAIN finding' : \/ i \in DOMAIN finding /\ finding'[i] = finding[i]
                                    \/ finding'[i] = f
  <2>1. /\ Append(finding, f) \in Seq(Finding) /\ DOMAIN finding = 1..Len(finding)
        /\ DOMAIN Append(finding, f) = 1..(Len(finding) + 1)
        /\ Append(finding, f)[Len(finding) + 1] = f
        /\ \A i \in DOMAIN finding : Append(finding, f)[i] = finding[i]
    BY <1>1
  <2>2. \A i \in DOMAIN Append(finding, f) : i \in DOMAIN finding \/ i = Len(finding) + 1
    BY <2>1
  <2> QED BY <1>1, <2>1, <2>2
<1>5. Unread'
  BY <1>1, <1>2, <1>3, <1>4 DEF FlowInv, Unread, FindingsReachAFix
<1>6. StateTypes' /\ FindingTypes' /\ Reviewed'
  BY <1>1, <1>2, <1>4 DEF FlowInv, StateTypes, FindingTypes, Step, Reviewed
<1> QED BY <1>1, <1>2, <1>5, <1>6, StepMoves

LEMMA Step_markFindingsFixing == ASSUME TestInv, FlowInv, markFindingsFixing PROVE IInv'
<1>1. /\ step = "idle" /\ step' = "fixing" /\ st' = st /\ rev < MaxRev
      /\ UNCHANGED <<rev, truth, conf, tests, runner, review, approved>>
      /\ finding \in Seq(Finding)
  BY DEF markFindingsFixing, FlowInv, FindingTypes
<1>2. /\ DOMAIN finding' = DOMAIN finding /\ finding' \in Seq(Finding)
      /\ \A i \in DOMAIN finding :
           IF open(finding[i])
           THEN finding'[i].status = "FIXING" /\ finding'[i].shown
           ELSE finding'[i] = finding[i]
  <2> DEFINE f(i) == IF open(finding[i])
                     THEN [finding[i] EXCEPT !.status = "FIXING", !.shown = TRUE]
                     ELSE finding[i]
  <2>1. ASSUME NEW i \in DOMAIN finding
        PROVE  /\ f(i) \in Finding
               /\ IF open(finding[i]) THEN f(i).status = "FIXING" /\ f(i).shown
                  ELSE f(i) = finding[i]
    <3>1. finding[i] \in Finding
      BY <1>1
    <3> QED BY <3>1 DEF Finding
  <2>2. finding' = [i \in DOMAIN finding |-> f(i)]
    BY DEF markFindingsFixing
  <2> HIDE DEF f
  <2>3. DOMAIN finding = 1..Len(finding) /\ Len(finding) \in Nat
    BY <1>1
  <2>4. DOMAIN finding' = DOMAIN finding /\ \A i \in DOMAIN finding : finding'[i] = f(i)
    BY <2>2
  <2>5. finding' \in Seq(Finding)
    BY <2>1, <2>2, <2>3
  <2> QED BY <2>1, <2>4, <2>5
<1>3. Unread'
  <2>1. \A i \in DOMAIN finding' : ~unread(finding'[i])
    BY <1>2 DEF unread
  <2>2. FindingsReachAFix'
    BY <1>2 DEF FlowInv, Unread, FindingsReachAFix
  <2> QED BY <1>1, <2>1, <2>2 DEF Unread
<1>4. StateTypes' /\ FindingTypes' /\ Reviewed'
  BY <1>1, <1>2 DEF FlowInv, StateTypes, FindingTypes, Step, Reviewed
<1> QED BY <1>1, <1>3, <1>4, StepMoves

LEMMA Step_runImplementer == ASSUME Sensible, TestInv, FlowInv, runImplementer PROVE IInv'
<1>1. /\ step = "fixing" /\ step' = "idle" /\ rev' = rev + 1 /\ st \in State
      /\ UNCHANGED <<truth, conf, tests, runner, finding, review, approved>>
  BY DEF runImplementer, FlowInv, StateTypes
<1>2. /\ st' \in State /\ ~st'.testsPassed /\ ~st'.reviewApproved /\ ~st'.hasBlockingFindings
  BY <1>1 DEF runImplementer, State
<1>3. rev \in 0..MaxRev /\ rev < MaxRev /\ MaxRev \in Nat
  BY <1>1 DEF TestInv, ConfTypes, FlowInv, StateTypes, Sensible
<1>4. rev' \in 0..MaxRev
  BY <1>1, <1>3
<1>5. TestInv'
  BY <1>1, <1>4, TestsStay
<1>6. StateTypes' /\ FindingTypes' /\ Reviewed' /\ Unread'
  BY <1>1, <1>2 DEF FlowInv, StateTypes, FindingTypes, Step, Reviewed, Unread, FindingsReachAFix,
     unread, open
<1>7. Checked'
  <2>1. ~active("wf") /\ ~active("wf")'
    BY <1>1 DEF FlowInv, Checked, active
  <2> QED BY <1>1, <1>2, <2>1 DEF Checked, active
<1> QED BY <1>5, <1>6, <1>7 DEF IInv, FlowInv

\* A person or an ad-hoc review changes findings, at any time.
LEMMA FindingsMove ==
  ASSUME TestInv, FlowInv, UNCHANGED <<rev, truth, conf, tests, runner, st, step, approved>>,
         FindingTypes', review' \in {"none", "running", "done"},
         \A i \in DOMAIN finding' :
           \/ i \in DOMAIN finding /\ finding'[i] = finding[i]
           \/ finding'[i].status \in {"OPEN", "CLOSED"}
              /\ (finding'[i].status = "OPEN" => finding'[i].loose)
  PROVE  IInv'
<1>1. TestInv'
  BY TestsStay DEF TestInv, ConfTypes
<1>2. StateTypes' /\ Checked' /\ Reviewed'
  BY DEF FlowInv, StateTypes, Checked, Reviewed, active, right
<1>3. Unread'
  BY DEF FlowInv, Unread, FindingsReachAFix, unread, open
<1> QED BY <1>1, <1>2, <1>3 DEF IInv, FlowInv

LEMMA Step_triggerReview == ASSUME TestInv, FlowInv, triggerReview PROVE IInv'
<1>1. FindingTypes' /\ finding' = finding
  BY DEF triggerReview, FlowInv, FindingTypes
<1> QED BY <1>1, FindingsMove DEF triggerReview

LEMMA Step_adhocReview ==
  ASSUME TestInv, FlowInv, NEW v \in Verdicts, adhocReview(v) PROVE IInv'
<1>1. store(v, TRUE) /\ FindingTypes /\ review' = "done"
      /\ UNCHANGED <<rev, truth, conf, tests, runner, st, step, approved>>
  BY DEF adhocReview, FlowInv
<1>2. /\ FindingTypes'
      /\ \A i \in DOMAIN finding' :
            \/ i \in DOMAIN finding /\ finding'[i] = finding[i]
            \/ finding'[i] = Found(v.found = "HIGH", TRUE)
  BY <1>1, Stores
<1>3. Found(v.found = "HIGH", TRUE).status = "OPEN" /\ Found(v.found = "HIGH", TRUE).loose
  BY DEF Found
<1> QED BY <1>1, <1>2, <1>3, FindingsMove

LEMMA Step_updateFinding ==
  ASSUME TestInv, FlowInv, NEW i \in DOMAIN finding, updateFinding(i) PROVE IInv'
<1>1. PICK status \in {"OPEN", "CLOSED"} :
        finding' = [finding EXCEPT ![i].status = status, ![i].loose = @ \/ status = "OPEN"]
  BY DEF updateFinding
<1>2. finding \in Seq(Finding) /\ finding[i] \in Finding
      /\ UNCHANGED <<rev, truth, conf, tests, runner, st, step, review, approved>>
  BY DEF updateFinding, FlowInv, FindingTypes
<1> DEFINE f == [finding[i] EXCEPT !.status = status, !.loose = @ \/ status = "OPEN"]
<1>3. f \in Finding /\ f.status = status /\ (status = "OPEN" => f.loose)
  BY <1>2 DEF Finding
<1>4. finding' = [finding EXCEPT ![i] = f]
  BY <1>1, <1>2
<1> HIDE DEF f
<1>5. /\ finding' \in Seq(Finding) /\ DOMAIN finding' = DOMAIN finding /\ finding'[i] = f
      /\ \A j \in DOMAIN finding : j # i => finding'[j] = finding[j]
  BY <1>2, <1>3, <1>4
<1>6. FindingTypes' /\ review' \in {"none", "running", "done"}
  BY <1>2, <1>5 DEF FindingTypes, FlowInv, StateTypes
<1> QED BY <1>2, <1>3, <1>5, <1>6, FindingsMove

LEMMA NextInv == ASSUME Sensible, IInv, [Next]_vfVars PROVE IInv'
<1> USE DEF IInv
<1>1. CASE UNCHANGED vfVars
  BY <1>1, TestsStay, FlowStays DEF vfVars, TestInv, ConfTypes
<1>2. CASE Next
  BY <1>2, Step_runChecks, Step_trigger, Step_runReview, Step_resolveFindings, Step_uiQaStep,
     Step_markFindingsFixing, Step_runImplementer, Step_triggerReview, Step_completeStep,
     Step_installDependencies, Step_WorktreeMissing, Step_RunCheck, Step_FinishRun, Step_Dies,
     Step_Deliver, Step_Persist, Step_adhocReview, Step_updateFinding DEF Next
<1> QED BY <1>1, <1>2

-----------------------------------------------------------------------------
(* What the invariant implies. *)

LEMMA TypesHold == ASSUME Sensible, IInv PROVE TypeOK
<1>1. (\A i \in DOMAIN tests : tests[i] \in TestRun) /\ \A i \in DOMAIN finding : finding[i] \in Finding
  BY DEF IInv, TestInv, FlowInv, TestTypes, FindingTypes
<1>2. TestRun = [wf : BOOLEAN, shared : BOOLEAN, status : Finished \cup {"QUEUED", "RUNNING"},
                 results : [Check \cup {"install"} ->
                              {"none", "PASSED", "FAILED", "TIMEOUT", "SKIPPED"}]]
  BY DEF TestRun, Results, Outcome
<1>3. runner \in [Proc -> [pc : {"idle", "install", "checks"}, row : 0..MaxTests,
                          todo : SUBSET Check, failed : BOOLEAN]]
  BY DEF IInv, TestInv, RunnerTypes, Runner
<1> QED BY <1>1, <1>2, <1>3 DEF IInv, TestInv, FlowInv, ConfTypes, StateTypes, TypeOK, State, Step,
       Finding

\* Work that is complete passes the checks it was configured for.
LEMMA CompletedPass == ASSUME IInv PROVE CompletedWorkPassed
BY DEF IInv, FlowInv, Checked, right, CompletedWorkPassed

\* And the workflow's reviewer approved this revision.
LEMMA CompletedReviewed == ASSUME IInv PROVE CompletedWorkWasReviewed
BY DEF IInv, FlowInv, Reviewed, CompletedWorkWasReviewed

\* The results of a run nobody else ran account for its verdict.
LEMMA EvidenceExplains == ASSUME IInv PROVE EvidenceExplainsVerdict
<1>1. \A i \in DOMAIN tests : DOMAIN tests[i].results = Check \cup {"install"}
  <2>1. \A i \in DOMAIN tests : tests[i] \in TestRun
    BY DEF IInv, TestInv, TestTypes
  <2> QED BY <2>1 DEF TestRun, Results
<1>2. RowsExplain
  BY DEF IInv, TestInv
<1> QED BY <1>1, <1>2 DEF RowsExplain, EvidenceExplainsVerdict, blames, clears, bad

LEMMA FindingsFixed == ASSUME IInv PROVE FindingsReachAFix
BY DEF IInv, FlowInv, Unread

\* A verdict is given once.
LEMMA VerdictsStay == ASSUME Sensible, IInv, [Next]_vfVars PROVE VerdictsKept
<1> SUFFICES ASSUME NEW i \in DOMAIN tests, tests[i].status \in Finished, ~tests[i].shared
             PROVE  tests'[i].status = tests[i].status
  BY DEF VerdictsKept
<1>1. \A p \in Proc : active(p) => runner[p].row # i
  BY DEF IInv, TestInv, RowsFit
<1>2. tests \in Seq(TestRun) /\ \A p \in Proc : active(p) => runner[p].row \in DOMAIN tests
  BY DEF IInv, TestInv, TestTypes, RowsFit
<1> DEFINE Kept == tests'[i] = tests[i]
<1>3. ASSUME NEW t, tests' = Append(tests, t) PROVE Kept
  BY <1>2, <1>3
<1>4. ASSUME runChecks PROVE Kept
  <2> DEFINE t == [wf |-> TRUE, status |-> "QUEUED", results |-> NoResults, shared |-> FALSE]
             n == Len(tests) + 1
  <2>1. tests' = [Append(tests, t) EXCEPT ![n].status = "RUNNING"]
    BY <1>4 DEF runChecks, createRun
  <2> HIDE DEF t
  <2>2. i \in DOMAIN Append(tests, t) /\ i # n /\ Append(tests, t)[i] = tests[i]
    BY <1>2
  <2> QED BY <2>1, <2>2
<1>5. ASSUME trigger PROVE Kept
  BY <1>3, <1>5 DEF trigger, createRun
<1>6. ASSUME NEW p \in Proc, \/ installDependencies(p) \/ WorktreeMissing(p)
                             \/ RunCheck(p) \/ FinishRun(p) \/ Dies(p)
      PROVE  Kept
  <2>1. active(p)
    BY <1>6 DEF installDependencies, WorktreeMissing, RunCheck, FinishRun, Dies, active
  <2>2. runner[p].row # i
    BY <1>1, <2>1
  <2>3. CASE installDependencies(p)
    BY <1>2, <2>2, <2>3 DEF installDependencies
  <2>4. CASE WorktreeMissing(p)
    BY <1>2, <2>2, <2>4 DEF WorktreeMissing
  <2>5. CASE RunCheck(p)
    <3>1. \E o, slot : tests' = [tests EXCEPT ![runner[p].row].results[slot] = o]
      BY <2>5, Decides DEF IInv
    <3> QED BY <1>2, <2>2, <3>1
  <2>6. CASE FinishRun(p)
    BY <1>2, <2>2, <2>6 DEF FinishRun
  <2>7. CASE Dies(p)
    BY <2>7 DEF Dies
  <2> QED BY <1>6, <2>3, <2>4, <2>5, <2>6, <2>7
<1>7. ASSUME NEW p \in Job, Deliver(p) PROVE Kept
  <2>1. PICK j \in DOMAIN tests :
          /\ deliverable(j)
          /\ \E u \in BOOLEAN : \E v : tests' = [tests EXCEPT ![j].status = "RUNNING", ![j].shared = v]
    BY <1>7 DEF Deliver
  <2>2. j # i
    BY <2>1 DEF deliverable
  <2> QED BY <1>2, <2>1, <2>2
<1>8. CASE UNCHANGED tests
  BY <1>8
<1>9. \/ runChecks \/ trigger \/ UNCHANGED tests
      \/ \E p \in Proc : \/ installDependencies(p) \/ WorktreeMissing(p)
                         \/ RunCheck(p) \/ FinishRun(p) \/ Dies(p)
      \/ \E p \in Job : Deliver(p)
  BY DEF Next, vfVars, runReview, resolveFindings, uiQaStep, markFindingsFixing, runImplementer,
     triggerReview, completeStep, Persist, adhocReview, updateFinding
<1> QED BY <1>4, <1>5, <1>6, <1>7, <1>8, <1>9

-----------------------------------------------------------------------------
(***************************************************************************)
(* For any checks, jobs and numbers of fixes, runs and findings: work      *)
(* completes only on a revision that passes its checks and that the        *)
(* workflow's reviewer approved, results explain verdicts, and an approval *)
(* resolves only findings a fix was given.                                 *)
(***************************************************************************)
THEOREM JudgementIsSound ==
  ASSUME Sensible
  PROVE  Spec => [](/\ TypeOK /\ CompletedWorkPassed /\ CompletedWorkWasReviewed
                    /\ EvidenceExplainsVerdict /\ FindingsReachAFix)
<1>1. Init => IInv
  BY InitInv
<1>2. IInv /\ [Next]_vfVars => IInv'
  BY NextInv
<1>3. IInv => /\ TypeOK /\ CompletedWorkPassed /\ CompletedWorkWasReviewed
              /\ EvidenceExplainsVerdict /\ FindingsReachAFix
  BY TypesHold, CompletedPass, CompletedReviewed, EvidenceExplains, FindingsFixed
<1> QED BY <1>1, <1>2, <1>3, PTL DEF Spec

\* The verdict of a finished run stays, for any number of deliveries, unless
\* two of them ran it at once.
THEOREM VerdictsAreGivenOnce == ASSUME Sensible PROVE Spec => [][VerdictsKept]_vfVars
<1>1. Init => IInv
  BY InitInv
<1>2. IInv /\ [Next]_vfVars => IInv'
  BY NextInv
<1>3. IInv /\ [Next]_vfVars => [VerdictsKept]_vfVars
  BY VerdictsStay
<1> QED BY <1>1, <1>2, <1>3, PTL DEF Spec

-----------------------------------------------------------------------------
(* The delivery of the work. *)

PrSensible == MaxDeliveries \in Nat /\ MaxReceipts \in Nat

Sent == {"mark", "find", "create", "refind", "lookup", "record"}
Row == [number : Nat, linked : BOOLEAN, local : BOOLEAN, status : Status]
Run == [pc : {"idle", "prepare", "placeholder", "push", "complete"} \cup Sent, commit : Nat,
        tries : Nat, own : BOOLEAN, number : Nat, ver : Nat, byNumber : Nat, byTask : Nat]
Written == [ver : Nat, ooo : BOOLEAN]
Event == [kind : {"push", "pull_request"}, number : Nat, ver : Nat, applied : Nat,
          status : {"none", "RECEIVED", "FAILED", "PROCESSED"}, stale : BOOLEAN]
Request == [pc : {"idle", "create", "claim", "process"}, ev : Nat,
            seen : {"none", "RECEIVED", "FAILED", "PROCESSED"}]
Passed == [own : BOOLEAN, commit : Nat, head : Nat, pulls : Nat]

Counters ==
  /\ home \in {"LOCAL", "GITHUB"} /\ pushed \in BOOLEAN
  /\ deliveries \in 0..MaxDeliveries /\ receipts \in 0..MaxReceipts
  /\ commits \in 0..deliveries /\ head \in 0..commits

\* A pull request has a state, and no later one was written than it has.
Pulls ==
  /\ hist \in Seq(Seq(Remote)) /\ stored \in Seq(Written) /\ Len(stored) = Len(hist)
  /\ \A n \in DOMAIN hist : hist[n] # <<>> /\ stored[n].ver <= Len(hist[n])

\* The row of a number is the only one, and says what was last written of it.
Table ==
  /\ rows \in Seq(Row)
  /\ \A i \in DOMAIN rows : IF rows[i].local THEN rows[i].linked /\ rows[i].number = 0
                            ELSE rows[i].number \in DOMAIN hist
  /\ \A i, j \in DOMAIN rows :
       i # j => (rows[i].number # rows[j].number \/ rows[i].number = 0)
  /\ \A i \in DOMAIN rows : ~rows[i].local =>
       LET n == rows[i].number
       IN stored[n].ver >= 1 /\ rows[i].status = statusOf(hist[n][stored[n].ver])

LocalClosed(r) == \A i \in DOMAIN r : r[i].local => r[i].status # "OPEN"

\* What a run knows: what it pushed has arrived, the placeholders it closed
\* stay closed, and the numbers and rows it remembers exist.
RunFits(x, ho, co, he, hi, ro) ==
  /\ x.commit <= co
  /\ x.pc \in Sent \/ x.own => x.commit <= he
  /\ x.pc \in Sent \cup {"push"} \/ x.own => ho = "GITHUB" /\ LocalClosed(ro)
  /\ x.pc = "placeholder" => ho = "LOCAL"
  /\ x.pc \in {"lookup", "record"} => /\ x.number \in DOMAIN hi
                                      /\ x.ver \in 1..Len(hi[x.number])
  /\ x.pc = "record" => /\ x.byNumber \in DOMAIN ro \cup {0}
                        /\ x.byTask \in DOMAIN ro \cup {0}

Runs ==
  /\ delivery \in [Deliverer -> Run]
  /\ \A w \in Deliverer : RunFits(delivery[w], home, commits, head, hist, rows)

\* What COMPLETE let through was delivered.
Ends ==
  /\ done \subseteq Passed
  /\ \A d \in done : /\ home = "GITHUB" => d.pulls > 0 /\ (d.own => d.head >= d.commit)
                     /\ d.own => home = "GITHUB" /\ LocalClosed(rows)

\* A report is on a state the request had; once it took effect, that state was
\* written, and no older one is the last.
EventFits(e, hi, wr) ==
  /\ e.kind = "push" => e.number = 0
  /\ e.kind = "pull_request" =>
       /\ e.number \in DOMAIN hi /\ e.ver \in 1..Len(hi[e.number])
       /\ e.status = "PROCESSED" => wr[e.number].ooo \/ e.ver <= wr[e.number].ver

Events ==
  /\ event \in Seq(Event)
  /\ \A e \in DOMAIN event : EventFits(event[e], hist, stored)

\* One handler at most processes a delivery nobody took for abandoned.
Once(e, ev, ha) ==
  /\ ev[e].applied <= 1 /\ (ev[e].applied = 1 => ev[e].status = "PROCESSED")
  /\ \A h \in Handler : ha[h].ev = e =>
       /\ ha[h].pc = "process" => ev[e].status = "RECEIVED" /\ ev[e].applied = 0
       /\ ha[h].pc = "claim" => ha[h].seen = "FAILED"
  /\ \A h, k \in Handler :
       (/\ ha[h].ev = e /\ ha[h].pc = "process"
        /\ ha[k].ev = e /\ ha[k].pc = "process") => h = k

Handlers ==
  /\ handler \in [Handler -> Request]
  /\ \A h \in Handler : handler[h].pc # "idle" => handler[h].ev \in DOMAIN event
  /\ \A e \in DOMAIN event : ~event[e].stale => Once(e, event, handler)

PrInv == Counters /\ Pulls /\ Table /\ Runs /\ Ends /\ Events /\ Handlers

-----------------------------------------------------------------------------
(* The rows of a number. *)

LEMMA FirstOf ==
  ASSUME NEW S, S \subseteq Nat
  PROVE  IF S = {} THEN firstOf(S) = 0 ELSE firstOf(S) \in S
<1>1. ASSUME S # {} PROVE \E i \in S : \A j \in S : i <= j
  <2>1. PICK i \in S : \A j \in S : ~(<<j, i>> \in OpToRel(<, Nat))
    BY <1>1, NatLessThanWellFounded, WFMin
  <2>2. \A j \in S : ~(j < i)
    BY <2>1 DEF OpToRel
  <2> QED BY <2>2
<1> QED BY <1>1 DEF firstOf

\* rowOf finds the only row of a number, if there is one.
LEMMA RowOf ==
  ASSUME Table, NEW n \in Nat \ {0}
  PROVE  IF rowOf(n) = 0 THEN \A i \in DOMAIN rows : rows[i].number # n
         ELSE /\ rowOf(n) \in DOMAIN rows /\ rows[rowOf(n)].number = n
              /\ \A i \in DOMAIN rows : rows[i].number = n => i = rowOf(n)
<1> DEFINE S == {i \in DOMAIN rows : rows[i].number = n}
<1>1. S \subseteq Nat /\ 0 \notin S
  BY DEF Table
<1>2. rowOf(n) = firstOf(S)
  BY DEF rowOf
<1>3. IF S = {} THEN rowOf(n) = 0 ELSE rowOf(n) \in S
  BY <1>1, <1>2, FirstOf
<1> QED BY <1>1, <1>3 DEF Table

LEMMA OpenPulls == ASSUME Pulls, openPulls # {} PROVE firstOf(openPulls) \in DOMAIN hist
<1>1. openPulls \subseteq Nat /\ openPulls \subseteq DOMAIN hist
  BY DEF openPulls, Pulls
<1> QED BY <1>1, FirstOf

LEMMA StatusOf == ASSUME NEW p PROVE statusOf(p) \in Status
BY DEF statusOf, Status

-----------------------------------------------------------------------------
LEMMA PrInitInv == ASSUME PrSensible, PrInit PROVE PrInv
<1>1. Counters
  <2>1. /\ home \in {"LOCAL", "GITHUB"} /\ pushed = FALSE /\ deliveries = 0 /\ receipts = 0
        /\ commits = 0 /\ head = 0
    BY DEF PrInit
  <2>2. pushed \in BOOLEAN
    BY <2>1
  <2>3. /\ deliveries \in 0..MaxDeliveries /\ receipts \in 0..MaxReceipts
        /\ commits \in 0..deliveries /\ head \in 0..commits
    BY <2>1 DEF PrSensible
  <2> QED BY <2>1, <2>2, <2>3 DEF Counters
<1>6. Pulls
  <2>1. <<>> \in Seq(Seq(Remote)) /\ <<>> \in Seq(Written) /\ DOMAIN <<>> = {} /\ Len(<<>>) = 0
    OBVIOUS
  <2> QED BY <2>1 DEF PrInit, Pulls
<1>7. Events
  <2>1. <<>> \in Seq(Event) /\ DOMAIN <<>> = {}
    OBVIOUS
  <2> QED BY <2>1 DEF PrInit, Events
<1>2. Table
  <2> DEFINE r == linkedRow(0, TRUE, "OPEN")
  <2>1. r \in Row /\ r.local /\ r.linked /\ r.number = 0
    BY DEF linkedRow, Row, Status
  <2> HIDE DEF r
  <2>2. \A s \in {<<>>, <<r>>} : s \in Seq(Row) /\ \A i \in DOMAIN s : i = 1 /\ s[i] = r
    <3>1. <<>> \in Seq(Row) /\ DOMAIN <<>> = {}
      OBVIOUS
    <3>2. <<r>> \in Seq(Row) /\ DOMAIN <<r>> = {1} /\ <<r>>[1] = r
      BY <2>1
    <3> QED BY <3>1, <3>2
  <2>3. rows \in {<<>>, <<r>>}
    BY DEF PrInit, r
  <2>4. rows \in Seq(Row) /\ \A i \in DOMAIN rows : i = 1 /\ rows[i] = r
    BY <2>2, <2>3
  <2> QED BY <2>1, <2>4 DEF Table
<1>3. Runs
  <2>1. NoRun \in Run
    BY DEF NoRun, Run
  <2>2. RunFits(NoRun, home, commits, head, hist, rows)
    BY DEF RunFits, NoRun, Sent, PrInit
  <2> QED BY <2>1, <2>2 DEF PrInit, Runs
<1>4. Ends
  BY DEF PrInit, Ends
<1>5. Handlers
  <2>1. Free \in Request /\ Free.pc = "idle"
    BY DEF Free, Request
  <2> QED BY <2>1 DEF PrInit, Handlers
<1> QED BY <1>1, <1>2, <1>3, <1>4, <1>5, <1>6, <1>7 DEF PrInv

\* GitHub's history and the rows only grow, and closed placeholders stay.
Grows ==
  /\ UNCHANGED home /\ commits <= commits' /\ head <= head'
  /\ \A n \in DOMAIN hist : n \in DOMAIN hist' /\ Len(hist[n]) <= Len(hist'[n])
  /\ DOMAIN rows \subseteq DOMAIN rows'
  /\ home = "GITHUB" /\ LocalClosed(rows) => LocalClosed(rows')

\* What was written only becomes newer, or is marked.
Advances ==
  \A n \in DOMAIN hist : /\ n \in DOMAIN hist' /\ Len(hist[n]) <= Len(hist'[n])
                         /\ stored'[n].ooo \/ (~stored[n].ooo /\ stored[n].ver <= stored'[n].ver)

LEMMA FitsOn ==
  ASSUME Counters, Counters', Pulls, Pulls', NEW x \in Run, Grows,
         RunFits(x, home, commits, head, hist, rows)
  PROVE  RunFits(x, home', commits', head', hist', rows')
<1>1. \A n \in DOMAIN hist : Len(hist[n]) \in Nat /\ n \in DOMAIN hist' /\ Len(hist'[n]) \in Nat
                             /\ Len(hist[n]) <= Len(hist'[n])
  BY DEF Grows, Pulls
<1>2. /\ x.commit \in Nat /\ x.ver \in Nat /\ commits \in Nat /\ commits' \in Nat
      /\ head \in Nat /\ head' \in Nat /\ commits <= commits' /\ head <= head'
  BY DEF Counters, Run, Grows
<1>3. /\ x.commit <= commits'
      /\ x.pc \in Sent \/ x.own => x.commit <= head'
  BY <1>2 DEF RunFits
<1>4. /\ x.pc \in Sent \cup {"push"} \/ x.own => home' = "GITHUB" /\ LocalClosed(rows')
      /\ x.pc = "placeholder" => home' = "LOCAL"
      /\ x.pc = "record" => /\ x.byNumber \in DOMAIN rows' \cup {0}
                            /\ x.byTask \in DOMAIN rows' \cup {0}
  BY DEF RunFits, Grows
<1>5. x.pc \in {"lookup", "record"} => /\ x.number \in DOMAIN hist'
                                      /\ x.ver \in 1..Len(hist'[x.number])
  BY <1>1, <1>2 DEF RunFits
<1> QED BY <1>3, <1>4, <1>5 DEF RunFits

LEMMA RunMoves ==
  ASSUME Counters, Counters', Pulls, Pulls', Runs, Grows, NEW w \in Deliverer, NEW x \in Run,
         delivery' = [delivery EXCEPT ![w] = x],
         RunFits(x, home', commits', head', hist', rows')
  PROVE  Runs'
<1>1. \A v \in Deliverer : delivery[v] \in Run /\ RunFits(delivery[v], home, commits, head, hist, rows)
  BY DEF Runs
<1>2. \A v \in Deliverer : RunFits(delivery[v], home', commits', head', hist', rows')
  BY <1>1, FitsOn
<1>3. \A v \in Deliverer : delivery'[v] = IF v = w THEN x ELSE delivery[v]
  BY DEF Runs
<1> QED BY <1>2, <1>3 DEF Runs

LEMMA RunsStay ==
  ASSUME Counters, Counters', Pulls, Pulls', Runs, Grows, UNCHANGED delivery
  PROVE  Runs'
BY FitsOn DEF Runs

LEMMA EndsStay ==
  ASSUME Ends, UNCHANGED <<done, home>>, home = "GITHUB" /\ LocalClosed(rows) => LocalClosed(rows')
  PROVE  Ends'
BY DEF Ends

LEMMA PullTypes ==
  ASSUME Pulls, NEW n \in DOMAIN hist
  PROVE  /\ hist[n] \in Seq(Remote) /\ Len(hist[n]) \in Nat \ {0} /\ n \in DOMAIN stored
         /\ stored[n] \in Written /\ stored[n].ver \in Nat /\ stored[n].ooo \in BOOLEAN
         /\ stored[n].ver <= Len(hist[n]) /\ n \in Nat \ {0} /\ Len(hist) \in Nat
         /\ DOMAIN hist = 1..Len(hist)
<1>1. DOMAIN stored = 1..Len(stored) /\ DOMAIN hist = 1..Len(hist) /\ Len(hist) \in Nat
  BY DEF Pulls
<1>2. n \in DOMAIN stored /\ hist[n] \in Seq(Remote) /\ hist[n] # <<>>
  BY <1>1 DEF Pulls
<1>3. stored[n] \in Written
  BY <1>2 DEF Pulls
<1>4. Len(hist[n]) \in Nat \ {0}
  BY <1>2
<1> QED BY <1>1, <1>2, <1>3, <1>4 DEF Pulls, Written

\* What fits goes on fitting.
LEMMA EventFitsOn ==
  ASSUME Advances, Pulls, Pulls', NEW e \in Event, EventFits(e, hist, stored)
  PROVE  EventFits(e, hist', stored')
<1> SUFFICES ASSUME e.kind = "pull_request"
             PROVE  /\ e.number \in DOMAIN hist' /\ e.ver \in 1..Len(hist'[e.number])
                    /\ e.status = "PROCESSED" => \/ stored'[e.number].ooo
                                                 \/ e.ver <= stored'[e.number].ver
  BY DEF EventFits
<1> DEFINE n == e.number
<1>1. /\ n \in DOMAIN hist /\ e.ver \in 1..Len(hist[n])
      /\ e.status = "PROCESSED" => stored[n].ooo \/ e.ver <= stored[n].ver
  BY DEF EventFits
<1>2. n \in DOMAIN hist' /\ Len(hist[n]) \in Nat /\ Len(hist'[n]) \in Nat
      /\ Len(hist[n]) <= Len(hist'[n])
  BY <1>1 DEF Advances, Pulls
<1>3. stored[n].ver \in Nat /\ stored'[n].ver \in Nat
  <2>1. stored[n].ver \in Nat
    BY <1>1, PullTypes
  <2>2. DOMAIN stored' = 1..Len(stored') /\ DOMAIN hist' = 1..Len(hist')
        /\ stored' \in Seq(Written) /\ Len(stored') = Len(hist')
    BY DEF Pulls
  <2>3. stored'[n] \in Written
    BY <1>2, <2>2
  <2> QED BY <2>1, <2>3 DEF Written
<1>4. stored'[n].ooo \/ (~stored[n].ooo /\ stored[n].ver <= stored'[n].ver)
  BY <1>1 DEF Advances
<1> HIDE DEF n
<1>5. e.ver \in 1..Len(hist'[n])
  BY <1>1, <1>2
<1>6. e.status = "PROCESSED" => stored'[n].ooo \/ e.ver <= stored'[n].ver
  BY <1>1, <1>2, <1>3, <1>4
<1> QED BY <1>2, <1>5, <1>6 DEF n

LEMMA EventsStay == ASSUME Events, Advances, Pulls, Pulls', UNCHANGED event PROVE Events'
BY EventFitsOn DEF Events

LEMMA HandlersStay == ASSUME Handlers, UNCHANGED <<handler, event>> PROVE Handlers'
BY DEF Handlers, Once

LEMMA SameTable == ASSUME Pulls, UNCHANGED <<hist, stored>> PROVE Pulls' /\ Advances
<1>1. \A n \in DOMAIN hist : /\ Len(hist[n]) \in Nat /\ stored[n].ver \in Nat
                             /\ stored[n].ooo \in BOOLEAN
  BY PullTypes
<1>2. Advances
  BY <1>1 DEF Advances
<1> QED BY <1>2 DEF Pulls

\* A run goes on and nothing else changes.
LEMMA OnlyRun ==
  ASSUME PrInv, NEW w \in Deliverer, NEW x \in Run,
         UNCHANGED <<home, commits, head, hist, rows, stored, pushed, deliveries, done, event,
                     handler, receipts>>,
         delivery' = [delivery EXCEPT ![w] = x],
         RunFits(x, home, commits, head, hist, rows)
  PROVE  PrInv'
<1> USE DEF PrInv
<1>1. Counters' /\ Pulls' /\ Table' /\ Events' /\ Handlers' /\ Ends'
  BY SameTable, EventsStay, HandlersStay, EndsStay DEF Counters, Table
<1>2. Grows
  BY DEF Grows, Counters, Pulls
<1>3. Runs'
  BY <1>1, <1>2, RunMoves
<1> QED BY <1>1, <1>3

\* A run goes on to another place.
LEMMA RunGoes ==
  ASSUME Runs, NEW w \in Deliverer, NEW pc, goto(w, pc),
         pc \in {"idle", "prepare", "placeholder", "push", "complete"} \cup Sent
  PROVE  \E x \in Run : /\ delivery' = [delivery EXCEPT ![w] = x] /\ x.pc = pc
                        /\ x.commit = delivery[w].commit /\ x.own = delivery[w].own
                        /\ x.number = delivery[w].number /\ x.ver = delivery[w].ver
<1> DEFINE x == [delivery[w] EXCEPT !.pc = pc]
<1>1. delivery[w] \in Run
  BY DEF Runs
<1>2. /\ x \in Run /\ x.pc = pc /\ x.commit = delivery[w].commit /\ x.own = delivery[w].own
      /\ x.number = delivery[w].number /\ x.ver = delivery[w].ver
  BY <1>1 DEF Run
<1>3. delivery' = [delivery EXCEPT ![w] = x]
  BY DEF goto
<1> HIDE DEF x
<1> QED BY <1>2, <1>3

\* An attempt fails.
LEMMA Fails ==
  ASSUME Runs, NEW w \in Deliverer, failed(w)
  PROVE  \E x \in Run : /\ delivery' = [delivery EXCEPT ![w] = x]
                        /\ x.pc \in {"prepare", "complete"}
                        /\ x.commit = delivery[w].commit /\ x.own = delivery[w].own
                        /\ RunFits(x, home, commits, head, hist, rows)
<1> DEFINE pc == IF delivery[w].tries + 1 < MaxAttempts THEN "prepare" ELSE "complete"
           x == [delivery[w] EXCEPT !.tries = delivery[w].tries + 1, !.pc = pc]
<1>1. delivery[w] \in Run /\ RunFits(delivery[w], home, commits, head, hist, rows)
  BY DEF Runs
<1>2. pc \in {"prepare", "complete"}
  OBVIOUS
<1>3. delivery' = [delivery EXCEPT ![w] = x]
  BY <1>1 DEF failed, Run
<1> HIDE DEF pc
<1>4. /\ x \in Run /\ x.pc = pc /\ x.commit = delivery[w].commit /\ x.own = delivery[w].own
  <2>1. delivery[w].tries + 1 \in Nat
    BY <1>1 DEF Run
  <2> DEFINE t == delivery[w].tries + 1
  <2> HIDE DEF t
  <2>2. x = [delivery[w] EXCEPT !.tries = t, !.pc = pc]
    BY DEF t
  <2>3. t \in Nat
    BY <2>1 DEF t
  <2> HIDE DEF x
  <2> QED BY <1>1, <1>2, <2>2, <2>3 DEF Run
<1> HIDE DEF x
<1>5. RunFits(x, home, commits, head, hist, rows)
  BY <1>1, <1>2, <1>4 DEF RunFits, Sent
<1> QED BY <1>2, <1>3, <1>4, <1>5

-----------------------------------------------------------------------------
(* Reports. *)

\* A new delivery of a webhook, or none: no request has it yet.
LEMMA Reported ==
  ASSUME Events, Handlers, Pulls, Pulls', Advances, UNCHANGED handler,
         NEW k \in {"push", "pull_request"}, NEW n \in Nat, NEW v \in Nat, report(k, n, v),
         k = "push" => n = 0,
         k = "pull_request" => n \in DOMAIN hist' /\ v \in 1..Len(hist'[n])
  PROVE  Events' /\ Handlers'
<1> DEFINE e == [kind |-> k, number |-> n, ver |-> v, status |-> "none", applied |-> 0,
                 stale |-> FALSE]
<1>1. CASE UNCHANGED event
  BY <1>1, EventsStay, HandlersStay
<1>2. CASE event' = Append(event, e)
  <2>1. e \in Event /\ e.status = "none" /\ e.applied = 0 /\ e.kind = k /\ e.number = n
        /\ e.ver = v
    BY DEF Event
  <2>2. EventFits(e, hist', stored')
    BY <2>1 DEF EventFits
  <2> HIDE DEF e
  <2>3. /\ event \in Seq(Event) /\ event' \in Seq(Event) /\ DOMAIN event = 1..Len(event)
        /\ DOMAIN event' = 1..(Len(event) + 1) /\ Len(event) \in Nat
        /\ event'[Len(event) + 1] = e /\ \A i \in DOMAIN event : event'[i] = event[i]
    BY <1>2, <2>1 DEF Events
  <2>4. \A i \in DOMAIN event' : \/ i \in DOMAIN event /\ event'[i] = event[i]
                                 \/ i \notin DOMAIN event /\ event'[i] = e
    BY <2>3
  <2>5. DOMAIN event \subseteq DOMAIN event' /\ \A i \in DOMAIN event : event[i] \in Event
    BY <2>3
  <2> HIDE DEF e
  <2>6. Events'
    <3>1. \A i \in DOMAIN event : EventFits(event[i], hist', stored')
      BY <2>5, EventFitsOn DEF Events
    <3> QED BY <2>2, <2>3, <2>4, <3>1 DEF Events
  <2>7. Handlers'
    <3>1. \A h \in Handler : handler[h].pc # "idle" => handler[h].ev \in DOMAIN event
      BY DEF Handlers
    <3>2. \A i \in DOMAIN event' : ~event'[i].stale => Once(i, event', handler)
      <4> SUFFICES ASSUME NEW i \in DOMAIN event', ~event'[i].stale
                   PROVE  Once(i, event', handler)
        OBVIOUS
      <4>1. CASE i \in DOMAIN event /\ event'[i] = event[i]
        BY <4>1 DEF Handlers, Once
      <4>2. CASE i \notin DOMAIN event /\ event'[i] = e
        <5>1. \A h \in Handler : handler[h].ev = i => handler[h].pc = "idle"
          BY <3>1, <4>2
        <5>2. event'[i].applied = 0
          BY <2>1, <4>2
        <5>3. event'[i].applied <= 1 /\ event'[i].applied # 1
          BY <5>2
        <5>4. \A h \in Handler :
                ~(handler[h].ev = i /\ (handler[h].pc = "process" \/ handler[h].pc = "claim"))
          BY <5>1
        <5> QED BY <5>3, <5>4, Zenon DEF Once
      <4> QED BY <2>4, <4>1, <4>2
    <3> QED BY <2>5, <3>1, <3>2 DEF Handlers
  <2> QED BY <2>6, <2>7
<1> QED BY <1>1, <1>2 DEF report

-----------------------------------------------------------------------------
(* GitHub. *)

\* A pull request has one more state, or there is one more of them.
LEMMA HistoryGrows ==
  ASSUME Pulls, Table, Pulls', UNCHANGED rows,
         \A n \in DOMAIN hist :
           /\ n \in DOMAIN hist' /\ stored'[n] = stored[n] /\ Len(hist[n]) <= Len(hist'[n])
           /\ \A v \in 1..Len(hist[n]) : hist'[n][v] = hist[n][v]
  PROVE  Table' /\ Advances
<1>1. Advances
  BY PullTypes DEF Advances
<1>2. \A i \in DOMAIN rows : rows[i] \in Row
  BY DEF Table
<1>3. ASSUME NEW i \in DOMAIN rows
      PROVE  /\ IF rows[i].local THEN rows[i].linked /\ rows[i].number = 0
                ELSE rows[i].number \in DOMAIN hist'
             /\ ~rows[i].local =>
                 LET n == rows[i].number
                 IN stored'[n].ver >= 1 /\ rows[i].status = statusOf(hist'[n][stored'[n].ver])
  <2> DEFINE n == rows[i].number
  <2>1. CASE rows[i].local
    BY <2>1 DEF Table
  <2>2. CASE ~rows[i].local
    <3>1. n \in DOMAIN hist /\ stored[n].ver >= 1 /\ rows[i].status = statusOf(hist[n][stored[n].ver])
      BY <2>2 DEF Table
    <3>2. stored[n].ver \in 1..Len(hist[n])
      BY <3>1, PullTypes
    <3>3. hist'[n][stored[n].ver] = hist[n][stored[n].ver] /\ stored'[n] = stored[n]
          /\ n \in DOMAIN hist'
      BY <3>1, <3>2
    <3> QED BY <2>2, <3>1, <3>3
  <2> QED BY <2>1, <2>2
<1> QED BY <1>1, <1>3 DEF Table

LEMMA Step_Change == ASSUME PrSensible, PrInv, NEW n \in DOMAIN hist, Change(n) PROVE PrInv'
<1> USE DEF PrInv
<1>1. PICK pull \in Remote : /\ hist' = [hist EXCEPT ![n] = Append(@, pull)]
                             /\ report("pull_request", n, Len(hist[n]) + 1)
  BY DEF Change
<1>2. UNCHANGED <<home, rows, stored, pushed, head, delivery, deliveries, commits, done, handler,
                  receipts>>
  BY DEF Change, table, worker, intake
<1>3. hist \in Seq(Seq(Remote)) /\ hist[n] \in Seq(Remote) /\ n \in Nat
  BY PullTypes DEF Pulls
<1>4. /\ Append(hist[n], pull) \in Seq(Remote) /\ Len(Append(hist[n], pull)) = Len(hist[n]) + 1
      /\ Len(hist[n]) \in Nat
      /\ \A v \in 1..Len(hist[n]) : Append(hist[n], pull)[v] = hist[n][v]
  BY <1>1, <1>3
<1> DEFINE a == Append(hist[n], pull)
<1> HIDE DEF a
<1>5. hist' = [hist EXCEPT ![n] = a]
  BY <1>1 DEF a
<1>6. /\ hist' \in Seq(Seq(Remote)) /\ Len(hist') = Len(hist) /\ DOMAIN hist' = DOMAIN hist
      /\ hist'[n] = a /\ \A m \in DOMAIN hist : m # n => hist'[m] = hist[m]
  BY <1>3, <1>4, <1>5 DEF a
<1>7. a \in Seq(Remote) /\ a # <<>> /\ Len(a) = Len(hist[n]) + 1
      /\ \A v \in 1..Len(hist[n]) : a[v] = hist[n][v]
  BY <1>3, <1>4 DEF a
<1>8. Pulls'
  BY SMTT(20), <1>2, <1>6, <1>7, PullTypes DEF Pulls
<1>9. Table' /\ Advances
  <2>1. \A m \in DOMAIN hist : Len(hist[m]) \in Nat
    BY PullTypes
  <2>2. ASSUME NEW m \in DOMAIN hist
        PROVE  /\ m \in DOMAIN hist' /\ stored'[m] = stored[m] /\ Len(hist[m]) <= Len(hist'[m])
               /\ \A v \in 1..Len(hist[m]) : hist'[m][v] = hist[m][v]
    <3>1. CASE m = n
      <4>1. hist'[m] = a /\ Len(a) = Len(hist[m]) + 1 /\ m \in DOMAIN hist' /\ stored'[m] = stored[m]
        BY <1>2, <1>6, <1>7, <3>1
      <4>2. \A v \in 1..Len(hist[m]) : a[v] = hist[m][v]
        BY <1>7, <3>1
      <4>3. Len(hist[m]) <= Len(hist'[m])
        BY <2>1, <4>1
      <4> QED BY <4>1, <4>2, <4>3
    <3>2. CASE m # n
      BY <1>2, <1>6, <2>1, <3>2
    <3> QED BY <3>1, <3>2
  <2> QED BY <1>2, <1>8, <2>2, HistoryGrows
<1>10. Counters' /\ Ends'
  BY <1>2, EndsStay DEF Counters
<1>11. Grows
  BY <1>2, <1>9 DEF Grows, Counters, Advances
<1>12. Runs'
  BY <1>2, <1>8, <1>10, <1>11, RunsStay
<1>13. Events' /\ Handlers'
  BY <1>1, <1>2, <1>3, <1>4, <1>6, <1>7, <1>8, <1>9, Reported
<1> QED BY <1>8, <1>9, <1>10, <1>12, <1>13

-----------------------------------------------------------------------------
(* Runs of the task. *)

\* Where a run goes without changing anything else.
LEMMA GoesOn ==
  ASSUME PrInv, NEW w \in Deliverer, NEW pc, goto(w, pc),
         pc \in {"idle", "prepare", "placeholder", "push", "complete"} \cup Sent,
         UNCHANGED <<home, commits, head, hist, rows, stored, pushed, deliveries, done, event,
                     handler, receipts>>,
         pc = "placeholder" => home = "LOCAL",
         pc \in Sent => delivery[w].pc \in Sent,
         pc = "push" => delivery[w].pc = "push",
         pc \notin {"lookup", "record"}
  PROVE  PrInv'
<1> USE DEF PrInv
<1>1. PICK x \in Run : /\ delivery' = [delivery EXCEPT ![w] = x] /\ x.pc = pc
                       /\ x.commit = delivery[w].commit /\ x.own = delivery[w].own
                       /\ x.number = delivery[w].number /\ x.ver = delivery[w].ver
  BY RunGoes
<1>2. RunFits(delivery[w], home, commits, head, hist, rows)
  BY DEF Runs
<1>3. RunFits(x, home, commits, head, hist, rows)
  BY <1>1, <1>2 DEF RunFits
<1> QED BY <1>1, <1>3, OnlyRun

\* A failed attempt that changed nothing.
LEMMA FailsAlone ==
  ASSUME PrInv, NEW w \in Deliverer, failed(w),
         UNCHANGED <<home, commits, head, hist, rows, stored, pushed, deliveries, done, event,
                     handler, receipts>>
  PROVE  PrInv'
<1>1. PICK x \in Run : /\ delivery' = [delivery EXCEPT ![w] = x]
                       /\ RunFits(x, home, commits, head, hist, rows)
  BY Fails DEF PrInv
<1> QED BY <1>1, OnlyRun

LEMMA Step_Approved == ASSUME PrSensible, PrInv, NEW w \in Deliverer, Approved(w) PROVE PrInv'
<1> USE DEF PrInv
<1>1. PICK more \in {0, 1} :
       /\ commits' = commits + more
       /\ delivery' = [delivery EXCEPT
            ![w] = [NoRun EXCEPT !.pc = "prepare", !.commit = commits + more]]
  BY DEF Approved
<1>2. /\ UNCHANGED <<home, head, hist, rows, stored, pushed, done, event, handler, receipts>>
      /\ deliveries' = deliveries + 1 /\ deliveries < MaxDeliveries
  BY DEF Approved, remote, table, intake
<1> DEFINE x == [NoRun EXCEPT !.pc = "prepare", !.commit = commits + more]
<1>3. commits \in Nat /\ commits + more \in Nat /\ head <= commits /\ more \in 0..1
  BY <1>1 DEF Counters
<1>4. x \in Run /\ x.pc = "prepare" /\ x.commit = commits' /\ x.own = FALSE
  BY <1>1, <1>3 DEF NoRun, Run, Sent
<1>5. delivery' = [delivery EXCEPT ![w] = x]
  BY <1>1
<1> HIDE DEF x
<1>6. Counters'
  BY <1>1, <1>2, <1>3 DEF Counters, PrSensible
<1>7. Pulls' /\ Table' /\ Ends' /\ Events' /\ Handlers'
  BY <1>2, SameTable, EndsStay, EventsStay, HandlersStay DEF Table
<1>8. Grows
  BY <1>1, <1>2, <1>3 DEF Grows, Counters, Pulls
<1>9. RunFits(x, home', commits', head', hist', rows')
  BY <1>1, <1>3, <1>4 DEF RunFits, Sent
<1> QED BY <1>5, <1>4, <1>6, <1>7, <1>8, <1>9, RunMoves

LEMMA Step_openPlaceholder == ASSUME PrInv, NEW w \in Deliverer, openPlaceholder(w) PROVE PrInv'
<1>1. goto(w, "complete") \/ goto(w, "placeholder")
  BY DEF openPlaceholder
<1>2. home = "LOCAL" /\ UNCHANGED <<home, commits, head, hist, rows, stored, pushed, deliveries,
                                     done, event, handler, receipts>>
  BY DEF openPlaceholder, remote, table, intake
<1> QED BY <1>1, <1>2, GoesOn DEF Sent

LEMMA Step_markPushed == ASSUME PrInv, NEW w \in Deliverer, markPushed(w) PROVE PrInv'
<1> USE DEF PrInv
<1>1. /\ delivery[w].pc = "mark" /\ goto(w, "find") /\ pushed' = TRUE
      /\ UNCHANGED <<home, commits, head, hist, rows, stored, deliveries, done, event, handler,
                     receipts>>
  BY DEF markPushed, at, remote, table, intake
<1>2. PICK x \in Run : /\ delivery' = [delivery EXCEPT ![w] = x] /\ x.pc = "find"
                       /\ x.commit = delivery[w].commit /\ x.own = delivery[w].own
  BY <1>1, RunGoes DEF Sent
<1>3. RunFits(delivery[w], home, commits, head, hist, rows)
  BY DEF Runs
<1>4. Counters' /\ Pulls' /\ Table' /\ Ends' /\ Events' /\ Handlers'
  BY <1>1, SameTable, EndsStay, EventsStay, HandlersStay DEF Table, Counters
<1>5. Grows
  BY <1>1 DEF Grows, Counters, Pulls
<1>6. RunFits(x, home', commits', head', hist', rows')
  BY <1>1, <1>2, <1>3 DEF RunFits, Sent
<1> QED BY <1>2, <1>4, <1>5, <1>6, RunMoves

LEMMA Step_RequestFails == ASSUME PrInv, NEW w \in Deliverer, RequestFails(w) PROVE PrInv'
BY FailsAlone DEF RequestFails, remote, table, intake

LEMMA Step_Die == ASSUME PrInv, NEW w \in Deliverer, Die(w) PROVE PrInv'
BY FailsAlone DEF Die, remote, table, intake

\* A run takes an open pull request, in the state it is in.
LEMMA Finds ==
  ASSUME PrInv, NEW w \in Deliverer, NEW n \in DOMAIN hist, found(w, n), delivery[w].pc \in Sent,
         UNCHANGED <<home, commits, head, hist, rows, stored, pushed, deliveries, done, event,
                     handler, receipts>>
  PROVE  PrInv'
<1> DEFINE x == [delivery[w] EXCEPT !.pc = "lookup", !.number = n, !.ver = Len(hist[n])]
<1>1. delivery[w] \in Run /\ RunFits(delivery[w], home, commits, head, hist, rows)
  BY DEF PrInv, Runs
<1>2. n \in Nat /\ Len(hist[n]) \in Nat \ {0}
  BY PullTypes DEF PrInv
<1>3. delivery' = [delivery EXCEPT ![w] = x]
  BY DEF found, PrInv, Runs
<1>4. x \in Run /\ x.pc = "lookup" /\ x.number = n /\ x.ver = Len(hist[n])
      /\ x.commit = delivery[w].commit /\ x.own = delivery[w].own
  BY <1>1, <1>2 DEF Run, Sent
<1> HIDE DEF x
<1>5. RunFits(x, home, commits, head, hist, rows)
  BY <1>1, <1>2, <1>4 DEF RunFits, Sent
<1> QED BY <1>3, <1>4, <1>5, OnlyRun

LEMMA Step_createOrFind ==
  ASSUME PrInv, NEW w \in Deliverer, createOrFindPullRequest(w) PROVE PrInv'
<1>1. /\ delivery[w].pc = "find"
      /\ UNCHANGED <<home, commits, head, hist, rows, stored, pushed, deliveries, done, event,
                     handler, receipts>>
  BY DEF createOrFindPullRequest, at, remote, table, intake
<1>2. CASE openPulls = {} /\ goto(w, "create")
  BY <1>1, <1>2, GoesOn DEF Sent
<1>3. CASE openPulls # {} /\ found(w, firstOf(openPulls))
  BY <1>1, <1>3, OpenPulls, Finds DEF Sent, PrInv
<1> QED BY <1>2, <1>3 DEF createOrFindPullRequest

LEMMA Step_refind == ASSUME PrInv, NEW w \in Deliverer, refind(w) PROVE PrInv'
<1>1. /\ delivery[w].pc = "refind"
      /\ UNCHANGED <<home, commits, head, hist, rows, stored, pushed, deliveries, done, event,
                     handler, receipts>>
  BY DEF refind, at, remote, table, intake
<1>2. CASE openPulls = {} /\ failed(w)
  BY <1>1, <1>2, FailsAlone
<1>3. CASE openPulls # {} /\ found(w, firstOf(openPulls))
  BY <1>1, <1>3, OpenPulls, Finds DEF Sent, PrInv
<1> QED BY <1>2, <1>3 DEF refind

\* The branch goes to GitHub, or nothing does.
LEMMA Pushes ==
  ASSUME PrInv, NEW w \in Deliverer, NEW x \in Run, head' \in {head, commits},
         UNCHANGED <<home, commits, hist, rows, stored, pushed, deliveries, done, handler,
                     receipts>>,
         delivery' = [delivery EXCEPT ![w] = x], Events', Handlers',
         RunFits(x, home, commits, head', hist, rows)
  PROVE  PrInv'
<1> USE DEF PrInv
<1>1. Pulls' /\ Table' /\ Ends'
  BY SameTable, EndsStay DEF Table
<1>2. Counters' /\ Grows
  BY DEF Counters, Grows, Pulls
<1> QED BY <1>1, <1>2, RunMoves

LEMMA Step_PushFails == ASSUME PrInv, NEW w \in Deliverer, PushFails(w) PROVE PrInv'
<1> USE DEF PrInv
<1>1. /\ head' \in {head, commits} /\ failed(w)
      /\ UNCHANGED <<home, commits, hist, rows, stored, pushed, deliveries, done, event, handler,
                     receipts>>
  BY DEF PushFails, table, intake
<1>2. PICK x \in Run : /\ delivery' = [delivery EXCEPT ![w] = x]
                       /\ x.pc \in {"prepare", "complete"}
                       /\ RunFits(x, home, commits, head, hist, rows)
  BY <1>1, Fails
<1>3. RunFits(x, home, commits, head', hist, rows)
  BY <1>1, <1>2 DEF RunFits, Counters, Run
<1>4. Events' /\ Handlers'
  BY <1>1, SameTable, EventsStay, HandlersStay
<1> QED BY <1>1, <1>2, <1>3, <1>4, Pushes

LEMMA Step_push == ASSUME PrInv, NEW w \in Deliverer, push(w) PROVE PrInv'
<1> USE DEF PrInv
<1>1. /\ delivery[w].pc = "push" /\ goto(w, "mark") /\ head' = commits
      /\ UNCHANGED <<home, commits, hist, rows, stored, pushed, deliveries, done, handler,
                     receipts>>
      /\ report("push", 0, 0) \/ UNCHANGED event
  BY DEF push, at, table, intake
<1>2. PICK x \in Run : /\ delivery' = [delivery EXCEPT ![w] = x] /\ x.pc = "mark"
                       /\ x.commit = delivery[w].commit /\ x.own = delivery[w].own
  BY <1>1, RunGoes DEF Sent
<1>3. RunFits(delivery[w], home, commits, head, hist, rows)
  BY DEF Runs
<1>4. RunFits(x, home, commits, head', hist, rows)
  BY <1>1, <1>2, <1>3 DEF RunFits, Sent
<1>5. Pulls' /\ Advances
  BY <1>1, SameTable
<1>6. Events' /\ Handlers'
  BY <1>1, <1>5, EventsStay, HandlersStay, Reported
<1> QED BY <1>1, <1>2, <1>4, <1>6, Pushes

LEMMA Step_createPull == ASSUME PrInv, NEW w \in Deliverer, createPull(w) PROVE PrInv'
<1> USE DEF PrInv
<1>1. /\ delivery[w].pc = "create"
      /\ UNCHANGED <<home, commits, head, rows, pushed, deliveries, done, handler, receipts>>
  BY DEF createPull, at, intake
<1>2. CASE goto(w, "refind") /\ UNCHANGED <<hist, stored, event>>
  BY <1>1, <1>2, GoesOn DEF Sent
<1>3. CASE /\ hist' = Append(hist, <<Opened>>)
           /\ stored' = Append(stored, [ver |-> 0, ooo |-> FALSE])
           /\ report("pull_request", Len(hist'), 1)
           /\ \/ delivery' = [delivery EXCEPT ![w].pc = "lookup", ![w].number = Len(hist'),
                                              ![w].ver = 1]
              \/ failed(w)
  <2> DEFINE n == Len(hist) + 1
             new == <<Opened>>
             u == [ver |-> 0, ooo |-> FALSE]
  <2>1. new \in Seq(Remote) /\ Len(new) = 1 /\ new # <<>>
    BY DEF Opened, Remote
  <2>2. u \in Written /\ u.ver = 0
    BY DEF Written
  <2>3. hist \in Seq(Seq(Remote)) /\ stored \in Seq(Written) /\ Len(stored) = Len(hist)
    BY DEF Pulls
  <2> HIDE DEF new, u
  <2>4. /\ hist' \in Seq(Seq(Remote)) /\ Len(hist') = n /\ DOMAIN hist' = 1..n /\ n \in Nat
        /\ hist'[n] = new /\ \A m \in DOMAIN hist : m \in 1..n /\ m # n /\ hist'[m] = hist[m]
    BY <1>3, <2>1, <2>3 DEF new
  <2>5. /\ stored' \in Seq(Written) /\ Len(stored') = n
        /\ stored'[n] = u /\ \A m \in DOMAIN hist : stored'[m] = stored[m]
    BY <1>3, <2>2, <2>3 DEF u
  <2>6. \A m \in 1..n : m \in DOMAIN hist \/ m = n
    BY <2>3
  <2>7. Pulls'
    <3>1. ASSUME NEW m \in DOMAIN hist' PROVE hist'[m] # <<>> /\ stored'[m].ver <= Len(hist'[m])
      <4>1. CASE m = n
        BY <2>1, <2>2, <2>4, <2>5, <4>1
      <4>2. CASE m \in DOMAIN hist
        <5>1. hist[m] # <<>> /\ stored[m].ver <= Len(hist[m])
          BY <4>2 DEF Pulls
        <5> QED BY <2>4, <2>5, <4>2, <5>1
      <4> QED BY <2>4, <2>6, <4>1, <4>2
    <3> QED BY <2>4, <2>5, <3>1 DEF Pulls
  <2>8. \A m \in DOMAIN hist :
           /\ m \in DOMAIN hist' /\ stored'[m] = stored[m] /\ Len(hist[m]) <= Len(hist'[m])
           /\ \A v \in 1..Len(hist[m]) : hist'[m][v] = hist[m][v]
    BY <2>4, <2>5, PullTypes
  <2>9. Table' /\ Advances
    BY <1>1, <2>7, <2>8, HistoryGrows
  <2>10. Counters' /\ Ends' /\ Grows
    BY <1>1, <2>9, EndsStay DEF Counters, Grows, Advances
  <2>11. n \in DOMAIN hist' /\ 1 \in 1..Len(hist'[n])
    BY <2>1, <2>4
  <2>12. Events' /\ Handlers'
    BY <1>1, <1>3, <2>4, <2>7, <2>9, <2>11, Reported
  <2>13. delivery[w] \in Run /\ RunFits(delivery[w], home, commits, head, hist, rows)
    BY DEF Runs
  <2>14. CASE delivery' = [delivery EXCEPT ![w].pc = "lookup", ![w].number = Len(hist'),
                                           ![w].ver = 1]
    <3> DEFINE x == [delivery[w] EXCEPT !.pc = "lookup", !.number = n, !.ver = 1]
    <3>1. delivery' = [delivery EXCEPT ![w] = x]
      BY <2>4, <2>14 DEF Runs
    <3>2. x \in Run /\ x.pc = "lookup" /\ x.number = n /\ x.ver = 1
          /\ x.commit = delivery[w].commit /\ x.own = delivery[w].own
      BY <2>4, <2>13 DEF Run, Sent
    <3> HIDE DEF x
    <3>3. RunFits(x, home', commits', head', hist', rows')
      BY <1>1, <2>11, <2>13, <3>2 DEF RunFits, Sent
    <3> QED BY <2>7, <2>9, <2>10, <2>12, <3>1, <3>2, <3>3, RunMoves
  <2>15. CASE failed(w)
    <3>1. PICK x \in Run : /\ delivery' = [delivery EXCEPT ![w] = x]
                           /\ RunFits(x, home, commits, head, hist, rows)
      BY <2>15, Fails
    <3>2. RunFits(x, home', commits', head', hist', rows')
      BY <2>7, <2>10, <3>1, FitsOn
    <3> QED BY <2>7, <2>9, <2>10, <2>12, <3>1, <3>2, RunMoves
  <2> QED BY <1>3, <2>14, <2>15
<1> QED BY <1>2, <1>3 DEF createPull

LEMMA Step_lookup == ASSUME PrInv, NEW w \in Deliverer, lookup(w) PROVE PrInv'
<1> USE DEF PrInv
<1> DEFINE n == delivery[w].number
           i == rowOf(n)
           j == IF rowOf(n) # 0 THEN 0 ELSE firstOf({k \in DOMAIN rows : rows[k].linked})
           x == [delivery[w] EXCEPT !.pc = "record", !.byNumber = i, !.byTask = j]
<1>1. /\ delivery[w].pc = "lookup"
      /\ UNCHANGED <<home, commits, head, hist, rows, stored, pushed, deliveries, done, event,
                     handler, receipts>>
  BY DEF lookup, at, remote, table, intake
<1>2. delivery[w] \in Run /\ RunFits(delivery[w], home, commits, head, hist, rows)
  BY DEF Runs
<1>3. n \in DOMAIN hist /\ n \in Nat \ {0}
  BY <1>1, <1>2, PullTypes DEF RunFits
<1>4. i \in DOMAIN rows \cup {0}
  BY <1>3, RowOf
<1>5. j \in DOMAIN rows \cup {0}
  <2>1. {k \in DOMAIN rows : rows[k].linked} \subseteq Nat
    BY DEF Table
  <2> QED BY <2>1, FirstOf
<1>6. delivery' = [delivery EXCEPT ![w] = x]
  BY DEF lookup, Runs
<1>7. i \in Nat /\ j \in Nat
  BY <1>4, <1>5 DEF Table
<1> HIDE DEF i, j
<1>8. x \in Run /\ x.pc = "record" /\ x.number = n /\ x.ver = delivery[w].ver
      /\ x.commit = delivery[w].commit /\ x.own = delivery[w].own /\ x.byNumber = i /\ x.byTask = j
  BY <1>2, <1>7 DEF Run, Sent
<1> HIDE DEF x, n
<1>9. RunFits(x, home, commits, head, hist, rows)
  BY <1>1, <1>2, <1>4, <1>5, <1>8 DEF RunFits, Sent, n
<1> QED BY <1>1, <1>6, <1>8, <1>9, OnlyRun

-----------------------------------------------------------------------------
(* Rows. *)

LEMMA Replaced ==
  ASSUME NEW S, NEW q \in Seq(S), NEW t \in S, NEW i \in DOMAIN q
  PROVE  LET a == [q EXCEPT ![i] = t]
         IN /\ a \in Seq(S) /\ DOMAIN a = DOMAIN q /\ a[i] = t
            /\ \A k \in DOMAIN q : k # i => a[k] = q[k]
OBVIOUS

\* Row i is written, or added.
Puts(i, t) ==
  /\ rows' \in Seq(Row) /\ DOMAIN rows \subseteq DOMAIN rows' /\ i \in DOMAIN rows'
  /\ rows'[i] = t
  /\ \A k \in DOMAIN rows' : k # i => k \in DOMAIN rows /\ rows'[k] = rows[k]

LEMMA RowAdded ==
  ASSUME Table, NEW t \in Row, rows' = Append(rows, t) PROVE Puts(Len(rows) + 1, t)
<1>1. rows \in Seq(Row) /\ DOMAIN rows = 1..Len(rows) /\ Len(rows) \in Nat
  BY DEF Table
<1>2. /\ rows' \in Seq(Row) /\ DOMAIN rows' = 1..(Len(rows) + 1) /\ rows'[Len(rows) + 1] = t
      /\ \A k \in DOMAIN rows : rows'[k] = rows[k]
  BY <1>1
<1>3. \A k \in 1..(Len(rows) + 1) : k \in DOMAIN rows \/ k = Len(rows) + 1
  BY <1>1
<1> QED BY <1>1, <1>2, <1>3 DEF Puts

LEMMA RowReplaced ==
  ASSUME Table, NEW t \in Row, NEW i \in DOMAIN rows, rows' = [rows EXCEPT ![i] = t]
  PROVE  Puts(i, t)
BY Replaced DEF Table, Puts

\* A row of a number gets the state of a version of it.
LEMMA Writes ==
  ASSUME Pulls, Table, NEW n \in DOMAIN hist, NEW v \in 1..Len(hist[n]), stores(n, v),
         UNCHANGED hist, NEW t \in Row, t.number = n, ~t.local, t.status = statusOf(hist[n][v]),
         NEW i, Puts(i, t), rowOf(n) \in {0, i}
  PROVE  /\ Pulls' /\ Table' /\ Advances /\ DOMAIN rows \subseteq DOMAIN rows'
         /\ (LocalClosed(rows) => LocalClosed(rows')) /\ stored'[n].ver = v
<1> DEFINE u == [ver |-> v, ooo |-> stored[n].ooo \/ v < stored[n].ver]
<1>1. /\ v \in Nat /\ v >= 1 /\ n \in Nat \ {0} /\ Len(hist[n]) \in Nat /\ n \in DOMAIN stored
      /\ v <= Len(hist[n]) /\ stored[n] \in Written /\ stored \in Seq(Written)
  BY PullTypes DEF Pulls
<1>2. u \in Written /\ u.ver = v /\ (u.ooo \/ (~stored[n].ooo /\ ~(v < stored[n].ver)))
  BY <1>1 DEF Written
<1>3. stored' = [stored EXCEPT ![n] = u]
  BY DEF stores
<1> HIDE DEF u
<1>4. /\ stored' \in Seq(Written) /\ Len(stored') = Len(stored) /\ stored'[n] = u
      /\ \A m \in DOMAIN stored : m # n => stored'[m] = stored[m]
  BY <1>1, <1>2, <1>3
<1>5. Pulls'
  BY <1>1, <1>2, <1>4, PullTypes DEF Pulls
<1>6. Advances
  BY <1>1, <1>2, <1>4, PullTypes DEF Advances
<1>7. /\ rows' \in Seq(Row) /\ DOMAIN rows \subseteq DOMAIN rows' /\ i \in DOMAIN rows'
      /\ rows'[i] = t /\ \A k \in DOMAIN rows' : k # i => k \in DOMAIN rows /\ rows'[k] = rows[k]
  BY DEF Puts
<1>8. \A k \in DOMAIN rows' : k # i => rows'[k].number # n
  BY <1>1, <1>7, RowOf DEF Table
<1>9. Table'
  <2>1. ASSUME NEW k \in DOMAIN rows'
        PROVE  /\ IF rows'[k].local THEN rows'[k].linked /\ rows'[k].number = 0
                  ELSE rows'[k].number \in DOMAIN hist'
               /\ ~rows'[k].local =>
                   LET m == rows'[k].number
                   IN stored'[m].ver >= 1 /\ rows'[k].status = statusOf(hist'[m][stored'[m].ver])
    <3>1. CASE k = i
      BY <1>1, <1>2, <1>4, <1>7, <3>1
    <3>2. CASE k # i
      <4>1. k \in DOMAIN rows /\ rows'[k] = rows[k] /\ rows[k].number # n
        BY <1>7, <1>8, <3>2
      <4>2. rows[k].number \in DOMAIN hist => rows[k].number \in DOMAIN stored
        BY PullTypes
      <4> QED BY <1>4, <4>1, <4>2 DEF Table
    <3> QED BY <3>1, <3>2
  <2>2. ASSUME NEW k \in DOMAIN rows', NEW l \in DOMAIN rows', k # l
        PROVE  rows'[k].number # rows'[l].number \/ rows'[k].number = 0
    BY <1>7, <1>8, <2>2 DEF Table
  <2> QED BY <1>7, <2>1, <2>2 DEF Table
<1>10. LocalClosed(rows) => LocalClosed(rows')
  BY <1>7 DEF LocalClosed
<1> QED BY <1>2, <1>4, <1>5, <1>6, <1>7, <1>9, <1>10

LEMMA Step_createPlaceholder ==
  ASSUME PrInv, NEW w \in Deliverer, createPlaceholder(w) PROVE PrInv'
<1> USE DEF PrInv
<1> DEFINE t == linkedRow(0, TRUE, "OPEN")
<1>1. /\ delivery[w].pc = "placeholder" /\ goto(w, "complete") /\ rows' = Append(rows, t)
      /\ UNCHANGED <<home, commits, head, hist, stored, pushed, deliveries, done, event, handler,
                     receipts>>
  BY DEF createPlaceholder, at, remote, intake
<1>2. PICK x \in Run : /\ delivery' = [delivery EXCEPT ![w] = x] /\ x.pc = "complete"
                       /\ x.commit = delivery[w].commit /\ x.own = delivery[w].own
  BY <1>1, RunGoes DEF Sent
<1>3. RunFits(delivery[w], home, commits, head, hist, rows)
  BY DEF Runs
<1>4. home = "LOCAL"
  BY <1>1, <1>3 DEF RunFits
<1>5. t \in Row /\ t.local /\ t.linked /\ t.number = 0
  BY DEF linkedRow, Row, Status
<1> HIDE DEF t
<1>6. /\ rows' \in Seq(Row) /\ DOMAIN rows \subseteq DOMAIN rows'
      /\ \A i \in DOMAIN rows' : \/ i \in DOMAIN rows /\ rows'[i] = rows[i]
                                 \/ i \notin DOMAIN rows /\ rows'[i] = t
  <2>1. rows \in Seq(Row) /\ DOMAIN rows = 1..Len(rows) /\ Len(rows) \in Nat
    BY DEF Table
  <2>2. /\ rows' \in Seq(Row) /\ DOMAIN rows' = 1..(Len(rows) + 1) /\ rows'[Len(rows) + 1] = t
        /\ \A k \in DOMAIN rows : rows'[k] = rows[k]
    BY <1>1, <1>5, <2>1
  <2>3. \A k \in 1..(Len(rows) + 1) : k \in DOMAIN rows \/ k = Len(rows) + 1
    BY <2>1
  <2> QED BY <2>1, <2>2, <2>3
<1>7. Table'
  <2>1. \A i, j \in DOMAIN rows' :
          i # j => (rows'[i].number # rows'[j].number \/ rows'[i].number = 0)
    BY <1>5, <1>6 DEF Table
  <2>2. \A i \in DOMAIN rows' : IF rows'[i].local THEN rows'[i].linked /\ rows'[i].number = 0
                                ELSE rows'[i].number \in DOMAIN hist
    BY <1>5, <1>6 DEF Table
  <2>3. \A i \in DOMAIN rows' : ~rows'[i].local =>
          LET n == rows'[i].number
          IN stored[n].ver >= 1 /\ rows'[i].status = statusOf(hist[n][stored[n].ver])
    BY <1>5, <1>6 DEF Table
  <2> QED BY <1>1, <1>6, <2>1, <2>2, <2>3 DEF Table
<1>8. Counters' /\ Pulls' /\ Ends' /\ Events' /\ Handlers' /\ Grows
  BY <1>1, <1>4, <1>6, SameTable, EndsStay, EventsStay, HandlersStay DEF Counters, Grows, Pulls
<1>9. RunFits(x, home', commits', head', hist', rows')
  BY <1>1, <1>2, <1>3, <1>4 DEF RunFits, Sent
<1> QED BY <1>2, <1>7, <1>8, <1>9, RunMoves

LEMMA Step_closePlaceholders ==
  ASSUME PrInv, NEW w \in Deliverer, closePlaceholders(w) PROVE PrInv'
<1> USE DEF PrInv
<1> DEFINE r(i) == IF rows[i].linked /\ rows[i].local
                   THEN [rows[i] EXCEPT !.status = "CLOSED"] ELSE rows[i]
<1>1. /\ delivery[w].pc = "prepare" /\ goto(w, "push") /\ home = "GITHUB"
      /\ rows' = [i \in DOMAIN rows |-> r(i)]
      /\ UNCHANGED <<home, commits, head, hist, stored, pushed, deliveries, done, event, handler,
                     receipts>>
  BY DEF closePlaceholders, at, remote, intake
<1>2. PICK x \in Run : /\ delivery' = [delivery EXCEPT ![w] = x] /\ x.pc = "push"
                       /\ x.commit = delivery[w].commit /\ x.own = delivery[w].own
  BY <1>1, RunGoes DEF Sent
<1>3. RunFits(delivery[w], home, commits, head, hist, rows)
  BY DEF Runs
<1>4. ASSUME NEW i \in DOMAIN rows
      PROVE  /\ r(i) \in Row /\ r(i).local = rows[i].local /\ r(i).number = rows[i].number
             /\ r(i).linked = rows[i].linked /\ (~rows[i].local => r(i) = rows[i])
             /\ rows[i].status # "OPEN" => r(i).status # "OPEN"
             /\ rows[i].linked /\ rows[i].local => r(i).status = "CLOSED"
  <2>1. rows[i] \in Row
    BY DEF Table
  <2> QED BY <2>1 DEF Row, Status
<1> HIDE DEF r
<1>5. /\ rows' \in Seq(Row) /\ DOMAIN rows' = DOMAIN rows
      /\ \A i \in DOMAIN rows : rows'[i] = r(i)
  <2>1. DOMAIN rows = 1..Len(rows) /\ Len(rows) \in Nat
    BY DEF Table
  <2>2. rows' \in Seq(Row)
    BY <1>1, <1>4, <2>1
  <2> QED BY <1>1, <2>2
<1>6. Table'
  BY <1>1, <1>4, <1>5 DEF Table
<1>7. LocalClosed(rows')
  BY <1>4, <1>5 DEF LocalClosed, Table
<1>8. Counters' /\ Pulls' /\ Ends' /\ Events' /\ Handlers' /\ Grows
  BY <1>1, <1>5, <1>7, SameTable, EndsStay, EventsStay, HandlersStay DEF Counters, Grows, Pulls
<1>9. RunFits(x, home', commits', head', hist', rows')
  BY <1>1, <1>2, <1>3, <1>7 DEF RunFits, Sent
<1> QED BY <1>2, <1>6, <1>8, <1>9, RunMoves

LEMMA Step_record == ASSUME PrInv, NEW w \in Deliverer, record(w) PROVE PrInv'
<1> USE DEF PrInv
<1> DEFINE d == delivery[w]
           i == IF d.byNumber # 0 THEN d.byNumber ELSE d.byTask
           new == IF i = 0
                  THEN linkedRow(d.number, FALSE, statusOf(hist[d.number][d.ver]))
                  ELSE [written(rows[i], d.number, d.ver) EXCEPT !.linked = TRUE]
           clash == rowOf(d.number) \notin {0, i}
<1>1. /\ d.pc = "record"
      /\ UNCHANGED <<home, commits, head, hist, pushed, deliveries, done, event, handler, receipts>>
  BY DEF record, at, remote, intake
<1>2. d \in Run /\ RunFits(d, home, commits, head, hist, rows)
  BY DEF Runs
<1>3. d.number \in DOMAIN hist /\ d.ver \in 1..Len(hist[d.number]) /\ i \in DOMAIN rows \cup {0}
      /\ d.number \in Nat
  BY <1>1, <1>2, PullTypes DEF RunFits
<1>4. CASE clash /\ failed(w) /\ UNCHANGED table
  BY <1>1, <1>4, FailsAlone DEF table
<1>5. CASE /\ ~clash
           /\ delivery' = [delivery EXCEPT ![w].pc = "complete", ![w].own = TRUE]
           /\ rows' = IF i = 0 THEN Append(rows, new) ELSE [rows EXCEPT ![i] = new]
           /\ stores(d.number, d.ver)
  <2> DEFINE x == [delivery[w] EXCEPT !.pc = "complete", !.own = TRUE]
  <2>1. /\ new \in Row /\ new.number = d.number /\ ~new.local
        /\ new.status = statusOf(hist[d.number][d.ver])
    <3> DEFINE s == statusOf(hist[d.number][d.ver])
    <3>1. s \in Status
      BY StatusOf
    <3> HIDE DEF s
    <3>2. CASE i = 0
      <4>1. new = linkedRow(d.number, FALSE, s)
        BY <3>2 DEF s
      <4> QED BY <1>3, <3>1, <4>1 DEF linkedRow, Row, s
    <3>3. CASE i # 0
      <4>1. rows[i] \in Row
        BY <1>3, <3>3 DEF Table
      <4>2. new = [[rows[i] EXCEPT !.number = d.number, !.local = FALSE, !.status = s]
                     EXCEPT !.linked = TRUE]
        BY <3>3 DEF written, s
      <4> QED BY <1>3, <3>1, <4>1, <4>2 DEF Row, s
    <3> QED BY <3>2, <3>3
  <2> HIDE DEF new
  <2>2. PICK k : Puts(k, new) /\ rowOf(d.number) \in {0, k}
    <3>1. CASE i = 0
      BY <1>5, <2>1, <3>1, RowAdded
    <3>2. CASE i # 0
      BY <1>3, <1>5, <2>1, <3>2, RowReplaced
    <3> QED BY <3>1, <3>2
  <2> HIDE DEF i, clash
  <2>3. /\ Pulls' /\ Table' /\ Advances /\ DOMAIN rows \subseteq DOMAIN rows'
        /\ (LocalClosed(rows) => LocalClosed(rows'))
    BY <1>1, <1>3, <1>5, <2>1, <2>2, Writes
  <2>4. Counters' /\ Ends' /\ Events' /\ Handlers' /\ Grows
    BY <1>1, <2>3, EndsStay, EventsStay, HandlersStay DEF Counters, Grows, Advances
  <2>5. delivery' = [delivery EXCEPT ![w] = x]
    BY <1>5 DEF Runs
  <2>6. x \in Run /\ x.pc = "complete" /\ x.own = TRUE /\ x.commit = d.commit
    BY <1>2 DEF Run, Sent
  <2> HIDE DEF x
  <2>7. home = "GITHUB" /\ LocalClosed(rows) /\ d.commit <= head /\ d.commit <= commits
    BY <1>1, <1>2 DEF RunFits, Sent
  <2>8. RunFits(x, home', commits', head', hist', rows')
    BY <1>1, <2>3, <2>6, <2>7 DEF RunFits, Sent
  <2> QED BY <2>3, <2>4, <2>5, <2>6, <2>8, RunMoves
<1> QED BY <1>1, <1>4, <1>5 DEF record

LEMMA Step_complete == ASSUME PrInv, NEW w \in Deliverer, complete(w) PROVE PrInv'
<1> USE DEF PrInv
<1> DEFINE d == [own |-> delivery[w].own, commit |-> delivery[w].commit, head |-> head,
                 pulls |-> Len(hist)]
<1>1. /\ delivery' = [delivery EXCEPT ![w] = NoRun]
      /\ UNCHANGED <<home, commits, head, hist, rows, stored, pushed, deliveries, event, handler,
                     receipts>>
      /\ done' = IF githubDeliveryComplete(w) THEN done \cup {d} ELSE done
  BY DEF complete, remote, table, intake
<1>2. delivery[w] \in Run /\ RunFits(delivery[w], home, commits, head, hist, rows)
  BY DEF Runs
<1>3. Len(hist) \in Nat /\ head \in Nat /\ DOMAIN hist = 1..Len(hist)
  BY DEF Pulls, Counters
<1>4. d \in Passed /\ d.own = delivery[w].own /\ d.commit = delivery[w].commit /\ d.head = head
      /\ d.pulls = Len(hist)
  BY <1>2, <1>3 DEF Passed, Run
<1>5. d.own => home = "GITHUB" /\ LocalClosed(rows) /\ d.head >= d.commit
  BY <1>2, <1>3, <1>4 DEF RunFits, Run
<1>6. githubDeliveryComplete(w) /\ home = "GITHUB" => d.pulls > 0
  BY <1>3, <1>4 DEF githubDeliveryComplete, Table
<1> HIDE DEF d
<1>7. Ends'
  BY <1>1, <1>4, <1>5, <1>6 DEF Ends
<1>8. Counters' /\ Pulls' /\ Table' /\ Events' /\ Handlers'
  BY <1>1, SameTable, EventsStay, HandlersStay DEF Table, Counters
<1>9. Grows
  BY <1>1 DEF Grows, Counters, Pulls
<1>10. NoRun \in Run /\ RunFits(NoRun, home', commits', head', hist', rows')
  BY <1>8 DEF NoRun, Run, Sent, RunFits, Counters
<1> QED BY <1>1, <1>7, <1>8, <1>9, <1>10, RunMoves

-----------------------------------------------------------------------------
(* Webhooks. *)

\* A request handles a delivery: what it does to its receipt.
LEMMA Handles ==
  ASSUME Handlers, Events, NEW h \in Handler, NEW x \in Request, NEW r \in Event,
         NEW e \in DOMAIN event, handler' = [handler EXCEPT ![h] = x],
         event' = [event EXCEPT ![e] = r],
         x.pc # "idle" => x.ev = e,
         handler[h].pc # "idle" => handler[h].ev = e,
         ~r.stale => ~event[e].stale,
         ~r.stale /\ Once(e, event, handler) => Once(e, event', handler')
  PROVE  Handlers'
<1>1. /\ event' \in Seq(Event) /\ DOMAIN event' = DOMAIN event /\ event'[e] = r
      /\ \A f \in DOMAIN event : f # e => event'[f] = event[f]
  BY Replaced DEF Events
<1>2. /\ handler' \in [Handler -> Request] /\ handler'[h] = x
      /\ \A k \in Handler : k # h => handler'[k] = handler[k]
  BY DEF Handlers
<1>3. \A k \in Handler : handler'[k].pc # "idle" => handler'[k].ev \in DOMAIN event'
  BY <1>1, <1>2 DEF Handlers
<1>4. ASSUME NEW f \in DOMAIN event', ~event'[f].stale PROVE Once(f, event', handler')
  <2>1. CASE f = e
    BY <1>1, <1>4, <2>1 DEF Handlers
  <2>2. CASE f # e
    <3>1. Once(f, event, handler) /\ event'[f] = event[f]
      BY <1>1, <1>4, <2>2 DEF Handlers
    <3>2. \A k \in Handler :
            handler'[k].ev = f /\ handler'[k].pc \in {"process", "claim"} => handler'[k] = handler[k]
      BY <1>2, <2>2
    <3> QED BY <3>1, <3>2 DEF Once
  <2> QED BY <2>1, <2>2
<1> QED BY <1>2, <1>3, <1>4 DEF Handlers

\* Its receipt suits it when nobody else processes what it touches.
LEMMA OnceFits ==
  ASSUME Handlers, Events, NEW h \in Handler, NEW x \in Request, NEW r \in Event,
         NEW e \in DOMAIN event, handler' = [handler EXCEPT ![h] = x],
         event' = [event EXCEPT ![e] = r], Once(e, event, handler),
         r.applied <= 1, r.applied = 1 => r.status = "PROCESSED",
         x.pc = "process" => r.status = "RECEIVED" /\ r.applied = 0,
         x.pc = "claim" => x.seen = "FAILED",
         \A k \in Handler \ {h} : handler[k].ev = e /\ handler[k].pc = "process" =>
           r.status = event[e].status /\ r.applied = event[e].applied /\ x.pc # "process"
  PROVE  Once(e, event', handler')
<1>1. event'[e] = r
  BY Replaced DEF Events
<1>2. /\ handler'[h] = x
      /\ \A k \in Handler : k # h => handler'[k] = handler[k]
  BY DEF Handlers
<1>3. \A k \in Handler : handler'[k].ev = e =>
       /\ handler'[k].pc = "process" => event'[e].status = "RECEIVED" /\ event'[e].applied = 0
       /\ handler'[k].pc = "claim" => handler'[k].seen = "FAILED"
  BY <1>1, <1>2 DEF Once
<1>4. \A k, l \in Handler :
       (/\ handler'[k].ev = e /\ handler'[k].pc = "process"
        /\ handler'[l].ev = e /\ handler'[l].pc = "process") => k = l
  BY <1>1, <1>2 DEF Once
<1> QED BY <1>1, <1>3, <1>4 DEF Once

\* A request does nothing but to its receipt.
LEMMA OnlyRequest ==
  ASSUME PrInv, NEW h \in Handler, NEW x \in Request, NEW r \in Event, NEW e \in DOMAIN event,
         UNCHANGED <<home, commits, head, hist, rows, stored, pushed, delivery, deliveries, done>>,
         receipts' \in 0..MaxReceipts,
         handler' = [handler EXCEPT ![h] = x], event' = [event EXCEPT ![e] = r],
         x.pc # "idle" => x.ev = e,
         handler[h].pc # "idle" => handler[h].ev = e,
         r.kind = event[e].kind, r.number = event[e].number, r.ver = event[e].ver,
         r.status # "PROCESSED" \/ r.status = event[e].status,
         ~r.stale => ~event[e].stale,
         ~r.stale /\ Once(e, event, handler) => Once(e, event', handler')
  PROVE  PrInv'
<1> USE DEF PrInv
<1>1. Counters' /\ Pulls' /\ Table' /\ Ends' /\ Advances
  BY SameTable, EndsStay DEF Table, Counters
<1>2. Grows
  BY DEF Grows, Counters, Pulls
<1>3. Runs'
  BY <1>1, <1>2, RunsStay
<1>4. Handlers'
  BY Handles
<1>5. /\ event' \in Seq(Event) /\ DOMAIN event' = DOMAIN event /\ event'[e] = r
      /\ \A f \in DOMAIN event : f # e => event'[f] = event[f]
  BY Replaced DEF Events
<1>6. EventFits(r, hist, stored)
  BY DEF Events, EventFits
<1>7. Events'
  BY <1>5, <1>6 DEF Events
<1> QED BY <1>1, <1>3, <1>4, <1>7

LEMMA Requests ==
  ASSUME PrInv, NEW h \in Handler
  PROVE  /\ handler[h] \in Request /\ Free \in Request /\ event \in Seq(Event)
         /\ handler[h].pc # "idle" =>
              /\ handler[h].ev \in DOMAIN event /\ receipt(h) = event[handler[h].ev]
              /\ receipt(h) \in Event
              /\ ~receipt(h).stale => Once(handler[h].ev, event, handler)
BY DEF PrInv, Handlers, Events, Request, Free, receipt

\* A request that ends without having changed its receipt.
LEMMA Rests ==
  ASSUME PrInv, NEW h \in Handler, rest(h), handler[h].pc # "idle",
         UNCHANGED <<home, commits, head, hist, rows, stored, pushed, delivery, deliveries, done,
                     event, receipts>>
  PROVE  PrInv'
<1> DEFINE e == handler[h].ev
<1>1. /\ e \in DOMAIN event /\ event[e] \in Event /\ Free \in Request /\ Free.pc = "idle"
      /\ event \in Seq(Event)
  BY Requests DEF Free
<1>2. event' = [event EXCEPT ![e] = event[e]] /\ handler' = [handler EXCEPT ![h] = Free]
  BY <1>1 DEF rest
<1>3. receipts' \in 0..MaxReceipts
  BY DEF PrInv, Counters
<1>4. Once(e, event, handler) => Once(e, event', handler')
  <2> SUFFICES ASSUME Once(e, event, handler) PROVE Once(e, event', handler')
    OBVIOUS
  <2>1. \A k \in Handler : handler'[k] = IF k = h THEN Free ELSE handler[k]
    BY <1>2 DEF PrInv, Handlers
  <2> QED BY <1>1, <2>1 DEF Once
<1> QED BY <1>1, <1>2, <1>3, <1>4, OnlyRequest

\* A request that sets the status of its receipt.
LEMMA Sets ==
  ASSUME PrInv, NEW h \in Handler, handler[h].pc # "idle", NEW x \in Request,
         handler' = [handler EXCEPT ![h] = x], x.pc # "idle" => x.ev = handler[h].ev,
         NEW s \in {"RECEIVED", "FAILED"}, setReceipt(h, s),
         UNCHANGED <<home, commits, head, hist, rows, stored, pushed, delivery, deliveries, done,
                     receipts>>,
         x.pc = "process" => s = "RECEIVED", x.pc # "claim",
         ~receipt(h).stale =>
           /\ receipt(h).applied = 0
           /\ \A k \in Handler \ {h} : handler[k].ev = handler[h].ev => handler[k].pc # "process"
  PROVE  PrInv'
<1> DEFINE e == handler[h].ev
           r == [event[e] EXCEPT !.status = s]
<1>1. /\ e \in DOMAIN event /\ event[e] \in Event /\ receipt(h) = event[e]
      /\ ~event[e].stale => Once(e, event, handler)
  BY Requests
<1>2. event' = [event EXCEPT ![e] = r]
  BY DEF setReceipt
<1>3. /\ r \in Event /\ r.status = s /\ r.stale = event[e].stale /\ r.kind = event[e].kind
      /\ r.number = event[e].number /\ r.ver = event[e].ver /\ r.applied = event[e].applied
  BY <1>1 DEF Event
<1>4. receipts' \in 0..MaxReceipts /\ Handlers /\ Events
  BY DEF PrInv, Counters
<1> HIDE DEF e, r
<1>5. ~r.stale /\ Once(e, event, handler) => Once(e, event', handler')
  <2> SUFFICES ASSUME ~r.stale, Once(e, event, handler) PROVE Once(e, event', handler')
    OBVIOUS
  <2>1. r.applied = 0 /\ r.applied <= 1
    BY <1>1, <1>3
  <2>2. \A k \in Handler \ {h} : handler[k].ev = e => handler[k].pc # "process"
    BY <1>1, <1>3 DEF e
  <2>3. \A k \in Handler \ {h} : handler[k].ev = e /\ handler[k].pc = "process" =>
           r.status = event[e].status /\ r.applied = event[e].applied /\ x.pc # "process"
    BY <2>2
  <2>4. /\ r.applied = 1 => r.status = "PROCESSED"
        /\ x.pc = "process" => r.status = "RECEIVED" /\ r.applied = 0
        /\ x.pc = "claim" => x.seen = "FAILED"
    BY <1>3, <2>1
  <2> QED BY <1>1, <1>2, <1>3, <1>4, <2>1, <2>3, <2>4, OnceFits
<1>6. handler[h].ev = e
  BY DEF e
<1> QED BY <1>1, <1>2, <1>3, <1>4, <1>5, <1>6, OnlyRequest

LEMMA Step_receiveGitHub ==
  ASSUME PrSensible, PrInv, NEW h \in Handler, NEW e \in DOMAIN event, receiveGitHub(h, e)
  PROVE  PrInv'
<1>1. PICK next \in {"create", "claim"} :
       /\ next = "create" <=> event[e].status = "none"
       /\ next = "claim" => event[e].status \in {"FAILED", "RECEIVED"}
       /\ handler' = [handler EXCEPT ![h] = [pc |-> next, ev |-> e, seen |-> event[e].status]]
       /\ event' = [event EXCEPT ![e].stale =
                      @ \/ (next = "claim" /\ event[e].status = "RECEIVED")]
  BY DEF receiveGitHub
<1>2. /\ handler[h].pc = "idle" /\ receipts < MaxReceipts /\ receipts' = receipts + 1
      /\ UNCHANGED <<home, commits, head, hist, rows, stored, pushed, delivery, deliveries, done>>
  BY DEF receiveGitHub, remote, table, worker
<1> DEFINE x == [pc |-> next, ev |-> e, seen |-> event[e].status]
           b == event[e].stale \/ (next = "claim" /\ event[e].status = "RECEIVED")
           r == [event[e] EXCEPT !.stale = b]
<1>3. event[e] \in Event /\ e \in Nat /\ event \in Seq(Event) /\ Handlers /\ Events
  BY DEF PrInv, Events
<1>4. event' = [event EXCEPT ![e] = r] /\ handler' = [handler EXCEPT ![h] = x]
  BY <1>1, <1>3
<1>5. /\ x \in Request /\ x.pc = next /\ x.ev = e /\ x.seen = event[e].status
      /\ b \in BOOLEAN
  BY <1>3 DEF Request, Event
<1> HIDE DEF b
<1>6. /\ r \in Event /\ r.status = event[e].status /\ r.stale = b /\ r.kind = event[e].kind
      /\ r.number = event[e].number /\ r.ver = event[e].ver /\ r.applied = event[e].applied
  BY <1>3, <1>5 DEF Event
<1> HIDE DEF x, r
<1>7. receipts' \in 0..MaxReceipts
  BY <1>2 DEF PrInv, Counters, PrSensible
<1>8. ~r.stale => ~event[e].stale /\ (next = "claim" => event[e].status = "FAILED")
  BY <1>1, <1>6 DEF b
<1>9. ~r.stale /\ Once(e, event, handler) => Once(e, event', handler')
  <2> SUFFICES ASSUME ~r.stale, Once(e, event, handler) PROVE Once(e, event', handler')
    OBVIOUS
  <2>1. r.applied <= 1 /\ (r.applied = 1 => r.status = "PROCESSED")
    BY <1>6 DEF Once
  <2>2. \A k \in Handler \ {h} : handler[k].ev = e /\ handler[k].pc = "process" =>
           r.status = event[e].status /\ r.applied = event[e].applied /\ x.pc # "process"
    BY <1>5, <1>6
  <2>3. /\ x.pc = "process" => r.status = "RECEIVED" /\ r.applied = 0
        /\ x.pc = "claim" => x.seen = "FAILED"
    BY <1>5, <1>8
  <2>4. x \in Request /\ r \in Event
    BY <1>5, <1>6
  <2> QED BY <1>3, <1>4, <2>1, <2>2, <2>3, <2>4, OnceFits
<1>10. /\ r.status # "PROCESSED" \/ r.status = event[e].status
       /\ x.pc # "idle" => x.ev = e
       /\ handler[h].pc # "idle" => handler[h].ev = e
  BY <1>2, <1>5, <1>6
<1> QED BY <1>2, <1>4, <1>5, <1>6, <1>7, <1>8, <1>9, <1>10, OnlyRequest

\* Nobody else processes a delivery that is not RECEIVED.
LEMMA Alone ==
  ASSUME PrInv, NEW h \in Handler, handler[h].pc # "idle", ~receipt(h).stale,
         receipt(h).status \in {"none", "FAILED"}
  PROVE  /\ receipt(h).applied = 0
         /\ \A k \in Handler \ {h} : handler[k].ev = handler[h].ev => handler[k].pc # "process"
<1>1. /\ receipt(h) = event[handler[h].ev] /\ receipt(h) \in Event
      /\ Once(handler[h].ev, event, handler)
  BY Requests
<1>2. receipt(h).applied \in Nat
  BY <1>1 DEF Event
<1> QED BY <1>1, <1>2 DEF Once

LEMMA Step_createEvent == ASSUME PrInv, NEW h \in Handler, createEvent(h) PROVE PrInv'
<1>1. /\ handler[h].pc = "create"
      /\ UNCHANGED <<home, commits, head, hist, rows, stored, pushed, delivery, deliveries, done,
                     receipts>>
  BY DEF createEvent, remote, table, worker
<1>2. CASE rest(h) /\ UNCHANGED event
  BY <1>1, <1>2, Rests
<1>3. CASE /\ receipt(h).status = "none" /\ setReceipt(h, "RECEIVED")
           /\ handler' = [handler EXCEPT ![h].pc = "process"]
  <2> DEFINE x == [handler[h] EXCEPT !.pc = "process"]
  <2>1. handler' = [handler EXCEPT ![h] = x]
    BY <1>3
  <2>2. x \in Request /\ x.pc = "process" /\ x.ev = handler[h].ev
    BY Requests DEF Request
  <2> HIDE DEF x
  <2> QED BY <1>1, <1>3, <2>1, <2>2, Alone, Sets
<1> QED BY <1>2, <1>3 DEF createEvent

LEMMA Step_claim == ASSUME PrInv, NEW h \in Handler, claim(h) PROVE PrInv'
<1>1. /\ handler[h].pc = "claim"
      /\ UNCHANGED <<home, commits, head, hist, rows, stored, pushed, delivery, deliveries, done,
                     receipts>>
  BY DEF claim, remote, table, worker
<1>2. CASE rest(h) /\ UNCHANGED event
  BY <1>1, <1>2, Rests
<1>3. CASE /\ receipt(h).status = handler[h].seen /\ setReceipt(h, "RECEIVED")
           /\ handler' = [handler EXCEPT ![h].pc = "process"]
  <2> DEFINE x == [handler[h] EXCEPT !.pc = "process"]
  <2>1. handler' = [handler EXCEPT ![h] = x]
    BY <1>3
  <2>2. x \in Request /\ x.pc = "process" /\ x.ev = handler[h].ev
    BY Requests DEF Request
  <2>3. ~receipt(h).stale => receipt(h).status = "FAILED"
    BY <1>1, <1>3, Requests DEF Once
  <2> HIDE DEF x
  <2> QED BY <1>1, <1>3, <2>1, <2>2, <2>3, Alone, Sets
<1> QED BY <1>2, <1>3 DEF claim

LEMMA Step_ProcessingFails == ASSUME PrInv, NEW h \in Handler, ProcessingFails(h) PROVE PrInv'
<1>1. /\ handler[h].pc \in {"process", "create", "claim"} /\ rest(h)
      /\ UNCHANGED <<home, commits, head, hist, rows, stored, pushed, delivery, deliveries, done,
                     receipts>>
  BY DEF ProcessingFails, remote, table, worker
<1>2. CASE UNCHANGED event
  BY <1>1, <1>2, Rests
<1>3. CASE handler[h].pc = "process" /\ setReceipt(h, "FAILED")
  <2>1. handler' = [handler EXCEPT ![h] = Free] /\ Free \in Request /\ Free.pc = "idle"
    BY <1>1, Requests DEF rest, Free
  <2>2. ~receipt(h).stale =>
          /\ receipt(h).applied = 0
          /\ \A k \in Handler \ {h} : handler[k].ev = handler[h].ev => handler[k].pc # "process"
    BY <1>3, Requests DEF Once
  <2> QED BY <1>1, <1>3, <2>1, <2>2, Sets
<1> QED BY <1>2, <1>3 DEF ProcessingFails

\* The transaction of a delivery: what it wrote, and its receipt.
LEMMA Takes ==
  ASSUME PrInv, NEW h \in Handler, processGitHubEvent(h), Pulls', Table', Advances,
         DOMAIN rows \subseteq DOMAIN rows', LocalClosed(rows) => LocalClosed(rows'),
         pushed' \in BOOLEAN,
         receipt(h).kind = "pull_request" => stored'[receipt(h).number].ver = receipt(h).ver
  PROVE  PrInv'
<1> USE DEF PrInv
<1> DEFINE e == handler[h].ev
           a == event[e].applied + 1
           r == [event[e] EXCEPT !.status = "PROCESSED", !.applied = a]
<1>1. /\ handler[h].pc = "process" /\ handler' = [handler EXCEPT ![h] = Free]
      /\ UNCHANGED <<home, commits, head, hist, delivery, deliveries, done, receipts>>
      /\ event' = [event EXCEPT ![handler[h].ev].status = "PROCESSED",
                                ![handler[h].ev].applied = @ + 1]
  BY DEF processGitHubEvent, rest, remote, worker
<1>2. /\ e \in DOMAIN event /\ event[e] \in Event /\ receipt(h) = event[e] /\ Free \in Request
      /\ ~event[e].stale => Once(e, event, handler)
  BY <1>1, Requests
<1>3. event' = [event EXCEPT ![e] = r]
  BY <1>1, <1>2
<1>4. /\ r \in Event /\ r.status = "PROCESSED" /\ r.stale = event[e].stale
      /\ r.kind = event[e].kind /\ r.number = event[e].number /\ r.ver = event[e].ver
      /\ r.applied = event[e].applied + 1
  <2>1. a \in Nat
    BY <1>2 DEF Event
  <2> HIDE DEF a
  <2>2. /\ r \in Event /\ r.status = "PROCESSED" /\ r.stale = event[e].stale
        /\ r.kind = event[e].kind /\ r.number = event[e].number /\ r.ver = event[e].ver
        /\ r.applied = a
    BY <1>2, <2>1 DEF Event
  <2> QED BY <2>2 DEF a
<1>5. handler[h].ev = e
  OBVIOUS
<1> HIDE DEF e, r
<1>6. Counters' /\ Ends' /\ Grows
  BY <1>1, EndsStay DEF Counters, Grows, Pulls
<1>7. Runs'
  BY <1>1, <1>6, RunsStay
<1>8. r.stale \/ (Once(e, event, handler) /\ event[e].applied = 0)
  BY <1>1, <1>2, <1>4, <1>5 DEF Once
<1>9. ~r.stale => Once(e, event', handler')
  <2> SUFFICES ASSUME ~r.stale PROVE Once(e, event', handler')
    OBVIOUS
  <2>1. Once(e, event, handler) /\ r.applied = 1
    BY <1>4, <1>8
  <2>2. \A k \in Handler \ {h} : handler[k].ev = e /\ handler[k].pc = "process" =>
           r.status = event[e].status /\ r.applied = event[e].applied /\ Free.pc # "process"
    BY <1>1, <1>5, <2>1 DEF Once
  <2>3. /\ r.applied <= 1 /\ (r.applied = 1 => r.status = "PROCESSED")
        /\ Free.pc = "process" => r.status = "RECEIVED" /\ r.applied = 0
        /\ Free.pc = "claim" => Free.seen = "FAILED"
    BY <1>4, <2>1 DEF Free
  <2>4. PICK x : x = Free
    OBVIOUS
  <2>5. /\ x \in Request /\ r \in Event /\ e \in DOMAIN event
        /\ handler' = [handler EXCEPT ![h] = x] /\ event' = [event EXCEPT ![e] = r]
        /\ Once(e, event, handler) /\ Handlers /\ Events
    BY <1>1, <1>2, <1>3, <1>4, <2>1, <2>4
  <2>6. /\ r.applied <= 1
        /\ r.applied = 1 => r.status = "PROCESSED"
        /\ x.pc = "process" => r.status = "RECEIVED" /\ r.applied = 0
        /\ x.pc = "claim" => x.seen = "FAILED"
        /\ \A k \in Handler \ {h} : handler[k].ev = e /\ handler[k].pc = "process" =>
             r.status = event[e].status /\ r.applied = event[e].applied /\ x.pc # "process"
    BY <2>2, <2>3, <2>4
  <2> QED BY ONLY h \in Handler, <2>5, <2>6, OnceFits
<1>10. Handlers'
  <2>1. Free.pc = "idle"
    BY DEF Free
  <2>2. /\ Free.pc # "idle" => Free.ev = e
        /\ handler[h].pc # "idle" => handler[h].ev = e
        /\ ~r.stale => ~event[e].stale
        /\ ~r.stale /\ Once(e, event, handler) => Once(e, event', handler')
    BY <1>4, <1>5, <1>9, <2>1
  <2> QED BY <1>1, <1>2, <1>3, <1>4, <2>2, Handles
<1>11. /\ event' \in Seq(Event) /\ DOMAIN event' = DOMAIN event /\ event'[e] = r
       /\ \A f \in DOMAIN event : f # e => event'[f] = event[f]
  BY <1>2, <1>3, <1>4, Replaced DEF Events
<1>12. EventFits(r, hist', stored')
  <2>1. EventFits(event[e], hist, stored)
    BY <1>2 DEF Events
  <2>2. ASSUME r.kind = "pull_request" PROVE r.ver <= stored'[r.number].ver
    <3>1. stored'[r.number].ver = r.ver /\ r.ver \in Nat
      BY <1>2, <1>4, <2>2 DEF Event
    <3> QED BY <3>1
  <2> QED BY <1>1, <1>4, <2>1, <2>2 DEF EventFits
<1>13. Events'
  <2>1. \A f \in DOMAIN event : EventFits(event[f], hist', stored')
    BY EventFitsOn DEF Events
  <2> QED BY <1>11, <1>12, <2>1 DEF Events
<1> QED BY <1>6, <1>7, <1>10, <1>13

LEMMA Step_processGitHubEvent ==
  ASSUME PrInv, NEW h \in Handler, processGitHubEvent(h) PROVE PrInv'
<1> USE DEF PrInv
<1> DEFINE d == receipt(h)
           n == d.number
           s == statusOf(hist[n][d.ver])
<1>1. handler[h].pc = "process" /\ UNCHANGED hist
  BY DEF processGitHubEvent, remote
<1>2. d \in Event /\ EventFits(d, hist, stored)
  BY <1>1, Requests DEF Events
<1>3. CASE d.kind = "push" /\ pushed' = TRUE /\ UNCHANGED table
  BY <1>1, <1>3, SameTable, Takes DEF table, Table
<1>4. CASE d.kind = "pull_request" /\ syncPullRequest(n, d.ver) /\ UNCHANGED pushed
  <2>1. n \in DOMAIN hist /\ d.ver \in 1..Len(hist[n]) /\ s \in Status /\ n \in Nat \ {0}
    BY <1>2, <1>4, StatusOf, PullTypes DEF EventFits
  <2>2. \E t \in Row : /\ t.number = n /\ ~t.local /\ t.status = s
                       /\ \E i : Puts(i, t) /\ rowOf(n) \in {0, i}
    <3> DEFINE a == [linkedRow(n, FALSE, s) EXCEPT !.linked = FALSE]
               b == [rows[rowOf(n)] EXCEPT !.number = n, !.local = FALSE, !.status = s]
    <3>1. CASE rowOf(n) = 0
      <4>1. rows' = Append(rows, a)
        BY <1>4, <3>1 DEF syncPullRequest
      <4>2. a \in Row /\ a.number = n /\ ~a.local /\ a.status = s
        BY <2>1 DEF linkedRow, Row
      <4> HIDE DEF a, s, n
      <4> QED BY <3>1, <4>1, <4>2, RowAdded
    <3>2. CASE rowOf(n) # 0
      <4>1. rows' = [rows EXCEPT ![rowOf(n)] = b]
        BY <1>4, <3>2 DEF syncPullRequest, written
      <4>2. rowOf(n) \in DOMAIN rows /\ rows[rowOf(n)] \in Row
        BY <2>1, <3>2, RowOf DEF Table
      <4>3. b \in Row /\ b.number = n /\ ~b.local /\ b.status = s
        BY <2>1, <4>2 DEF Row
      <4> HIDE DEF b, s, n
      <4> QED BY <4>1, <4>2, <4>3, RowReplaced
    <3> QED BY <3>1, <3>2
  <2>3. stores(n, d.ver)
    BY <1>4 DEF syncPullRequest
  <2>4. /\ Pulls' /\ Table' /\ Advances /\ DOMAIN rows \subseteq DOMAIN rows'
        /\ (LocalClosed(rows) => LocalClosed(rows')) /\ stored'[n].ver = d.ver
    BY <1>1, <2>1, <2>2, <2>3, Writes
  <2> QED BY <1>4, <2>4, Takes DEF Counters
<1> QED BY <1>3, <1>4 DEF processGitHubEvent
-----------------------------------------------------------------------------
LEMMA PrNextInv == ASSUME PrSensible, PrInv, [PrNext]_prVars PROVE PrInv'
<1>1. CASE UNCHANGED prVars
  <2>1. /\ UNCHANGED <<home, commits, head, hist, rows, stored, pushed, delivery, deliveries, done>>
        /\ UNCHANGED <<event, handler, receipts>>
    BY <1>1 DEF prVars
  <2>2. Counters' /\ Pulls' /\ Table' /\ Runs'
    BY <2>1 DEF PrInv, Counters, Pulls, Table, Runs
  <2>3. Ends' /\ Events' /\ Handlers'
    BY <2>1, HandlersStay DEF PrInv, Ends, Events
  <2> QED BY <2>2, <2>3 DEF PrInv
<1>2. CASE \E n \in DOMAIN hist : Change(n)
  BY <1>2, Step_Change
<1>3. ASSUME NEW w \in Deliverer,
             \/ Approved(w) \/ openPlaceholder(w) \/ createPlaceholder(w)
             \/ closePlaceholders(w) \/ PushFails(w) \/ push(w) \/ markPushed(w)
             \/ createOrFindPullRequest(w) \/ createPull(w) \/ refind(w)
             \/ RequestFails(w) \/ lookup(w) \/ record(w) \/ complete(w) \/ Die(w)
      PROVE  PrInv'
  BY <1>3, Step_Approved, Step_openPlaceholder, Step_createPlaceholder, Step_closePlaceholders,
     Step_PushFails, Step_push, Step_markPushed, Step_createOrFind, Step_createPull, Step_refind,
     Step_RequestFails, Step_lookup, Step_record, Step_complete, Step_Die
<1>4. ASSUME NEW h \in Handler,
             \/ \E e \in DOMAIN event : receiveGitHub(h, e)
             \/ createEvent(h) \/ claim(h) \/ processGitHubEvent(h)
             \/ ProcessingFails(h)
      PROVE  PrInv'
  BY <1>4, Step_receiveGitHub, Step_createEvent, Step_claim, Step_processGitHubEvent,
     Step_ProcessingFails
<1> QED BY <1>1, <1>2, <1>3, <1>4 DEF PrNext

-----------------------------------------------------------------------------
(* What the invariant says. *)

LEMMA Typed == ASSUME PrSensible, PrInv PROVE PrTypeOK
<1> USE DEF PrInv
<1>1. /\ home \in {"LOCAL", "GITHUB"} /\ commits \in 0..MaxDeliveries /\ head \in 0..commits
      /\ pushed \in BOOLEAN /\ deliveries \in 0..MaxDeliveries /\ receipts \in 0..MaxReceipts
  BY DEF Counters, PrSensible
<1>2. \A n \in DOMAIN hist : \A i \in DOMAIN hist[n] : hist[n][i] \in Remote
  <2> SUFFICES ASSUME NEW n \in DOMAIN hist PROVE \A i \in DOMAIN hist[n] : hist[n][i] \in Remote
    OBVIOUS
  <2>1. hist[n] \in Seq(Remote)
    BY PullTypes
  <2> QED BY <2>1
<1>3. \A i \in DOMAIN rows :
       /\ rows[i].status \in Status
       /\ IF rows[i].local THEN rows[i].number = 0 ELSE rows[i].number \in DOMAIN hist
       /\ \A j \in DOMAIN rows :
            i # j => (rows[i].number # rows[j].number \/ rows[i].number = 0)
  <2> SUFFICES ASSUME NEW i \in DOMAIN rows
               PROVE  /\ rows[i].status \in Status
                      /\ IF rows[i].local THEN rows[i].number = 0
                         ELSE rows[i].number \in DOMAIN hist
                      /\ \A j \in DOMAIN rows :
                           i # j => (rows[i].number # rows[j].number \/ rows[i].number = 0)
    OBVIOUS
  <2>1. rows[i] \in Row
    BY DEF Table
  <2>2. rows[i].status \in Status
    BY <2>1 DEF Row
  <2> QED BY <2>2 DEF Table
<1>4. \A e \in DOMAIN event :
       event[e].status \in {"none", "RECEIVED", "FAILED", "PROCESSED"}
  <2> SUFFICES ASSUME NEW e \in DOMAIN event
               PROVE  event[e].status \in {"none", "RECEIVED", "FAILED", "PROCESSED"}
    OBVIOUS
  <2>1. event[e] \in Event
    BY DEF Events
  <2> QED BY <2>1 DEF Event
<1> QED BY <1>1, <1>2, <1>3, <1>4 DEF PrTypeOK

LEMMA Delivered == ASSUME PrInv PROVE CompletionsAreDelivered /\ PlaceholdersClose
BY DEF PrInv, Ends, CompletionsAreDelivered, PlaceholdersClose, LocalClosed

LEMMA Applied == ASSUME PrInv PROVE AppliedOnceUnlessAbandoned
<1> SUFFICES ASSUME NEW e \in DOMAIN event, event[e].applied > 1, ~event[e].stale PROVE FALSE
  <2>1. \A f \in DOMAIN event : event[f] \in Event
    BY DEF PrInv, Events
  <2>2. \A f \in DOMAIN event : event[f].stale \in BOOLEAN
    BY <2>1 DEF Event
  <2> QED BY <2>2 DEF AppliedOnceUnlessAbandoned
<1>1. event[e].applied <= 1 /\ event[e] \in Event
  BY DEF PrInv, Handlers, Once, Events
<1> QED BY <1>1 DEF Event

LEMMA Followed == ASSUME PrInv PROVE StatusFollowsGitHub
<1> SUFFICES ASSUME NEW n \in DOMAIN hist, settled(n), rowOf(n) # 0, ~stored[n].ooo
             PROVE  rows[rowOf(n)].status = statusOf(now(n))
  BY DEF StatusFollowsGitHub
<1> USE DEF PrInv
<1>1. /\ n \in Nat \ {0} /\ Len(hist[n]) \in Nat \ {0} /\ stored[n].ver \in Nat
      /\ stored[n].ver <= Len(hist[n])
  BY PullTypes
<1>2. PICK e \in DOMAIN event : event[e].number = n /\ event[e].ver = Len(hist[n])
  BY DEF settled
<1>3. event[e].status = "PROCESSED" /\ event[e] \in Event /\ EventFits(event[e], hist, stored)
  BY <1>2 DEF settled, Events
<1>4. event[e].kind = "pull_request"
  BY <1>1, <1>2, <1>3 DEF EventFits, Event
<1>5. stored[n].ver = Len(hist[n])
  BY <1>1, <1>2, <1>3, <1>4 DEF EventFits
<1>6. rowOf(n) \in DOMAIN rows /\ rows[rowOf(n)].number = n
  BY <1>1, RowOf
<1>7. ~rows[rowOf(n)].local
  BY <1>1, <1>6 DEF Table
<1>8. rows[rowOf(n)].status = statusOf(hist[n][stored[n].ver])
  BY <1>6, <1>7 DEF Table
<1> QED BY <1>5, <1>8 DEF now

-----------------------------------------------------------------------------
(* However often a task is delivered, whatever fails, and however many       *)
(* webhooks come in whatever order: what COMPLETE let through was delivered, *)
(* no open placeholder is left for a delivered task, a webhook takes effect  *)
(* once unless it was taken for abandoned, and a row follows GitHub unless   *)
(* an older state was written over a newer one.                              *)
THEOREM DeliveryIsSound ==
  ASSUME PrSensible
  PROVE  PrSpec =>
           [](/\ PrTypeOK /\ CompletionsAreDelivered /\ PlaceholdersClose
              /\ AppliedOnceUnlessAbandoned /\ StatusFollowsGitHub)
<1>1. PrInit => PrInv
  BY PrInitInv
<1>2. PrInv /\ [PrNext]_prVars => PrInv'
  BY PrNextInv
<1>3. PrInv => /\ PrTypeOK /\ CompletionsAreDelivered /\ PlaceholdersClose
              /\ AppliedOnceUnlessAbandoned /\ StatusFollowsGitHub
  BY Typed, Delivered, Applied, Followed
<1> QED BY <1>1, <1>2, <1>3, PTL DEF PrSpec
=============================================================================
