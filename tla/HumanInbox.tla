----------------------------- MODULE HumanInbox -----------------------------
(***************************************************************************)
(* Where a person comes in: the engine parks a run and asks for an         *)
(* approval, the inbox shows what waits for a person, people answer, each  *)
(* from the list their page fetched last.                                  *)
(*                                                                         *)
(* One task. A worker is between two statements of the WAIT_FOR_HUMAN      *)
(* branch, a person between two statements of approve() or decide().       *)
(* The order of the task's other statuses is TaskStateMachine's: "WORKING" *)
(* stands for the ones from which a run can park and a person can approve. *)
(***************************************************************************)
EXTENDS Naturals, Sequences, FiniteSets, SequencesExt

CONSTANTS Worker, Person, MaxRuns, MaxApprovals, MaxFindings

VARIABLES
  task,       \* its status
  runs,       \* the statuses of its workflow runs, oldest first
  approvals,  \* rows: [status, decided], decided counts successful decisions
  findings,   \* statuses of its blocking findings
  parker,     \* worker -> "idle", "look" or "create"
  page,       \* person -> ids of the approvals on the page
  person,     \* person -> what the request is about to do
  moved,      \* a person has moved the task since the latest run ended
  overlap,    \* two workers have been about to create an approval
  unseen,     \* findings opened since a person's count
  blind       \* an approval passed over a finding that was there to see

inboxVars == <<task, runs, approvals, findings, parker, page, person, moved, overlap,
               unseen, blind>>

idle == [at |-> "idle", id |-> 0, decision |-> "none"]
Decisions == {"APPROVED", "REJECTED"}
Live == {"PENDING", "RUNNING"}
Active == Live \cup {"WAITING_FOR_HUMAN"}

InboxInit ==
  /\ task = "WORKING" /\ runs = <<"RUNNING">> /\ approvals = <<>> /\ findings = <<>>
  /\ parker = [w \in Worker |-> "idle"]
  /\ page = [p \in Person |-> {}] /\ person = [p \in Person |-> idle]
  /\ moved = FALSE /\ overlap = FALSE /\ unseen = [p \in Person |-> {}] /\ blind = FALSE

-----------------------------------------------------------------------------
(***************************************************************************)
(* The engine.                                                             *)
(***************************************************************************)
\* finishWorkflow: the run, the other active runs and the task in one
\* transaction, if the run has not ended. A job delivered again advances, and
\* may finish, a run that waits for a person.
finishWorkflow_runOnly(r, status, to) ==
  /\ runs[r] \in Active
  /\ runs' = [runs EXCEPT ![r] = status] /\ moved' = FALSE /\ UNCHANGED task
finishWorkflow(r, status, to) ==
  /\ runs[r] \in Active
  /\ runs' = [i \in DOMAIN runs |-> IF i = r THEN status
                                    ELSE IF runs[i] \in Active THEN "CANCELLED"
                                    ELSE runs[i]]
  /\ task' = to /\ moved' = FALSE

\* The decision WAIT_FOR_HUMAN.
Park(w, r) ==
  /\ parker[w] = "idle"
  /\ finishWorkflow(r, "WAITING_FOR_HUMAN", "NEEDS_HUMAN_REVIEW")
  /\ parker' = [parker EXCEPT ![w] = "look"]
  /\ UNCHANGED <<approvals, findings, page, person, overlap, unseen, blind>>

\* The decision FAILED.
Fail(r) == /\ finishWorkflow(r, "FAILED", "FAILED")
           /\ UNCHANGED <<approvals, findings, parker, page, person, overlap, unseen, blind>>

pending == {a \in DOMAIN approvals : approvals[a].status = "PENDING"}

\* requestApproval: look for a pending approval of the task ...
lookup_ofRun(w) ==
  /\ parker[w] = "look"
  /\ parker' = [parker EXCEPT ![w] = "create"]
  /\ overlap' = (overlap \/ \E v \in Worker \ {w} : parker[v] = "create")
  /\ UNCHANGED <<task, runs, approvals, findings, page, person, moved, unseen, blind>>
lookup(w) ==
  /\ parker[w] = "look"
  /\ parker' = [parker EXCEPT ![w] = IF pending # {} THEN "idle" ELSE "create"]
  /\ overlap' = (overlap \/ (pending = {} /\ \E v \in Worker \ {w} : parker[v] = "create"))
  /\ UNCHANGED <<task, runs, approvals, findings, page, person, moved, unseen, blind>>

\* ... and create one.
requestApproval(w) ==
  /\ parker[w] = "create" /\ Len(approvals) < MaxApprovals
  /\ parker' = [parker EXCEPT ![w] = "idle"]
  /\ approvals' = Append(approvals, [status |-> "PENDING", decided |-> 0])
  /\ UNCHANGED <<task, runs, findings, page, person, moved, overlap, unseen, blind>>

\* The worker dies; the job that is delivered again finds a run that has ended.
Dies(w) == /\ parker[w] # "idle" /\ parker' = [parker EXCEPT ![w] = "idle"]
           /\ UNCHANGED <<task, runs, approvals, findings, page, person, moved, overlap,
                          unseen, blind>>

\* A review stores a blocking finding; the FIX step takes the open ones up; an
\* approving review or a person resolves one.
OpenFinding ==
  /\ Len(findings) < MaxFindings /\ findings' = Append(findings, "OPEN")
  /\ unseen' = [p \in Person |-> unseen[p] \cup {Len(findings) + 1}]
  /\ UNCHANGED <<task, runs, approvals, parker, page, person, moved, overlap, blind>>
MoveFinding(f) ==
  /\ \E s \in {"FIXING", "RESOLVED"} :
       /\ findings[f] = "OPEN" \/ (findings[f] = "FIXING" /\ s = "RESOLVED")
       /\ findings' = [findings EXCEPT ![f] = s]
  /\ UNCHANGED <<task, runs, approvals, parker, page, person, moved, overlap, unseen, blind>>

-----------------------------------------------------------------------------
(***************************************************************************)
(* The API.                                                                *)
(***************************************************************************)
blocking == {f \in DOMAIN findings : findings[f] \in {"OPEN", "FIXING"}}

\* InboxService.list, one snapshot of four sources.
list == {<<"APPROVAL", a>> : a \in pending}
        \cup (IF task = "NEEDS_HUMAN_REVIEW" THEN {<<"HUMAN_REVIEW", 0>>} ELSE {})
        \cup {<<"WORKFLOW_FAILURE", r>> : r \in {i \in DOMAIN runs : runs[i] = "FAILED"}}
        \cup {<<"BLOCKING_FINDING", f>> : f \in blocking}

\* A poll of the page (useInbox).
Poll(p) == /\ page' = [page EXCEPT ![p] = {i[2] : i \in {j \in list : j[1] = "APPROVAL"}}]
           /\ page'[p] # page[p]
           /\ UNCHANGED <<task, runs, approvals, findings, parker, person, moved, overlap,
                          unseen, blind>>

goto(p, at, id, decision) ==
  person' = [person EXCEPT ![p] = [at |-> at, id |-> id, decision |-> decision]]

\* ApprovalsService.decide: read the row, then claim it while it is PENDING.
decide(p, a, d) ==
  /\ person[p].at = "idle" /\ a \in page[p] /\ a \in pending
  /\ goto(p, "claim", a, d)
  /\ UNCHANGED <<task, runs, approvals, findings, parker, page, moved, overlap, unseen, blind>>

claimable_asRead(a) == TRUE
claimable(a) == approvals[a].status = "PENDING"
claim(p) ==
  /\ person[p].at = "claim"
  /\ LET a == person[p].id
     IN approvals' = IF claimable(a)
                     THEN [approvals EXCEPT ![a].status = person[p].decision,
                                            ![a].decided = @ + 1]
                     ELSE approvals
  /\ goto(p, "idle", 0, "none")
  /\ UNCHANGED <<task, runs, findings, parker, page, moved, overlap, unseen, blind>>

\* TasksService.approve: count the blocking findings, move the task, then
\* create an approval of its own; a pending one stays.
counted_open == {f \in DOMAIN findings : findings[f] = "OPEN"}
counted == blocking
approve(p) ==
  /\ person[p].at = "idle" /\ counted = {}
  /\ goto(p, "approve", 0, "none") /\ unseen' = [unseen EXCEPT ![p] = {}]
  /\ UNCHANGED <<task, runs, approvals, findings, parker, page, moved, overlap, blind>>
transition(p) ==
  /\ person[p].at = "approve"
  /\ IF task \in {"WORKING", "NEEDS_HUMAN_REVIEW"}
     THEN /\ task' = "APPROVED" /\ moved' = TRUE /\ goto(p, "record", 0, "none")
          /\ blind' = (blind \/ ~(blocking \subseteq unseen[p]))
     ELSE goto(p, "idle", 0, "none") /\ UNCHANGED <<task, moved, blind>>
  /\ UNCHANGED <<runs, approvals, findings, parker, page, overlap, unseen>>
recordApproval(p) ==
  /\ person[p].at = "record" /\ Len(approvals) < MaxApprovals
  /\ approvals' = Append(approvals, [status |-> "APPROVED", decided |-> 1])
  /\ goto(p, "idle", 0, "none")
  /\ UNCHANGED <<task, runs, findings, parker, page, moved, overlap, unseen, blind>>

\* A retry, or a forced start: a new run. A retry asks for a status it may start
\* from and for no live run; a waiting run stays as it is until one ends.
startRun(force) ==
  /\ Len(runs) < MaxRuns
  /\ \/ force
     \/ task \in {"NEEDS_HUMAN_REVIEW", "FAILED"} /\ ~\E r \in DOMAIN runs : runs[r] \in Live
  /\ runs' = Append(runs, "RUNNING") /\ task' = "WORKING" /\ moved' = TRUE
  /\ UNCHANGED <<approvals, findings, parker, page, person, overlap, unseen, blind>>

InboxNext ==
  \/ \E w \in Worker : \/ lookup(w) \/ requestApproval(w) \/ Dies(w)
                      \/ \E r \in DOMAIN runs : Park(w, r)
  \/ \E r \in DOMAIN runs : Fail(r)
  \/ OpenFinding
  \/ \E f \in DOMAIN findings : MoveFinding(f)
  \/ \E p \in Person : Poll(p) \/ claim(p) \/ approve(p) \/ transition(p) \/ recordApproval(p)
                       \/ \E a \in DOMAIN approvals, d \in Decisions : decide(p, a, d)
  \/ \E force \in BOOLEAN : startRun(force)

InboxSpec == InboxInit /\ [][InboxNext]_inboxVars

-----------------------------------------------------------------------------
TypeOK ==
  /\ task \in {"WORKING", "NEEDS_HUMAN_REVIEW", "APPROVED", "FAILED"}
  /\ runs \in BoundedSeq(Active \cup {"FAILED", "CANCELLED"}, MaxRuns)
  /\ \A a \in DOMAIN approvals : approvals[a].status \in {"PENDING"} \cup Decisions
  /\ \A f \in DOMAIN findings : findings[f] \in {"OPEN", "FIXING", "RESOLVED"}
  /\ parker \in [Worker -> {"idle", "look", "create"}]
  /\ \A p \in Person : page[p] \subseteq DOMAIN approvals

\* A task has one pending approval at most: a second one takes two workers that
\* both looked before either had created (requestApproval is two statements).
OnePendingApproval == Cardinality(pending) > 1 => overlap

\* A decision is made once: of the people who answer an approval from pages of
\* different age, one succeeds and the others get a conflict.
DecisionsAreMadeOnce ==
  \A a \in DOMAIN approvals :
    approvals[a].decided = IF approvals[a].status = "PENDING" THEN 0 ELSE 1

\* Work that waits for a person is in the inbox, also when the worker died
\* before it asked for the approval.
WaitingWorkIsShown ==
  Last(runs) = "WAITING_FOR_HUMAN" /\ ~moved => list # {}

\* An approval passes over no blocking finding that was there when the findings
\* were counted; only one that came in between count and move gets by.
ApprovalsSawTheFindings == ~blind
=============================================================================
