--------------------------- MODULE AgentExecution ---------------------------
(***************************************************************************)
(* AgentExecutor.execute: the life of one agent run, from the budget gate  *)
(* to the bill, while the API cancels the run, its workflow or its task,   *)
(* a person drags the task to CANCELLED, and workflows of the task end.    *)
(*                                                                         *)
(* An element of Exec is one call of execute() for the one task of the     *)
(* model. Each action is one transaction or statement on the database, or  *)
(* one step of the provider. The cancellation poll of the executor runs    *)
(* beside it (Poll...), and cancel jobs arrive from the queue, perhaps in  *)
(* another process, where they have no effect on the run.                  *)
(***************************************************************************)
EXTENDS Naturals, FiniteSets

CONSTANTS
  Exec,         \* calls of execute(), one agent run each
  Run,          \* workflow runs of the task
  NoRun,        \* the parent of a review asked for by hand
  NoSnapshot,   \* what a run without an execution snapshot has frozen
  Limits,       \* cost budgets a project may have; 0 is "no budget"
  Slots,        \* how many calls for one task the deployment lets run at once
  Costs,        \* what one provider run may cost
  MaxCost,      \* the most of them
  RunBudget     \* maxCostUsd of the role: what one provider run may cost

ASSUME ExecutionAssumption ==
  /\ NoRun \notin Run /\ NoSnapshot \notin Nat
  /\ Limits \subseteq Nat /\ Slots \in Nat
  /\ MaxCost \in Nat /\ Costs \subseteq 0..MaxCost
  /\ RunBudget \in Nat

VARIABLES
  task,         \* "OPEN" (any status but the next) or "CANCELLED"
  wf,           \* workflow run -> "NONE", "ACTIVE" (or waiting for a person),
                \* "ENDED" or "CANCELLED"
  budget,       \* project.costBudgetUsd
  frozen,       \* the budget in the snapshots of its runs, if they have one
  actualCost,   \* tasks.actualCost
  row,          \* agent run -> its row
  billed,       \* agent runs with usage and cost records
  pc,           \* where the call is
  of,           \* its workflow run
  mem,          \* what it has read and computed
  outcome,      \* the status it returned
  stopped,      \* calls whose provider was told, or whose session aborted
  poll          \* where the cancellation poll is
dbVars   == <<task, wf, row, billed, actualCost>>
conf     == <<budget, frozen>>
callVars == <<pc, of, mem, outcome>>
stopVars == <<stopped, poll>>
vars     == <<dbVars, conf, callVars, stopVars>>

\* A run that timed out counts as FAILED.
Final  == {"SUCCEEDED", "FAILED", "BUDGET_EXCEEDED", "CANCELLED"}
NoRow  == [status |-> "NONE", output |-> FALSE, cost |-> 0]
NoMem  == [cap |-> 0, has |-> FALSE, status |-> "FAILED", output |-> FALSE,
           cost |-> 0]

Init ==
  /\ task = "OPEN" /\ wf = [r \in Run |-> "NONE"]
  /\ budget \in Limits /\ frozen \in Limits \cup {NoSnapshot}
  /\ actualCost = 0 /\ row = [a \in Exec |-> NoRow] /\ billed = {}
  /\ pc = [a \in Exec |-> "none"] /\ of = [a \in Exec |-> NoRun]
  /\ mem = [a \in Exec |-> NoMem] /\ outcome = [a \in Exec |-> "NONE"]
  /\ stopped = {} /\ poll = [a \in Exec |-> "idle"]

-----------------------------------------------------------------------------
snapshotted(a) == of[a] # NoRun /\ frozen # NoSnapshot
parentCancelled(a) == task = "CANCELLED" \/ (of[a] # NoRun /\ wf[of[a]] = "CANCELLED")
busy == {a \in Exec : pc[a] \notin {"none", "done", "thrown"}}

smaller(x, y) == IF x < y THEN x ELSE y

\* The smallest positive one of the frozen and the current budget.
limitOf(a) ==
  IF ~snapshotted(a) \/ frozen = 0 THEN budget
  ELSE IF budget = 0 THEN frozen ELSE smaller(frozen, budget)

exceeded_strictly(spent, limit) == limit > 0 /\ spent > limit
exceeded(spent, limit) == limit > 0 /\ spent >= limit

\* What the provider is told it may spend.
maxCostUsd(a, spent, limit) ==
  IF snapshotted(a) /\ limit > 0 THEN smaller(RunBudget, limit - spent) ELSE RunBudget

goto(a, place) == pc' = [pc EXCEPT ![a] = place]
continues(a, place) == goto(a, place) /\ UNCHANGED <<mem, outcome, stopVars>>

\* A call is over. A tick of its poll in flight finds the row ended.
over(a, place) == goto(a, place) /\ mem' = [mem EXCEPT ![a] = NoMem]
pollEnds(a) == poll' = [poll EXCEPT ![a] = "idle"]
returns(a, status) ==
  /\ over(a, "done") /\ pollEnds(a)
  /\ outcome' = [outcome EXCEPT ![a] = status]
  /\ UNCHANGED stopped

\* provider.cancelRun and the runtime's cancel. The provider remembers a stop
\* that comes before its run starts; one after its answer stops nothing.
beforeAnswer == {"persist", "check", "checkParents", "checkClaim", "prepare", "start",
                 "running"}
stopRun(a) == stopped' = stopped \cup {a}

\* The timer is cleared: no further tick, and no use for a stop, but the tick
\* in flight goes on.
timerEnds(a) ==
  /\ poll' = [poll EXCEPT ![a] = IF @ \in {"parents", "claim"} THEN @ ELSE "idle"]
  /\ stopped' = stopped \ {a}

cancelled(rows, S) ==
  [a \in Exec |-> IF a \in S /\ rows[a].status = "RUNNING"
                  THEN [rows[a] EXCEPT !.status = "CANCELLED"] ELSE rows[a]]
running == {a \in Exec : row[a].status = "RUNNING"}

-----------------------------------------------------------------------------
(***************************************************************************)
(* execute(): reads, the budget gate, and the row.                         *)
(***************************************************************************)
Begin(a) ==
  /\ pc[a] = "none" /\ Cardinality(busy) < Slots
  /\ \E r \in {q \in Run : wf[q] # "NONE"} \cup {NoRun} : of' = [of EXCEPT ![a] = r]
  /\ goto(a, "gate")
  /\ UNCHANGED <<dbVars, conf, mem, outcome, stopVars>>

budgetExceeded(a) ==
  /\ pc[a] = "gate"
  /\ IF exceeded(actualCost, limitOf(a))
     THEN goto(a, "refuse") /\ UNCHANGED mem
     ELSE /\ goto(a, "create")
          /\ mem' = [mem EXCEPT ![a].cap = maxCostUsd(a, actualCost, limitOf(a))]
  /\ UNCHANGED <<dbVars, conf, of, outcome, stopVars>>

\* Both transactions lock the task row, and look at the parents under it.
Refuse(a) ==
  /\ pc[a] = "refuse"
  /\ LET status == IF parentCancelled(a) THEN "CANCELLED" ELSE "BUDGET_EXCEEDED"
     IN  /\ row' = [row EXCEPT ![a].status = status]
         /\ returns(a, status)
  /\ UNCHANGED <<task, wf, billed, actualCost, conf, of>>

Create(a) ==
  /\ pc[a] = "create"
  /\ LET status == IF parentCancelled(a) THEN "CANCELLED" ELSE "RUNNING"
     IN  /\ row' = [row EXCEPT ![a].status = status]
         /\ IF status = "CANCELLED" THEN returns(a, status) ELSE continues(a, "persist")
  /\ UNCHANGED <<task, wf, billed, actualCost, conf, of>>

(***************************************************************************)
(* The guarded part: context, snapshot, scan, cancellation check, runtime, *)
(* provider. Whatever throws in it ends in Release with a failure.         *)
(***************************************************************************)
leaves(a, m) ==
  mem' = [mem EXCEPT ![a] = m] /\ goto(a, "release") /\ timerEnds(a)
fails(a) == leaves(a, NoMem)

Throws(a) ==
  /\ pc[a] \in beforeAnswer \ {"running"}
  /\ fails(a)
  /\ UNCHANGED <<dbVars, conf, of, outcome>>

\* The invocation is stored with the row, only while the row is RUNNING.
PersistContext(a) ==
  /\ pc[a] = "persist"
  /\ IF snapshotted(a) /\ row[a].status # "RUNNING" THEN fails(a)
     ELSE goto(a, "check") /\ UNCHANGED <<mem, stopVars>>
  /\ UNCHANGED <<dbVars, conf, of, outcome>>

\* cancellationRequested(), called once before the provider starts.
CheckRow(a) ==
  /\ pc[a] = "check"
  /\ IF row[a].status = "CANCELLED" THEN fails(a)
     ELSE goto(a, "checkParents") /\ UNCHANGED <<mem, stopVars>>
  /\ UNCHANGED <<dbVars, conf, of, outcome>>

CheckParents(a) ==
  /\ pc[a] = "checkParents"
  /\ goto(a, IF parentCancelled(a) THEN "checkClaim" ELSE "prepare")
  /\ UNCHANGED <<dbVars, conf, of, mem, outcome, stopVars>>

CheckClaim(a) ==
  /\ pc[a] = "checkClaim"
  /\ row' = cancelled(row, {a})
  /\ fails(a)
  /\ UNCHANGED <<task, wf, billed, actualCost, conf, of, outcome>>

\* The runtime session is prepared, the start audited, the timer set and the
\* provider called.
Prepare(a) ==
  /\ pc[a] = "prepare"
  /\ goto(a, "start")
  /\ UNCHANGED <<dbVars, conf, of, mem, outcome, stopVars>>

answers(a, status, output, cost) ==
  leaves(a, [cap |-> 0, has |-> TRUE, status |-> status, output |-> output,
             cost |-> cost])

\* invoke(): a run stopped by now is not started.
Invoke(a) ==
  /\ pc[a] = "start"
  /\ IF a \in stopped
     THEN \E cost \in Costs, s \in {"CANCELLED", "FAILED"} :
            answers(a, s, FALSE, cost)
     ELSE goto(a, "running") /\ UNCHANGED <<mem, stopVars>>
  /\ UNCHANGED <<dbVars, conf, of, outcome>>

(***************************************************************************)
(* The provider answers: an output, valid or refused by the second gate;   *)
(* an output over its cap; a failure or a timeout; nothing, having thrown; *)
(* or, stopped, CANCELLED.                                                 *)
(***************************************************************************)
Answer(a) ==
  /\ pc[a] = "running"
  /\ \E cost \in Costs :
       \/ /\ cost <= mem[a].cap
          /\ \E s \in {"SUCCEEDED", "FAILED"} : answers(a, s, TRUE, cost)
       \/ /\ cost > mem[a].cap
          /\ answers(a, "BUDGET_EXCEEDED", FALSE, cost)
       \/ answers(a, "FAILED", FALSE, cost)
       \/ /\ a \in stopped
          /\ answers(a, "CANCELLED", FALSE, cost)
       \/ fails(a)
  /\ UNCHANGED <<dbVars, conf, of, outcome>>

\* finally: release the session. A release that fails voids the result.
Release(a) ==
  /\ pc[a] = "release"
  /\ goto(a, "complete")
  /\ \/ UNCHANGED mem
     \/ mem' = [mem EXCEPT ![a] = NoMem]
  /\ UNCHANGED <<dbVars, conf, of, outcome, stopVars>>

-----------------------------------------------------------------------------
(***************************************************************************)
(* Completion, under the task lock; then usage, cost and the task's total. *)
(***************************************************************************)
result(a) == [status |-> mem[a].status, output |-> mem[a].output, cost |-> mem[a].cost]

Complete_rowOnly(a) ==
  /\ pc[a] = "complete"
  /\ IF row[a].status # "RUNNING"
     THEN UNCHANGED row /\ goto(a, "reread")
     ELSE row' = [row EXCEPT ![a] = result(a)] /\ goto(a, "usage")
  /\ UNCHANGED <<task, wf, billed, actualCost, conf, of, mem, outcome, stopVars>>
Complete_unclaimed(a) ==
  /\ pc[a] = "complete"
  /\ IF parentCancelled(a) \/ row[a].status # "RUNNING"
     THEN UNCHANGED row /\ goto(a, "reread")
     ELSE row' = [row EXCEPT ![a] = result(a)] /\ goto(a, "usage")
  /\ UNCHANGED <<task, wf, billed, actualCost, conf, of, mem, outcome, stopVars>>
Complete(a) ==
  /\ pc[a] = "complete"
  /\ IF parentCancelled(a)
     THEN row' = cancelled(row, {a}) /\ goto(a, "reread")
     ELSE IF row[a].status # "RUNNING"
     THEN UNCHANGED row /\ goto(a, "reread")
     ELSE row' = [row EXCEPT ![a] = result(a)] /\ goto(a, "usage")
  /\ UNCHANGED <<task, wf, billed, actualCost, conf, of, mem, outcome, stopVars>>

\* Somebody else ended the row: its status is the outcome.
Reread_own(a) ==
  /\ pc[a] = "reread"
  /\ returns(a, mem[a].status)
  /\ UNCHANGED <<dbVars, conf, of>>
Reread_billed(a) ==
  /\ pc[a] = "reread"
  /\ actualCost' = actualCost + mem[a].cost
  /\ returns(a, row[a].status)
  /\ UNCHANGED <<task, wf, row, billed, conf, of>>
Reread(a) ==
  /\ pc[a] = "reread"
  /\ returns(a, row[a].status)
  /\ UNCHANGED <<dbVars, conf, of>>

RecordUsage(a) ==
  /\ pc[a] = "usage"
  /\ IF mem[a].has
     THEN billed' = billed \cup {a} /\ continues(a, "bill")
     ELSE UNCHANGED billed /\ returns(a, mem[a].status)
  /\ UNCHANGED <<task, wf, row, actualCost, conf, of>>

Bill_withinBudget(a) ==
  /\ pc[a] = "bill"
  /\ actualCost' = actualCost + smaller(mem[a].cost, RunBudget)
  /\ returns(a, mem[a].status)
  /\ UNCHANGED <<task, wf, row, billed, conf, of>>
Bill(a) ==
  /\ pc[a] = "bill"
  /\ actualCost' = actualCost + mem[a].cost
  /\ returns(a, mem[a].status)
  /\ UNCHANGED <<task, wf, row, billed, conf, of>>

\* A statement outside the guarded part fails, or the process dies: the call
\* is over, and what it had written stays. A process that lives finishes the
\* tick in flight.
Dies(a) ==
  /\ a \in busy
  /\ over(a, "thrown")
  /\ \/ timerEnds(a)
     \/ pollEnds(a) /\ stopped' = stopped \ {a}
  /\ UNCHANGED <<dbVars, conf, of, outcome>>

-----------------------------------------------------------------------------
(***************************************************************************)
(* The poll: every tick of the timer asks cancellationRequested(), and the *)
(* first positive answer stops the provider. A tick in flight goes on when *)
(* the timer is cleared.                                                   *)
(***************************************************************************)
pollTo(a, place) == poll' = [poll EXCEPT ![a] = place]

PollRow(a) ==
  /\ poll[a] = "idle" /\ pc[a] \in {"start", "running"}
  /\ pollTo(a, IF row[a].status = "CANCELLED" THEN "send" ELSE "parents")
  /\ UNCHANGED <<dbVars, conf, callVars, stopped>>

PollParents_rowOnly(a) ==
  /\ poll[a] = "parents"
  /\ pollTo(a, "idle")
  /\ UNCHANGED <<dbVars, conf, callVars, stopped>>
PollParents(a) ==
  /\ poll[a] = "parents"
  /\ pollTo(a, IF parentCancelled(a) THEN "claim" ELSE "idle")
  /\ UNCHANGED <<dbVars, conf, callVars, stopped>>

PollClaim(a) ==
  /\ poll[a] = "claim"
  /\ row' = cancelled(row, {a})
  /\ pollTo(a, IF pc[a] \in beforeAnswer THEN "send" ELSE "idle")
  /\ UNCHANGED <<task, wf, billed, actualCost, conf, callVars, stopped>>

PollSend(a) ==
  /\ poll[a] = "send"
  /\ stopRun(a) /\ pollTo(a, "sent")
  /\ UNCHANGED <<dbVars, conf, callVars>>

Poll(a) == PollRow(a) \/ PollParents(a) \/ PollClaim(a) \/ PollSend(a)

\* The cancel job of a run that was cancelled, taken by the run's own process.
\* A job that is lost, or taken by another process, changes nothing.
CancelJob(a) ==
  /\ pc[a] \in beforeAnswer /\ a \notin stopped /\ row[a].status = "CANCELLED"
  /\ stopRun(a)
  /\ UNCHANGED <<dbVars, conf, callVars, poll>>

\* A worker that shuts down aborts the sessions of its runtime.
Shutdown(a) ==
  /\ pc[a] \in {"start", "running"} /\ a \notin stopped
  /\ stopRun(a)
  /\ UNCHANGED <<dbVars, conf, callVars, poll>>

-----------------------------------------------------------------------------
(***************************************************************************)
(* The other writers. Cancelling a task or a workflow, and the end of a    *)
(* workflow, claim the running agents of the task in their transaction; a  *)
(* person's move of the task to CANCELLED does not.                        *)
(***************************************************************************)
StartWorkflow(r) ==
  /\ wf[r] = "NONE" /\ task = "OPEN"
  /\ wf' = [wf EXCEPT ![r] = "ACTIVE"]
  /\ UNCHANGED <<task, row, billed, actualCost, conf, callVars, stopVars>>

cancelWithWorkflows_keepsAgents ==
  /\ task = "OPEN" \/ \E r \in Run : wf[r] = "ACTIVE"
  /\ task' = "CANCELLED"
  /\ wf' = [r \in Run |-> IF wf[r] = "ACTIVE" THEN "CANCELLED" ELSE wf[r]]
  /\ UNCHANGED <<row, billed, actualCost, conf, callVars, stopVars>>
cancelWithWorkflows ==
  /\ task = "OPEN" \/ (\E r \in Run : wf[r] = "ACTIVE") \/ running # {}
  /\ task' = "CANCELLED"
  /\ wf' = [r \in Run |-> IF wf[r] = "ACTIVE" THEN "CANCELLED" ELSE wf[r]]
  /\ row' = cancelled(row, Exec)
  /\ UNCHANGED <<billed, actualCost, conf, callVars, stopVars>>

CancelAgent_always(a) ==
  /\ row[a].status # "NONE"
  /\ row' = [row EXCEPT ![a].status = "CANCELLED"]
  /\ UNCHANGED <<task, wf, billed, actualCost, conf, callVars, stopVars>>
CancelAgent(a) ==
  /\ row[a].status = "RUNNING"
  /\ row' = cancelled(row, {a})
  /\ UNCHANGED <<task, wf, billed, actualCost, conf, callVars, stopVars>>

\* A run that parks for a person stays active; every other active run of the
\* task is cancelled as superseded. The transaction rolls back when the task is
\* CANCELLED: no route leads out.
finishWorkflow(r) ==
  /\ wf[r] = "ACTIVE" /\ task = "OPEN"
  /\ \E end \in {"ACTIVE", "ENDED"} :
       wf' = [q \in Run |-> IF q = r THEN end
                           ELSE IF wf[q] = "ACTIVE" THEN "CANCELLED" ELSE wf[q]]
  /\ row' = cancelled(row, Exec)
  /\ UNCHANGED <<task, billed, actualCost, conf, callVars, stopVars>>

HumanTransition ==
  /\ task = "OPEN" /\ task' = "CANCELLED"
  /\ UNCHANGED <<wf, row, billed, actualCost, conf, callVars, stopVars>>

-----------------------------------------------------------------------------
Execute(a) ==
  \/ Begin(a) \/ budgetExceeded(a) \/ Refuse(a) \/ Create(a)
  \/ Throws(a) \/ PersistContext(a) \/ CheckRow(a) \/ CheckParents(a) \/ CheckClaim(a)
  \/ Prepare(a) \/ Invoke(a) \/ Answer(a) \/ Release(a)
  \/ Complete(a) \/ Reread(a) \/ RecordUsage(a) \/ Bill(a)

Next ==
  \/ \E a \in Exec : \/ Execute(a) \/ Dies(a) \/ Poll(a) \/ CancelJob(a)
                     \/ Shutdown(a) \/ CancelAgent(a)
  \/ \E r \in Run : StartWorkflow(r) \/ finishWorkflow(r)
  \/ cancelWithWorkflows \/ HumanTransition

\* The timer ticks and its queries are answered; nothing is assumed of the
\* provider, the queue or the persons.
Spec == Init /\ [][Next]_vars /\ \A a \in Exec : WF_vars(Poll(a))

-----------------------------------------------------------------------------
TypeOK ==
  /\ task \in {"OPEN", "CANCELLED"}
  /\ wf \in [Run -> {"NONE", "ACTIVE", "ENDED", "CANCELLED"}]
  /\ budget \in Nat /\ frozen \in Nat \cup {NoSnapshot}
  /\ actualCost \in Nat /\ billed \subseteq Exec
  /\ row \in [Exec -> [status : {"NONE", "RUNNING"} \cup Final, output : BOOLEAN,
                       cost : Nat]]
  /\ pc \in [Exec -> {"none", "gate", "refuse", "create", "persist", "check",
                      "checkParents", "checkClaim", "prepare", "start",
                      "running", "release", "complete", "reread", "usage", "bill",
                      "done", "thrown"}]
  /\ of \in [Exec -> Run \cup {NoRun}]
  /\ mem \in [Exec -> [cap : Nat, has : BOOLEAN, status : Final, output : BOOLEAN,
                       cost : Nat]]
  /\ outcome \in [Exec -> {"NONE"} \cup Final]
  /\ stopped \subseteq Exec
  /\ poll \in [Exec -> {"idle", "parents", "claim", "send", "sent"}]

(***************************************************************************)
(* Whoever cancels a workflow run claims its agents, and no agent is       *)
(* created under a cancelled run: no agent is RUNNING under one. This is   *)
(* what the shared lock on the task row is for.                            *)
(***************************************************************************)
NoLiveChildOfCancelledRun ==
  \A a \in Exec : row[a].status = "RUNNING" /\ of[a] # NoRun => wf[of[a]] # "CANCELLED"

(***************************************************************************)
(* The step handler acts on the returned status: it is the status of the   *)
(* row, whoever wrote it, and an outcome.                                  *)
(***************************************************************************)
OutcomeMatchesRow ==
  \A a \in Exec : pc[a] = "done" => outcome[a] = row[a].status /\ outcome[a] \in Final

(***************************************************************************)
(* However many agents run one after another, the recorded cost passes the *)
(* budget by no more than the agents that pass the gate together can cost. *)
(***************************************************************************)
OverspendIsBounded ==
  budget > 0 => actualCost < budget + Slots * MaxCost

(***************************************************************************)
(* Once the task or the workflow run is CANCELLED, whoever cancelled it    *)
(* and however, no agent run of it starts, gains output or cost, or ends   *)
(* as anything but CANCELLED.                                              *)
(***************************************************************************)
StoppedStaysStopped ==
  [][\A a \in Exec : parentCancelled(a) /\ pc[a] # "none" /\ row'[a] # row[a] =>
       /\ row'[a].status = "CANCELLED"
       /\ ~row'[a].output /\ row'[a].cost = 0]_vars

(***************************************************************************)
(* An agent run that has ended never changes: the late answer of a         *)
(* cancelled agent, a late cancellation and a poll in flight find it so.   *)
(***************************************************************************)
EndedAgentsAreFinal ==
  [][\A a \in Exec : row[a].status \in Final => row'[a] = row[a]]_vars

(***************************************************************************)
(* Both together: what the row of an agent run says stands.                *)
(***************************************************************************)
RowsStand == EndedAgentsAreFinal /\ StoppedStaysStopped

(***************************************************************************)
(* Every cancellation reaches the provider, though the queue may lose the  *)
(* cancel job and a person's move sends none: the poll finds it.           *)
(***************************************************************************)
CancellationReachesProvider ==
  \A a \in Exec :
    (pc[a] = "running" /\ (row[a].status = "CANCELLED" \/ parentCancelled(a)))
      ~> (a \in stopped \/ pc[a] # "running")

-----------------------------------------------------------------------------
\* The rows of the calls, as AgentLedger sees them.
Ledger == INSTANCE AgentLedger
            WITH Agent <- Exec, closed <- (task = "CANCELLED"),
                 status <- [a \in Exec |-> row[a].status],
                 cost <- [a \in Exec |-> row[a].cost],
                 due <- {a \in Exec : pc[a] \in {"usage", "bill"}},
                 total <- actualCost

(***************************************************************************)
(* The executor implements the ledger: between its transactions a run      *)
(* starts, ends, is reported and charged as AgentLedger allows, whoever    *)
(* cancels and whenever the process dies.                                  *)
(***************************************************************************)
ImplementsLedger == Ledger!Spec
=============================================================================
